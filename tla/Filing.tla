------------------------------- MODULE Filing -------------------------------
(***************************************************************************)
(* Where a recording is shown on its way into a note: the tray on Home     *)
(* (features/capture/FilingRow and filing/), the banner on the note it is  *)
(* going into (FilingBanner), the polls behind both                        *)
(* (api/queries/captures.ts) and the rows a person has put away on this    *)
(* device (dismissed.ts).  One note, "n", is the one this device holds a   *)
(* copy of; "m" stands for any other.  The pipeline and the other devices  *)
(* are external.  A tap, its request and the answer are one step: the row  *)
(* it was made on may be behind the server all the same.                   *)
(***************************************************************************)
EXTENDS Integers, FiniteSets

CONSTANTS
  Captures,     \* numbered in the order they are made in
  Own,          \* the one this device is sending, or 0
  Targeted,     \* those a person sent into "n"
  ListLimit,    \* rows in one answer of the poll
  MaxEvents,    \* taps on a row, jumps of the clock, failed reads, another device's retries
  Windows       \* races a run lets happen: "unseen", "left"

VARIABLES
  server, text, \* the capture rows, and whose paragraphs are in "n"
  local,        \* the upload this device is making: "no", "uploading", "uploaded", "failed"
  list, poll,   \* Home's cached answer and the read that would replace it
  waiting, owed,\* the captures waiting on the person, and whether they are asked for
  copy, read,   \* the cached copy of "n" and its read
  asked,        \* GET /v1/captures/{id}, as answered
  stored, mine, \* ids put away: on the device, and as the mounted screen holds them
  screen, watch, landed,
  events,
  closed, erased \* history: rows put away; captures a cross deleted after they were filed

vars == <<server, text, local, list, poll, waiting, owed, copy, read, asked, stored, mine, screen,
          watch, landed, events, closed, erased>>

NoRow == [st |-> "none", note |-> "none", stall |-> "brisk"]
NoRows == [c \in Captures |-> NoRow]
NoPoll == [st |-> "no", rows |-> NoRows, more |-> FALSE]
NoCopy == [held |-> FALSE, rows |-> [c \in Captures |-> "none"], text |-> {}, stale |-> FALSE,
           young |-> FALSE]
NoRead == [st |-> "no", rows |-> NoCopy.rows, text |-> {}]
NoWatch == [id |-> 0, on |-> FALSE]

Moving(st) == st = "moving"
Waits(st) == st \in {"asks", "failed"}
Terminal(st) == st \in {"asks", "failed", "silent", "appended"}

(* Past ten minutes a row is called stuck; past fifteen the server will let it go. *)
Stuck(row) == Moving(row.st) /\ row.stall \in {"stuck", "due"}
RetryAccepted(row) == Moving(row.st) /\ row.stall = "due"

(* A receipt is worth a row for a day, "nothing heard" for ten minutes. *)
Relevant(row) == row.st # "none" /\ row.stall # "old"

Event == events < MaxEvents /\ events' = events + 1

Made == {c \in Captures : server[c] # NoRow}
Newest == {c \in Made : Cardinality({d \in Made : d > c}) < ListLimit}

-----------------------------------------------------------------------------
(* What the screens draw *)

Known(c) == IF list.rows[c] = NoRow /\ list.more THEN waiting[c] ELSE list.rows[c]
IsTargeted(c) == c \in Targeted
Drawn == {c \in Captures : Known(c) # NoRow /\ ~IsTargeted(c) /\ c \notin mine}
Receipts(note) == {c \in Drawn : Known(c).st = "appended" /\ Known(c).note = note}

(* The upload's own row, until the server's is there: on Home unless it was *)
(* aimed at a note, and a failed one wherever it was aimed.                  *)
LocalDrawn ==
  CASE screen = "home" -> local \in {"uploading", "uploaded", "failed"}
                            /\ (~IsTargeted(Own) \/ local = "failed")
    [] screen = "note" -> local \in {"uploading", "uploaded", "failed"} /\ IsTargeted(Own)
    [] OTHER -> FALSE

(* The newest of the note's captures that is moving, or stopped and not put away. *)
BannerAbout(c, rows, away) ==
  /\ rows[c] \notin {"none", "appended"} /\ c \notin away
  /\ \A d \in Captures : d > c => rows[d] \in {"none", "appended"} \/ d \in away

Banner(rows, away) == {c \in Captures : BannerAbout(c, rows, away)}

(* What the banner remembers is the recording it is about; it says "Added at *)
(* the end" once the note's copy has that recording appended.                *)
Busy(rows, away, up) ==
  Banner(rows, away) # {} \/ (up \in {"uploading", "uploaded", "failed"} /\ IsTargeted(Own))
Watched(rows, away, up) ==
  [id |-> IF Banner(rows, away) # {} THEN CHOOSE c \in Banner(rows, away) : TRUE
          ELSE IF up = "uploaded" THEN Own ELSE watch.id,
   on |-> TRUE]
HasLanded(was, rows) == was.on /\ was.id # 0 /\ rows[was.id] = "appended"

(* Every change of the note's copy, of the upload or of what is put away. *)
Shows(new, away, up) ==
  /\ copy' = new
  /\ IF screen # "note" \/ ~new.held THEN UNCHANGED <<watch, landed>>
     ELSE IF Busy(new.rows, away, up)
     THEN watch' = Watched(new.rows, away, up) /\ UNCHANGED landed
     ELSE /\ watch' = NoWatch
          /\ landed' = IF HasLanded(watch, new.rows) THEN watch ELSE landed

-----------------------------------------------------------------------------
(* The cache *)

(* invalidateQueries: what is on the screen is read again from the start, the *)
(* rest is marked.                                                            *)
PollAgain == [NoPoll EXCEPT !.st = "asked"]
AsksAgain(p) == IF screen = "home" THEN PollAgain ELSE p
NoteStale(new) == [new EXCEPT !.stale = new.held]
ReadAgain(r) == IF screen = "note" THEN [NoRead EXCEPT !.st = "asked"] ELSE r

CapturesInvalidated == poll' = AsksAgain(poll) /\ owed' = (owed \/ screen = "home")

Listing == [c \in Captures |-> IF c \in Newest /\ Relevant(server[c]) THEN server[c] ELSE NoRow]

(* The notes the poll has just seen written to: compared with the last answer, *)
(* and with nothing on a cold start.                                           *)
SeenBeforeMutant(old, rows) ==
  {rows[c].note : c \in {c \in Captures : rows[c].st = "appended" /\ Moving(old.rows[c].st)}}
NewlyAppended(old, rows) ==
  IF ~old.known THEN {}
  ELSE {rows[c].note : c \in {c \in Captures :
         rows[c].st = "appended" /\ old.rows[c].st # "appended"}}

PollAsks ==
  /\ screen = "home" /\ poll.st = "no" /\ \E c \in Captures : Moving(list.rows[c].st)
  /\ poll' = PollAgain
  /\ UNCHANGED <<server, text, local, list, waiting, owed, copy, read, asked, stored, mine, screen,
                 watch, landed, events, closed, erased>>

PollServed ==
  /\ poll.st = "asked"
  /\ poll' = [st |-> "served", rows |-> Listing, more |-> Cardinality(Made) > ListLimit]
  /\ UNCHANGED <<server, text, local, list, waiting, owed, copy, read, asked, stored, mine, screen,
                 watch, landed, events, closed, erased>>

(* The server's row is on the screen: the upload has nothing left to say. *)
HandsOver(rows) == local = "uploaded" /\ Own \in Captures /\ rows[Own] # NoRow

PollLands ==
  /\ poll.st = "served"
  /\ screen = "home" \/ "unseen" \in Windows
  /\ LET old == list
         touched == IF screen = "home" THEN NewlyAppended(old, poll.rows) ELSE {}
     IN /\ list' = [known |-> TRUE, rows |-> poll.rows, more |-> poll.more]
        /\ copy' = IF "n" \in touched THEN NoteStale(copy) ELSE copy
        /\ local' = IF screen = "home" /\ HandsOver(poll.rows) THEN "no" ELSE local
  /\ poll' = NoPoll
  /\ UNCHANGED <<server, text, waiting, owed, read, asked, stored, mine, screen, watch, landed,
                 events, closed, erased>>

PollFails ==
  /\ poll.st # "no" /\ Event
  /\ poll' = NoPoll
  /\ UNCHANGED <<server, text, local, list, waiting, owed, copy, read, asked, stored, mine, screen,
                 watch, landed, closed, erased>>

(* Past the answer's last row, the captures waiting on the person are asked for. *)
NoMoreMutant(more) == FALSE
AsksForWaiting(more) == more

WaitingLands ==
  /\ owed /\ screen = "home" /\ AsksForWaiting(list.more)
  /\ waiting' = [c \in Captures |-> IF Waits(server[c].st) THEN server[c] ELSE NoRow]
  /\ owed' = FALSE
  /\ UNCHANGED <<server, text, local, list, poll, copy, read, asked, stored, mine, screen, watch,
                 landed, events, closed, erased>>

-----------------------------------------------------------------------------
(* The open note *)

(* The row of a capture is in the note's read once it has the note's id. *)
NoteRows == [c \in Captures |-> IF server[c].note = "n" THEN server[c].st ELSE "none"]

ReadServed ==
  /\ read.st = "asked"
  /\ read' = [st |-> "served", rows |-> NoteRows, text |-> text]
  /\ UNCHANGED <<server, text, local, list, poll, waiting, owed, copy, asked, stored, mine, screen,
                 watch, landed, events, closed, erased>>

ReadLands ==
  /\ read.st = "served" /\ (screen = "note" \/ "left" \in Windows)
  /\ LET up == IF screen = "note" /\ IsTargeted(Own) /\ local = "uploaded"
                    /\ read.rows[Own] # "none" THEN "no" ELSE local
     IN /\ local' = up
        /\ Shows([held |-> TRUE, rows |-> read.rows, text |-> read.text, stale |-> FALSE,
                  young |-> TRUE], mine, up)
  /\ read' = NoRead
  /\ UNCHANGED <<server, text, list, poll, waiting, owed, asked, stored, mine, screen, events, closed, erased>>

ReadFails ==
  /\ read.st # "no" /\ Event
  /\ read' = NoRead
  /\ UNCHANGED <<server, text, local, list, poll, waiting, owed, copy, asked, stored, mine, screen,
                 watch, landed, closed, erased>>

(* Each capture still moving in the copy is asked after on its own. *)
Asks(c) ==
  /\ screen = "note" /\ copy.held /\ Moving(copy.rows[c]) /\ asked[c] = "no" /\ ~copy.stale
  /\ asked' = [asked EXCEPT ![c] = server[c].st]
  /\ UNCHANGED <<server, text, local, list, poll, waiting, owed, copy, read, stored, mine, screen,
                 watch, landed, events, closed, erased>>

(* A stage is written into the copy; what has stopped, or gone, has the note *)
(* read again, so that the status and the body arrive together.              *)
Patched(c, st) == IF Moving(st) THEN [copy EXCEPT !.rows[c] = st] ELSE NoteStale(copy)

Answered(c) ==
  /\ asked[c] # "no"
  /\ asked' = [asked EXCEPT ![c] = "no"]
  /\ IF screen = "note" /\ Moving(copy.rows[c])
     THEN LET new == Patched(c, asked[c])
          IN Shows(new, mine, local) /\ read' = IF new.stale THEN ReadAgain(read) ELSE read
     ELSE UNCHANGED <<copy, watch, landed, read>>
  /\ UNCHANGED <<server, text, local, list, poll, waiting, owed, stored, mine, screen, events, closed, erased>>

-----------------------------------------------------------------------------
(* What the person does to a row *)

Face(c) == IF screen = "home" THEN Known(c)
           ELSE [st |-> copy.rows[c], note |-> "n", stall |-> server[c].stall]
OnScreen(c) == \/ screen = "home" /\ c \in Drawn
               \/ screen = "note" /\ c \in Banner(copy.rows, mine)

(* dismissCaptures: the device is written from the screen's own set. *)
PutAway(ids) == mine' = mine \cup ids /\ stored' = mine \cup ids

(* What a row offers.  No cross on a row that asks which note. *)
Stopped(row) == row.st \in {"failed", "silent"}
Crossed(row) == Stopped(row) \/ Stuck(row)
Retryable(row) == Stopped(row) \/ RetryAccepted(row)

Dismiss(c) ==
  /\ Event /\ OnScreen(c)
  /\ Crossed(Face(c)) /\ ~RetryAccepted(Face(c))
  /\ PutAway({c}) /\ closed' = closed \cup {c}
  /\ Shows(copy, mine \cup {c}, local)
  /\ UNCHANGED <<server, text, local, list, poll, waiting, owed, read, asked, screen, erased>>

(* Clear all, or the cross on a receipt. *)
DismissReceipts(notes) ==
  /\ Event /\ screen = "home" /\ \A note \in notes : Receipts(note) # {}
  /\ LET ids == UNION {Receipts(note) : note \in notes}
     IN PutAway(ids) /\ closed' = closed \cup ids
  /\ UNCHANGED <<server, text, local, list, poll, waiting, owed, copy, read, asked, screen, watch,
                 landed, erased>>

(* A receipt opened: its note is stale, its rows are put away, and Home goes. *)
OpenReceipt ==
  /\ Event /\ screen = "home" /\ Receipts("n") # {}
  /\ PutAway(Receipts("n")) /\ closed' = closed \cup Receipts("n")
  /\ copy' = NoteStale(copy)
  /\ screen' = "note" /\ owed' = FALSE
  /\ poll' = IF "unseen" \in Windows THEN poll ELSE NoPoll
  /\ read' = IF read.st = "no" THEN [NoRead EXCEPT !.st = "asked"] ELSE read
  /\ UNCHANGED <<server, text, local, list, waiting, asked, watch, landed, erased>>

(* The cross on a stuck row deletes it once its date is past; the server takes *)
(* that of anything but a capture a worker may still be writing.               *)
Deletable(c) == ~Moving(server[c].st) \/ RetryAccepted(server[c])
Dropped(c) == NoteStale([copy EXCEPT !.rows[c] = "none"])
Cross(c) ==
  /\ Event /\ OnScreen(c) /\ RetryAccepted(Face(c))
  /\ IF Deletable(c)
     THEN /\ server' = [server EXCEPT ![c] = NoRow]
          /\ text' = text \ {c}
          /\ erased' = IF server[c].st = "appended" THEN erased \cup {c} ELSE erased
          /\ list' = [list EXCEPT !.rows[c] = NoRow]
          /\ CapturesInvalidated
     ELSE UNCHANGED <<server, text, erased, list, poll, owed>>
  /\ LET gone == Deletable(c) /\ Face(c).note = "n"
     IN /\ Shows(IF gone THEN Dropped(c) ELSE copy, mine \cup {c}, local)
        /\ read' = IF gone THEN ReadAgain(read) ELSE read
  /\ PutAway({c}) /\ closed' = closed \cup {c}
  /\ UNCHANGED <<local, waiting, asked, screen>>

(* Retry, Transcribe anyway and the note chosen for a row that asks: each is  *)
(* refused if the server has moved on, and has the lists read again if not.   *)
Restarts(row) == [row EXCEPT !.st = "moving", !.stall = "brisk"]
Retry(c) ==
  /\ Event /\ OnScreen(c)
  /\ Retryable(Face(c))
  /\ IF Retryable(server[c])
     THEN server' = [server EXCEPT ![c] = Restarts(@)] /\ CapturesInvalidated
     ELSE UNCHANGED <<server, poll, owed>>
  /\ UNCHANGED <<text, local, list, waiting, copy, read, asked, stored, mine, screen, watch, landed, closed, erased>>

Aimed(row, note) == [Restarts(row) EXCEPT !.note = note]
Choose(c, note) ==
  /\ Event /\ OnScreen(c) /\ Face(c).st = "asks"
  /\ IF server[c].st = "asks"
     THEN server' = [server EXCEPT ![c] = Aimed(@, note)] /\ CapturesInvalidated
     ELSE UNCHANGED <<server, poll, owed>>
  /\ UNCHANGED <<text, local, list, waiting, copy, read, asked, stored, mine, screen, watch, landed, closed, erased>>

-----------------------------------------------------------------------------
(* Coming and going *)

GoHome ==
  /\ screen # "home" /\ screen' = "home"
  /\ mine' = stored /\ owed' = TRUE
  /\ poll' = IF poll.st = "no" THEN PollAgain ELSE poll
  /\ read' = IF "left" \in Windows THEN read ELSE NoRead
  /\ watch' = NoWatch /\ landed' = NoWatch
  /\ asked' = [c \in Captures |-> "no"]
  /\ local' = IF HandsOver(list.rows) THEN "no" ELSE local
  /\ UNCHANGED <<server, text, list, waiting, copy, stored, events, closed, erased>>

(* A copy under thirty seconds old, and not marked, is not read again. *)
OpenNote ==
  /\ screen = "home" /\ screen' = "note" /\ (list.known \/ "unseen" \in Windows)
  /\ mine' = stored /\ owed' = FALSE
  /\ poll' = IF "unseen" \in Windows THEN poll ELSE NoPoll
  /\ read' = IF read.st = "no" /\ (~copy.held \/ copy.stale \/ ~copy.young)
             THEN [NoRead EXCEPT !.st = "asked"] ELSE read
  /\ watch' = IF copy.held /\ Busy(copy.rows, stored, local)
              THEN Watched(copy.rows, stored, local) ELSE NoWatch
  /\ UNCHANGED <<server, text, local, list, waiting, copy, asked, stored, landed, events, closed, erased>>

(* Back in the foreground: Home's lists always, the note if it is not fresh. *)
Focus ==
  /\ IF screen = "home"
     THEN /\ poll.st = "no" \/ ~owed
          /\ poll' = IF poll.st = "no" THEN PollAgain ELSE poll
          /\ owed' = TRUE /\ UNCHANGED read
     ELSE /\ read.st = "no" /\ (copy.stale \/ ~copy.young \/ ~copy.held)
          /\ read' = [NoRead EXCEPT !.st = "asked"] /\ UNCHANGED <<poll, owed>>
  /\ UNCHANGED <<server, text, local, list, waiting, copy, asked, stored, mine, screen, watch,
                 landed, events, closed, erased>>

(* "Added at the end" stands for six seconds, or until Show is tapped. *)
LandedGoes ==
  /\ landed.on /\ landed' = NoWatch
  /\ UNCHANGED <<server, text, local, list, poll, waiting, owed, copy, read, asked, stored, mine,
                 screen, watch, events, closed, erased>>

-----------------------------------------------------------------------------
(* The clock, this device's upload, the pipeline *)

Later(row, stall) == IF Moving(row.st) THEN [row EXCEPT !.stall = stall] ELSE row
Aged(row, stall) ==
  IF row.st \in {"silent", "appended"} THEN [row EXCEPT !.stall = "old"] ELSE Later(row, stall)
Tick(c, stall) ==
  /\ Event
  /\ server' = [server EXCEPT ![c] = Aged(@, stall)]
  /\ list' = [list EXCEPT !.rows[c] = Later(@, stall)]
  /\ poll' = [poll EXCEPT !.rows[c] = Later(@, stall)]
  /\ Shows([copy EXCEPT !.young = FALSE], mine, local)
  /\ UNCHANGED <<text, local, waiting, owed, read, asked, stored, mine, screen,
                 closed, erased>>

Post ==
  /\ local = "uploading" /\ server[Own] = NoRow
  /\ server' = [server EXCEPT ![Own] = [st |-> "moving", stall |-> "brisk",
                  note |-> IF Own \in Targeted THEN "n" ELSE "none"]]
  /\ UNCHANGED <<text, local, list, poll, waiting, owed, copy, read, asked, stored, mine, screen,
                 watch, landed, events, closed, erased>>

(* The bytes are up: Home's list is asked for at once, and the note they went into. *)
UploadLands ==
  /\ local = "uploading" /\ server[Own] # NoRow
  /\ local' = "uploaded"
  /\ poll' = AsksAgain(poll)
  /\ IF IsTargeted(Own)
     THEN Shows(NoteStale(copy), mine, local') /\ read' = ReadAgain(read)
     ELSE UNCHANGED <<copy, watch, landed, read>>
  /\ UNCHANGED <<server, text, list, waiting, owed, asked, stored, mine, screen, events, closed, erased>>

(* Ten seconds without the server's row: the connection died after the upload. *)
Grace ==
  /\ local = "uploaded" /\ events > 0 /\ local' = "no"
  /\ Shows(copy, mine, local')
  /\ UNCHANGED <<server, text, list, poll, waiting, owed, read, asked, stored, mine, screen, events, closed, erased>>

UploadFails ==
  /\ local = "uploading" /\ Event
  /\ local' = "failed"
  /\ UNCHANGED <<server, text, list, poll, waiting, owed, copy, read, asked, stored, mine, screen,
                 watch, landed, closed, erased>>

Resend ==
  /\ local = "failed" /\ LocalDrawn /\ Event
  /\ local' = "uploading"
  /\ UNCHANGED <<server, text, list, poll, waiting, owed, copy, read, asked, stored, mine, screen,
                 watch, landed, closed, erased>>

(* The worker: a destination, a question, a stop, the paragraph, then the row. *)
Becomes(c, st) == server' = [server EXCEPT ![c] = [@ EXCEPT !.st = st, !.stall = "brisk"]]
Pipeline(c) ==
  /\ Moving(server[c].st)
  /\ c = Own => local \in {"no", "uploaded"}
  /\ \/ /\ server[c].note = "none" /\ UNCHANGED text
        /\ \E note \in {"n", "m"} : server' = [server EXCEPT ![c].note = note, ![c].stall = "brisk"]
     \/ server[c].stall # "brisk" /\ Becomes(c, "moving") /\ UNCHANGED text
     \/ server[c].note = "none" /\ Becomes(c, "asks") /\ UNCHANGED text
     \/ c \notin text /\ Becomes(c, "failed") /\ UNCHANGED text
     \/ c \notin text /\ Becomes(c, "silent") /\ UNCHANGED text
     \/ server[c].note = "n" /\ c \notin text /\ text' = text \cup {c} /\ UNCHANGED server
     \/ server[c].note = "n" /\ c \in text /\ Becomes(c, "appended") /\ UNCHANGED text
     \/ server[c].note = "m" /\ Becomes(c, "appended") /\ UNCHANGED text
  /\ UNCHANGED <<local, list, poll, waiting, owed, copy, read, asked, stored, mine, screen, watch,
                 landed, events, closed, erased>>

(* Another device sends a capture round again. *)
Elsewhere(c) ==
  /\ Event
  /\ server[c].st \in {"failed", "appended"}
  /\ Becomes(c, "moving")
  /\ UNCHANGED <<text, local, list, poll, waiting, owed, copy, read, asked, stored, mine, screen,
                 watch, landed, closed, erased>>

-----------------------------------------------------------------------------
FilingInit ==
  /\ server \in [Captures -> {NoRow, [NoRow EXCEPT !.st = "moving"],
                              [NoRow EXCEPT !.st = "moving", !.stall = "due"],
                              [NoRow EXCEPT !.st = "failed"],
                              [NoRow EXCEPT !.st = "moving", !.note = "n"]}]
  /\ \A c \in Captures : (server[c] = NoRow) = (c = Own) /\ (server[c].note = "n") = (c \in Targeted \ {Own})
  /\ text = {}
  /\ local = IF Own \in Captures THEN "uploading" ELSE "no"
  /\ list = [known |-> FALSE, rows |-> NoRows, more |-> FALSE]
  /\ poll = PollAgain /\ waiting = NoRows /\ owed = TRUE
  /\ copy = NoCopy /\ read = NoRead /\ asked = [c \in Captures |-> "no"]
  /\ stored = {} /\ mine = {} /\ screen = "home" /\ watch = NoWatch /\ landed = NoWatch
  /\ events = 0 /\ closed = {} /\ erased = {}

Reads == PollAsks \/ PollServed \/ PollLands \/ WaitingLands \/ ReadServed \/ ReadLands
           \/ \E c \in Captures : Asks(c) \/ Answered(c)
FilingNext ==
  \/ Reads \/ PollFails \/ ReadFails
  \/ \E c \in Captures : Dismiss(c) \/ Cross(c) \/ Retry(c) \/ Choose(c, "n") \/ Choose(c, "m")
                         \/ Tick(c, "stuck") \/ Tick(c, "due") \/ Pipeline(c) \/ Elsewhere(c)
  \/ \E notes \in SUBSET {"n", "m"} \ {{}} : DismissReceipts(notes)
  \/ OpenReceipt \/ GoHome \/ OpenNote \/ Focus \/ LandedGoes
  \/ Post \/ UploadLands \/ Grace \/ UploadFails \/ Resend

FilingSpec == FilingInit /\ [][FilingNext]_vars

(* Requests are answered or fail, the polls run while something moves, and the *)
(* person comes back to the app again and again.                               *)
FilingFairSpec ==
  /\ FilingSpec
  /\ WF_vars(PollAsks) /\ WF_vars(PollServed) /\ WF_vars(PollLands) /\ WF_vars(WaitingLands)
  /\ WF_vars(ReadServed) /\ WF_vars(ReadLands) /\ WF_vars(Focus)
  /\ \A c \in Captures : WF_vars(Asks(c)) /\ WF_vars(Answered(c))

-----------------------------------------------------------------------------
(* Properties *)

(* Shape of the caches and of what the device remembers. *)
Statuses == {"none", "moving", "asks", "failed", "silent", "appended"}
CaptureRow == [st : Statuses, note : {"none", "n", "m"}, stall : {"brisk", "stuck", "due", "old"}]
FilingTypeOK ==
  /\ server \in [Captures -> CaptureRow] /\ waiting \in [Captures -> CaptureRow]
  /\ list \in [known : BOOLEAN, rows : [Captures -> CaptureRow], more : BOOLEAN]
  /\ copy \in [held : BOOLEAN, rows : [Captures -> Statuses], text : SUBSET Captures,
                stale : BOOLEAN, young : BOOLEAN]
  /\ local \in {"no", "uploading", "uploaded", "failed"} /\ screen \in {"home", "note"}
  /\ stored \subseteq Captures /\ mine \subseteq Captures

(* A recording Home has seen filed into a note is in the app's copy of the note, *)
(* or that copy is to be read again: nothing else tells the note screen that the *)
(* worker wrote to it (newlyAppendedNoteIds, refreshAppendedNote).               *)
LandingReachesNote ==
  \A c \in Captures :
    list.rows[c].st = "appended" /\ list.rows[c].note = "n" /\ copy.held /\ c \notin copy.text
      => copy.stale \/ read.st # "no" \/ (screen = "note" /\ Moving(copy.rows[c]))

(* "An `appended` shown over the old body would announce a paragraph that is not *)
(* there yet" (useInFlightCaptures).                                             *)
ShownWithBody ==
  \A c \in Captures : copy.rows[c] = "appended" => c \in copy.text

(* "Added at the end" is said of a paragraph the body on the screen has, never of *)
(* a recording that stopped short or was put away (useLanded).                    *)
LandedIsThere == landed'.on /\ ~landed.on => landed'.id \in copy'.text

(* A row put away stays away, through every return to Home (dismissed.ts). *)
StaysPutAway == screen = "home" => closed \cap Drawn = {}

(* From Send to the server's row, a recording this device sends has a row on *)
(* Home: the upload's own, or the server's (useLocalUpload).                 *)
NeverNowhere ==
  screen = "home" /\ Own \in Captures \ Targeted /\ events = 0 /\ server[Own] # NoRow
    => LocalDrawn \/ Own \in Drawn

(* A recording that asks which note, or failed, comes to be drawn on Home however *)
(* many have been made since (usePendingCaptures, the waiting lists).             *)
Seen(c) == screen = "home" /\ Waits(server[c].st) => c \in Drawn \cup mine
WaitingIsSeen == \A c \in Captures \ Targeted : []<>Seen(c)

(* The open note's banner does not go on filing what the pipeline is done with: *)
(* each answer that is not an interim stage has the note read again.            *)
BannerIsRight(c) == screen = "note" /\ Moving(copy.rows[c]) => Moving(server[c].st)
BannerSettles == \A c \in Captures : []<>BannerIsRight(c)

-----------------------------------------------------------------------------
(* What Home and the open note say of a recording being filed, from Send to   *)
(* its paragraph: all of the above, in every state and every step.            *)
FilingInv == FilingTypeOK /\ LandingReachesNote /\ ShownWithBody /\ StaysPutAway /\ NeverNowhere
FilingIsTold == []FilingInv /\ [][LandedIsThere]_vars

-----------------------------------------------------------------------------
(* What the repository says that the code does not keep. *)

(* The cross on a stuck row deletes what the pipeline has left behind, never a *)
(* recording that has since been filed (useDeleteStuckCapture).                *)
CrossKeepsFiled == erased = {}

(* A recording that asks which note is never hidden: "putting that away would *)
(* hide a recording that is in no note yet" (FilingItem).                     *)
AskedStaysInView ==
  screen = "home" => \A c \in Captures \ Targeted : Known(c).st = "asks" => c \in Drawn
=============================================================================
