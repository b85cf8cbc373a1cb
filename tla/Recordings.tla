------------------------------ MODULE Recordings ------------------------------
(***************************************************************************)
(* Moving and deleting recordings in batches: the Recordings tab of a note *)
(* (features/notes/Recordings.tsx: selection, the bar, the dialogs and the *)
(* notice), the sheet that asks which note (MoveSheet.tsx), the receipts'  *)
(* "Wrong note?" on Home (FilingRow.tsx) and the two mutations behind them *)
(* (api/queries/captures.ts).  A batch is one request for each recording;  *)
(* into a note that does not exist yet, one makes it and the rest follow.  *)
(* Notes are numbers: 0 is no note, Here the one on the screen, There one  *)
(* that exists, and those from There + 1 were made by a batch.             *)
(***************************************************************************)
EXTENDS Integers, FiniteSets, Sequences, TLC

CONSTANTS
  Captures,
  MaxBatches,
  MaxFaults,    \* lost answers, another device's moves
  Windows       \* races a run lets happen: "overlap" (a second batch beside one in flight)

VARIABLES
  place, filing,   \* the server: each capture's note, and those the pipeline is writing
  made,            \* the batch that made each new note, in order
  rows,            \* the captures of the note as the device has them cached
  screen,          \* "tab", "home"
  selecting, chosen,
  pending,         \* the dialog on screen: its kind and what it is about
  notice,          \* what is said, and of which batch
  sheet,           \* what this opening of the sheet has moved
  batch, latest,   \* the batches, and the one each mutation's callbacks answer
  faults,
  strayed, picked  \* history: what another device moved; what a person tapped since it was drawn

batchVars == <<place, filing, made, rows, screen, selecting, chosen, pending, notice, sheet, batch,
               latest, faults, strayed, picked>>

Gone == 0
Here == 1
There == 2
Batches == 1..MaxBatches
Notes == Gone..(There + MaxBatches)
NewNote == 99
NoDialog == [kind |-> "none", ids |-> {}]
Quiet == [tone |-> "none", of |-> 0]
Free == [st |-> "free", kind |-> "none", ids |-> {}, todo |-> {}, done |-> {}, failed |-> {},
         to |-> Gone, left |-> FALSE]
NoLatest == [delete |-> 0, move |-> 0]

InFlight(b) == batch[b].st \in {"first", "rest", "refused"}
IsPending(kind) == latest[kind] # 0 /\ InFlight(latest[kind])
Busy == IsPending("delete") \/ IsPending("move")
Fault == faults < MaxFaults /\ faults' = faults + 1

(* The set outlives a row that vanished; what is selected is what is still drawn. *)
Selected == chosen \cap rows

-----------------------------------------------------------------------------
(* The person *)

Quietly == UNCHANGED <<place, filing, made, rows, batch, latest, faults, strayed>>

StartSelecting(c) ==
  /\ screen = "tab" /\ ~selecting /\ pending = NoDialog /\ c \in rows
  /\ selecting' = TRUE /\ chosen' = {c} /\ notice' = Quiet /\ picked' = {c}
  /\ UNCHANGED <<screen, pending, sheet>> /\ Quietly

ToggleSelected(c) ==
  /\ selecting /\ pending = NoDialog /\ c \in rows
  /\ chosen' = IF c \in chosen THEN chosen \ {c} ELSE chosen \cup {c}
  /\ picked' = picked \cup {c}
  /\ UNCHANGED <<screen, selecting, pending, notice, sheet>> /\ Quietly

StopSelecting ==
  /\ selecting /\ pending = NoDialog
  /\ selecting' = FALSE /\ chosen' = {}
  /\ UNCHANGED <<screen, pending, notice, sheet, picked>> /\ Quietly

MayAsk ==
  /\ pending = NoDialog
  /\ "overlap" \in Windows \/ \A b \in Batches : ~InFlight(b)

(* From the bar, everything selected; from a row's menu or its tray, that row. *)
Ask(kind, ids) ==
  /\ screen = "tab" /\ MayAsk
  /\ \/ selecting /\ ids = Selected /\ ids # {} /\ ~Busy
     \/ ~selecting /\ ids \subseteq rows /\ Cardinality(ids) = 1
  /\ pending' = [kind |-> kind, ids |-> ids] /\ sheet' = {}
  /\ UNCHANGED <<screen, selecting, chosen, notice, picked>> /\ Quietly

(* "Wrong note?" on a receipt: every capture it names, as it named them then. *)
WrongNote(ids) ==
  /\ screen = "home" /\ MayAsk /\ ids # {} /\ ids = {c \in Captures : place[c] = Here} \ filing
  /\ pending' = [kind |-> "move", ids |-> ids] /\ sheet' = {} /\ notice' = Quiet
  /\ UNCHANGED <<screen, selecting, chosen, picked>> /\ Quietly

(* Cancel is off while a move is under way; Escape is not. *)
Cancel ==
  /\ pending # NoDialog /\ (pending.kind = "move" /\ Busy => "overlap" \in Windows)
  /\ pending' = NoDialog /\ sheet' = {}
  /\ UNCHANGED <<screen, selecting, chosen, notice, picked>> /\ Quietly

Begin(kind, ids, to) ==
  \E b \in Batches :
    /\ batch[b] = Free /\ \A d \in Batches : d < b => batch[d] # Free
    /\ batch' = [batch EXCEPT ![b] =
         [Free EXCEPT !.st = IF to = NewNote THEN "first" ELSE "rest", !.kind = kind, !.ids = ids,
                      !.todo = ids, !.to = to]]
    /\ latest' = [latest EXCEPT ![kind] = b]
    /\ notice' = Quiet

Confirm ==
  /\ pending.kind = "delete"
  /\ Begin("delete", pending.ids, Gone) /\ pending' = NoDialog
  /\ UNCHANGED <<place, filing, made, rows, screen, selecting, chosen, sheet, faults, strayed,
                 picked>>

(* The sheet stays up until its answer: on Home, until nothing was refused. *)
ChooseNote(to) ==
  /\ pending.kind = "move" /\ to \in {There, NewNote} /\ ~IsPending("move")
  /\ Begin("move", pending.ids, to)
  /\ UNCHANGED <<place, filing, made, rows, screen, selecting, chosen, pending, sheet, faults,
                 strayed, picked>>

(* Another screen: this one's state goes, and nobody hears of its batches. *)
Turn ==
  /\ pending = NoDialog
  /\ screen' = IF screen = "tab" THEN "home" ELSE "tab"
  /\ selecting' = FALSE /\ chosen' = {} /\ notice' = Quiet /\ latest' = NoLatest
  /\ batch' = [b \in Batches |-> [batch[b] EXCEPT !.left = InFlight(b) \/ @]]
  /\ UNCHANGED <<place, filing, made, rows, pending, sheet, faults, strayed,
                 picked>>

-----------------------------------------------------------------------------
(* A request, as the server takes it *)

Takes(c) == place[c] # Gone /\ c \notin filing
Arrives(c, to) == place' = [place EXCEPT ![c] = to]

Outcome(b, c, ok) ==
  [batch[b] EXCEPT !.todo = @ \ {c}, !.done = IF ok THEN @ \cup {c} ELSE @,
                   !.failed = IF ok THEN @ ELSE @ \cup {c}]

(* The first of a batch into a new note makes it and the rest follow by its id; *)
(* refused, nothing has moved.                                                  *)
EachMakesMutant(new) == [st |-> "first", to |-> new]
Follow(new) == [st |-> "rest", to |-> new]
FirstMoves(b, c) ==
  LET new == There + Len(made) + 1 IN
  /\ batch[b].st = "first" /\ c \in batch[b].todo /\ Takes(c)
  /\ made' = Append(made, b) /\ Arrives(c, new)
  /\ \/ batch' = [batch EXCEPT ![b] = Follow(new) @@ Outcome(b, c, TRUE)]
        /\ UNCHANGED faults
     \/ batch' = [batch EXCEPT ![b] = [Outcome(b, c, FALSE) EXCEPT !.st = "refused", !.todo = {}]]
        /\ Fault
  /\ UNCHANGED <<filing, rows, screen, selecting, chosen, pending, notice, sheet, latest,
                 strayed, picked>>

FirstRefused(b, c) ==
  /\ batch[b].st = "first" /\ c \in batch[b].todo /\ ~Takes(c)
  /\ batch' = [batch EXCEPT ![b] = [Outcome(b, c, FALSE) EXCEPT !.st = "refused", !.todo = {}]]
  /\ UNCHANGED <<place, filing, made, rows, screen, selecting, chosen, pending, notice, sheet,
                 latest, faults, strayed, picked>>

(* The others side by side; one refusal does not stop the rest. *)
Lands(b, c) ==
  /\ batch[b].st = "rest" /\ c \in batch[b].todo /\ Takes(c)
  /\ Arrives(c, batch[b].to)
  /\ \/ batch' = [batch EXCEPT ![b] = Outcome(b, c, TRUE)] /\ UNCHANGED faults
     \/ batch' = [batch EXCEPT ![b] = Outcome(b, c, FALSE)] /\ Fault
  /\ UNCHANGED <<filing, made, rows, screen, selecting, chosen, pending, notice, sheet, latest,
                 strayed, picked>>

Refused(b, c) ==
  /\ batch[b].st = "rest" /\ c \in batch[b].todo /\ ~Takes(c)
  /\ batch' = [batch EXCEPT ![b] = Outcome(b, c, FALSE)]
  /\ UNCHANGED <<place, filing, made, rows, screen, selecting, chosen, pending, notice, sheet,
                 latest, faults, strayed, picked>>

-----------------------------------------------------------------------------
(* A batch that has every answer *)

(* The rows that are gone leave the cached note now; the read brings the body. *)
Dropped(b) == rows \ batch[b].done

Hears(b) == latest[batch[b].kind] = b
AllDone(b) == batch[b].done = batch[b].ids

Over(b) == batch' = [batch EXCEPT ![b] = [@ EXCEPT !.st = "over"]]
Tone(b) == IF batch[b].failed = {} THEN "ok" ELSE "error"
Says(b) == notice' = [tone |-> Tone(b), of |-> b]
ClosedAfter(b) ==
  IF batch[b].kind = "move" /\ (screen = "tab" \/ batch[b].failed = {}) THEN NoDialog ELSE pending

Settled(b) ==
  /\ batch[b].st = "rest" /\ batch[b].todo = {}
  /\ Over(b) /\ rows' = Dropped(b)
  /\ picked' = picked \cap rows'
  /\ IF Hears(b)
     THEN /\ Says(b) /\ pending' = ClosedAfter(b)
          /\ sheet' = IF pending' = NoDialog THEN {}
                      ELSE sheet \cup batch[b].done
          /\ IF screen = "tab" /\ AllDone(b) THEN selecting' = FALSE /\ chosen' = {}
             ELSE UNCHANGED <<selecting, chosen>>
     ELSE UNCHANGED <<notice, pending, sheet, selecting, chosen>>
  /\ UNCHANGED <<place, filing, made, screen, latest, faults, strayed>>

(* The whole batch was refused with its first: said where the sheet is. *)
Failed(b) ==
  /\ batch[b].st = "refused"
  /\ Over(b) /\ IF Hears(b) THEN Says(b) ELSE UNCHANGED notice
  /\ UNCHANGED <<place, filing, made, rows, screen, selecting, chosen, pending, sheet, latest,
                 faults, strayed, picked>>

-----------------------------------------------------------------------------
(* Around it *)

(* The note read again: after a batch, on focus, on coming back to it. *)
Reread ==
  /\ rows' = {c \in Captures : place[c] = Here}
  /\ picked' = picked \cap rows'
  /\ UNCHANGED <<place, filing, made, screen, selecting, chosen, pending, notice, sheet, batch,
                 latest, faults, strayed>>

Filed(c) ==
  /\ c \in filing /\ filing' = filing \ {c}
  /\ UNCHANGED <<place, made, rows, screen, selecting, chosen, pending, notice, sheet, batch,
                 latest, faults, strayed, picked>>

MovedBack(c) ==
  /\ Fault /\ place[c] \notin {Gone, Here} /\ place' = [place EXCEPT ![c] = Here]
  /\ strayed' = strayed \cup {c}
  /\ UNCHANGED <<filing, made, rows, screen, selecting, chosen, pending, notice, sheet, batch,
                 latest, picked>>

BatchesInit ==
  /\ place = [c \in Captures |-> Here] /\ filing \in SUBSET Captures
  /\ made = <<>> /\ rows = Captures /\ screen = "tab"
  /\ selecting = FALSE /\ chosen = {} /\ pending = NoDialog /\ notice = Quiet /\ sheet = {}
  /\ batch = [b \in Batches |-> Free] /\ latest = NoLatest
  /\ faults = 0 /\ strayed = {} /\ picked = {}

Runs(b) ==
  \/ \E c \in Captures : FirstMoves(b, c) \/ FirstRefused(b, c) \/ Lands(b, c) \/ Refused(b, c)
  \/ Settled(b)
  \/ Failed(b)

BatchesNext ==
  \/ \E c \in Captures : StartSelecting(c) \/ ToggleSelected(c) \/ Filed(c) \/ MovedBack(c)
  \/ StopSelecting \/ Cancel \/ Confirm \/ Turn \/ Reread
  \/ \E ids \in SUBSET Captures : Ask("delete", ids) \/ Ask("move", ids) \/ WrongNote(ids)
  \/ \E to \in {There, NewNote} : ChooseNote(to)
  \/ \E b \in Batches : Runs(b)

BatchesSpec == BatchesInit /\ [][BatchesNext]_batchVars
BatchesFairSpec == BatchesSpec /\ \A b \in Batches : WF_batchVars(Runs(b))

-----------------------------------------------------------------------------
(* What must hold *)

BatchesTypeOK ==
  /\ place \in [Captures -> Notes] /\ filing \subseteq Captures /\ made \in Seq(Batches)
  /\ rows \cup chosen \cup strayed \cup picked \subseteq Captures
  /\ pending.kind \in {"none", "delete", "move"} /\ screen \in {"tab", "home"}
  /\ notice.tone \in {"none", "ok", "error"} /\ faults \in 0..MaxFaults

(* Recordings asked into one new note make one note, not several named alike: *)
(* the first makes it, whatever is refused or lost of the others.             *)
OneNewNote ==
  \A b \in Batches : Cardinality({i \in DOMAIN made : made[i] = b}) <= 1

(* Whatever is refused is said, on the panel it was asked on: some of a batch, *)
(* or all of it with its first.                                                *)
FailureIsSaid ==
  \A b \in Batches : InFlight(b) /\ batch'[b].st = "over" /\ batch[b].failed # {}
                       /\ ~batch[b].left => notice' = [tone |-> "error", of |-> b]

(* And a batch said to have gone well has: every recording it was asked about  *)
(* is where it was to go, unless another device has moved it since.            *)
SaidIsSo ==
  \A b \in Batches :
    InFlight(b) /\ batch'[b].st = "over" /\ notice' = [tone |-> "ok", of |-> b]
      => \A c \in batch[b].ids \ strayed : place[c] = batch[b].to

(* A sheet something was moved from closes, or says why not. *)
SheetIsOver == pending.kind = "move" /\ sheet # {} => notice.tone = "error"
SheetAnswers == []<>SheetIsOver

-----------------------------------------------------------------------------
(* A batch of moves or deletes, of which some are refused: all of the above,  *)
(* in every state and every step.                                             *)
BatchesInv == BatchesTypeOK /\ OneNewNote
BatchesAreTold == []BatchesInv /\ [][FailureIsSaid /\ SaidIsSo]_batchVars

-----------------------------------------------------------------------------
(* What the repository says that the code does not keep. *)

(* A sheet does not ask twice for what it has moved: into a new note, that is *)
(* a second note of the name, and the first left without it.                  *)
NotMovedTwice ==
  \A b \in Batches : batch[b].st = "first" => batch[b].ids \cap sheet = {}

(* What the bar acts on was tapped since it was last drawn: a row that vanished *)
(* is dropped from the selection.                                               *)
SelectedWasPicked == Selected \subseteq picked
=============================================================================
