------------------------------ MODULE Checklist ------------------------------
(***************************************************************************)
(* The Items tab of a checklist note: the pure edits of the body           *)
(* (features/notes/checklist.ts), the editor that calls them on the rows   *)
(* it shows (ChecklistEditor.tsx, ChecklistRow.tsx), the drag of a row     *)
(* (hooks/useDragReorder.ts) and the one Undo (components/Toast.tsx).      *)
(* The body is a sequence of lines: words, done, depth.  Words are         *)
(* numbers, each written once, so that a lost or a moved one is seen.      *)
(***************************************************************************)
EXTENDS Integers, SequencesExt

CONSTANTS
  MaxDepth,     \* MAX_DEPTH: 3 in the code
  FirstLines,   \* lines in the body the editor opens on
  MaxLines, MaxEdits,
  Windows       \* "done_paste" (done lines pasted over open sub-items),
                \* "beat" (acting on rows in the 220 ms after a tick that holds them)

VARIABLES
  body,     \* the lines as written
  held,     \* rows ticked or reopened a moment ago, still grouped as they were
  drag,     \* the row in the air: its index when lifted, the axis, and where it is
  toast,    \* the act an Undo on screen would take back
  coined, edits

listVars == <<body, held, drag, toast, coined, edits>>

Line(text, done, depth) == [text |-> text, done |-> done, depth |-> depth]
NoDrag == [row |-> 0, axis |-> "y", to |-> 0, words |-> <<>>]
NoToast == [kind |-> "none", written |-> <<>>, previous |-> <<>>]

-----------------------------------------------------------------------------
(* The body as items: the depth of a line is at most one under the line before it. *)

Parsed(b) ==
  [i \in DOMAIN b |->
    [b[i] EXCEPT !.depth = Min({MaxDepth, i - 1} \cup {b[j].depth + (i - j) : j \in 1..i})]]

Block(s, i) == {j \in i..Len(s) : \A k \in (i + 1)..j : s[k].depth > s[i].depth}
StandsUnder(s, i) == {j \in 1..(i - 1) : \A k \in (j + 1)..i : s[k].depth > s[j].depth}
Parent(s, i) == Max(StandsUnder(s, i) \cup {0})

Deepened(s, rows, by) ==
  [k \in DOMAIN s |-> IF k \in rows THEN [s[k] EXCEPT !.depth = @ + by] ELSE s[k]]
Marked(s, rows, done) ==
  [k \in DOMAIN s |-> IF k \in rows THEN [s[k] EXCEPT !.done = done] ELSE s[k]]
Indices(s) == [k \in DOMAIN s |-> k]
Spliced(s, i, n, t) == SubSeq(s, 1, i - 1) \o t \o SubSeq(s, i + n, Len(s))
Lesser(a, b) == IF a < b THEN a ELSE b

-----------------------------------------------------------------------------
(* The edits, each a new body *)

TickOneMutant(s, i) == Marked(s, {i} \cup StandsUnder(s, i), ~s[i].done)

(* Ticking a parent ticks its block; reopening reopens what the line stands under. *)
ToggleItem(s, i) ==
  IF s[i].done THEN Marked(s, {i} \cup StandsUnder(s, i), FALSE) ELSE Marked(s, Block(s, i), TRUE)

(* After a parent the new line is its first sub-item. *)
InsertItemAfter(s, i) ==
  LET under == i < Len(s) /\ s[i + 1].depth > s[i].depth
  IN InsertAt(s, i + 1, Line(<<>>, FALSE, s[i].depth + (IF under THEN 1 ELSE 0)))

RemoveItem(s, i) == RemoveAt(Deepened(s, Block(s, i) \ {i}, -1), i)

MergeItems(s, i, into) == RemoveItem([s EXCEPT ![into].text = @ \o s[i].text], i)

SplitItem(s, i, at) ==
  Spliced(s, i, 1, <<[s[i] EXCEPT !.text = SubSeq(@, 1, at)],
                     Line(SubSeq(s[i].text, at + 1, Len(s[i].text)), FALSE, s[i].depth)>>)

(* The first line's words go in at the caret; the words after it end the last line. *)
PasteItems(s, i, at, pasted) ==
  LET text == s[i].text
      tail == SubSeq(text, at + 1, Len(text))
      n == Len(pasted)
      first == [s[i] EXCEPT !.text = SubSeq(text, 1, at) \o pasted[1].text,
                            !.done = IF text = <<>> THEN pasted[1].done ELSE @]
      rest == [k \in 1..(n - 1) |->
                Line(pasted[k + 1].text \o (IF k = n - 1 THEN tail ELSE <<>>), pasted[k + 1].done,
                     Lesser(MaxDepth, s[i].depth + pasted[k + 1].depth))]
  IN Spliced(s, i, 1, <<first>> \o rest)

LevelIn(s, i, above, by) ==
  Max({s[i].depth, Min({s[i].depth + by, s[above].depth + 1, MaxDepth})})

CanNest(s, i, above, by) ==
  LET delta == LevelIn(s, i, above, by) - s[i].depth
  IN /\ above < i /\ by > 0 /\ delta > 0
     /\ \A j \in {above} \cup StandsUnder(s, above) : ~s[j].done
     /\ \A j \in Block(s, i) : s[j].depth + delta <= MaxDepth

(* In: the block goes after the block of the row shown above.  Out: in place, one *)
(* level at a time, each taking the lines that followed it under the same parent.  *)
ShiftOut(s, i, by) ==
  LET out[n \in 0..by] ==
        IF n = 0 THEN s
        ELSE IF out[n - 1][i].depth = 0 THEN out[n - 1]
        ELSE Deepened(out[n - 1], Block(out[n - 1], i), -1)
  IN out[by]

ShiftIn(s, i, by, above) ==
  LET delta == LevelIn(s, i, above, by) - s[i].depth
      block == SubSeq(Deepened(s, Block(s, i), delta), i, Max(Block(s, i)))
      rest == Spliced(s, i, Len(block), <<>>)
  IN Spliced(rest, Max(Block(rest, above)) + 1, 0, block)

ShiftLevel(s, i, by, above) ==
  IF by < 0 THEN ShiftOut(s, i, -by)
  ELSE IF CanNest(s, i, above, by) THEN ShiftIn(s, i, by, above) ELSE s

(* The block takes the slot and the depth of the line at to, clamped. *)
MoveItem(s, from, to) ==
  IF to \in Block(s, from) THEN s
  ELSE LET n == Max(Block(s, from)) - from + 1
           by == s[to].depth - s[from].depth
           block == [k \in 1..n |-> [s[from + k - 1] EXCEPT !.depth = Max({0, Lesser(MaxDepth, @ + by)})]]
       IN Spliced(Spliced(s, from, n, <<>>), IF to > from THEN to - n + 1 ELSE to, 0, block)

UncheckAll(s) == Marked(s, DOMAIN s, FALSE)

RemoveDone(s) ==
  LET kept == SelectSeq(Indices(s), LAMBDA k : \A j \in {k} \cup StandsUnder(s, k) : ~s[j].done)
  IN [n \in DOMAIN kept |-> s[kept[n]]]

-----------------------------------------------------------------------------
(* The rows the editor shows, and its level planner.  rows is the open list as shown, *)
(* of body indices; a position is a place in it.                                      *)

OpenRows(s, h) == SelectSeq(Indices(s), LAMBDA i : (i \in h) = s[i].done)
DoneRows(s, h) == {i \in DOMAIN s : (i \in h) # s[i].done}

Above(rows, p) == IF p > 1 THEN rows[p - 1] ELSE rows[p]

PlanLevel(s, rows, p, by) ==
  IF by < 0 THEN s[rows[p]].depth > 0 ELSE p > 1 /\ CanNest(s, rows[p], rows[p - 1], by)

ClampLevels(s, rows, p, by) ==
  LET depth == s[rows[p]].depth
      room == Lesser(s[Above(rows, p)].depth + 1, MaxDepth) - depth
      most == Max({1, Lesser(by, room)})
  IN IF by < 0 THEN (IF depth = 0 THEN by ELSE Max({by, -depth}))
     ELSE IF p = 1 THEN by
     ELSE Max({1} \cup {n \in 1..most : PlanLevel(s, rows, p, n)})

(* The open-list positions of a line's block. *)
OpenBlock(s, rows, i) == {p \in DOMAIN rows : rows[p] \in Block(s, i)}

(* The line whose slot a move takes: down from a parent, the first outside its block. *)
MoveTarget(s, rows, i, p) ==
  LET block == OpenBlock(s, rows, i)
      at == CHOOSE q \in p..(Len(rows) + 1) :
              /\ ~(q > Min(block) /\ q \in block)
              /\ \A r \in p..(q - 1) : r > Min(block) /\ r \in block
  IN IF at \in DOMAIN rows THEN rows[at] ELSE i

(* The depth each open line is drawn at while a row is in the air sideways, the lines *)
(* before and after matched by their place among the open ones.                       *)
PreviewDepths(s, rows, p, levels) ==
  LET by == ClampLevels(s, rows, p, levels)
      after == Parsed(ShiftLevel(s, rows[p], by, Above(rows, p)))
      was == OpenRows(s, {})
      is == OpenRows(after, {})
  IN [i \in ToSet(was) |-> IF PlanLevel(s, rows, p, by)
                           THEN after[is[CHOOSE k \in DOMAIN was : was[k] = i]].depth
                           ELSE s[i].depth]

-----------------------------------------------------------------------------
(* The editor *)

Items == Parsed(body)
Rows == OpenRows(Items, held)
Edit == edits < MaxEdits /\ edits' = edits + 1
Room(n) == Len(body) + n <= MaxLines
At(i) == held = {} \/ "beat" \in Windows \/ i \notin held

(* A body that changes under a lifted row drops the row. *)
DragAfter(next) == IF next = body THEN drag ELSE NoDrag

(* One body write; any write ends the hold, but for the rows a tick flips. *)
Write(next, hold) == body' = next /\ held' = hold /\ drag' = DragAfter(next)

RemoveRow(i) == Write(RemoveItem(Items, i), {})

(* A tick: its own words' row moves to Done, and may be undone while nothing else is. *)
Tick(i) ==
  /\ Edit /\ ~Items[i].done /\ Items[i].text # <<>>
  /\ LET next == ToggleItem(Items, i)
     IN /\ Write(next, {k \in DOMAIN Items : Items[k].done # next[k].done})
        /\ toast' = IF toast.kind = "strong" THEN toast
                    ELSE [kind |-> "weak", written |-> next, previous |-> body]
  /\ UNCHANGED coined

Reopen(i) ==
  /\ Edit /\ Items[i].done
  /\ LET next == ToggleItem(Items, i)
     IN Write(next, {k \in DOMAIN Items : Items[k].done # next[k].done})
  /\ UNCHANGED <<toast, coined>>

(* Ticking a row with no words removes it. *)
TickBlank(i) ==
  /\ Edit /\ ~Items[i].done /\ Items[i].text = <<>> /\ RemoveRow(i)
  /\ UNCHANGED <<toast, coined>>

Type(i) ==
  /\ Edit /\ Len(Items[i].text) < 2
  /\ Write([Items EXCEPT ![i].text = Append(@, coined + 1)], {})
  /\ coined' = coined + 1 /\ UNCHANGED toast

(* Enter: at the end of the words a new row, inside them a split. *)
Enter(i) ==
  /\ Edit /\ Room(1) /\ At(i)
  /\ \/ Write(InsertItemAfter(Items, i), {})
     \/ \E at \in 0..(Len(Items[i].text) - 1) : Write(SplitItem(Items, i, at), {})
  /\ UNCHANGED <<toast, coined>>

(* Backspace at the start of the row at position p: onto the row shown above it. *)
Backspace(p) ==
  /\ Edit /\ At(Rows[p])
  /\ IF p > 1 THEN At(Rows[p - 1]) /\ Write(MergeItems(Items, Rows[p], Rows[p - 1]), {})
              ELSE Items[Rows[p]].text = <<>> /\ RemoveRow(Rows[p])
  /\ UNCHANGED <<toast, coined>>

(* Two pasted lines, the second beside the first or under it, done or not. *)
Paste(i) ==
  /\ Edit /\ Room(1) /\ At(i)
  /\ \E done \in BOOLEAN \X BOOLEAN, depth \in 0..1, at \in 0..Len(Items[i].text) :
       LET lines == <<Line(<<coined + 1>>, done[1], 0), Line(<<coined + 2>>, done[2], depth)>>
           openUnder == \E k \in Block(Items, i) \ {i} : ~Items[k].done
       IN /\ done[1] => (done[2] \/ depth = 0)
          /\ ("done_paste" \notin Windows /\ (done[1] \/ done[2])) => ~openUnder
          /\ Write(PasteItems(Items, i, at, lines), {})
  /\ coined' = coined + 2 /\ UNCHANGED toast

Add ==
  /\ Edit /\ Room(1)
  /\ Write(Append(Items, Line(<<coined + 1>>, FALSE, 0)), {})
  /\ coined' = coined + 1 /\ UNCHANGED toast

(* One level by Tab, the arrows or the menu; any number by a drag. *)
Shift(p, by) ==
  /\ Edit /\ At(Rows[p]) /\ PlanLevel(Items, Rows, p, by)
  /\ Write(ShiftLevel(Items, Rows[p], by, Above(Rows, p)), {})
  /\ UNCHANGED <<toast, coined>>

(* The row at index i to the slot of position p. *)
MoveOpen(i, p) ==
  LET target == MoveTarget(Items, Rows, i, p)
  IN /\ Edit /\ target # i /\ At(i) /\ At(target)
     /\ Write(MoveItem(Items, i, target), {})
     /\ UNCHANGED <<toast, coined>>

DeleteRow(i) == Edit /\ RemoveRow(i) /\ UNCHANGED <<toast, coined>>

ReopenAll ==
  /\ Edit /\ DoneRows(Items, held) # {}
  /\ Write(UncheckAll(Items), {}) /\ UNCHANGED <<toast, coined>>

DeleteDone ==
  /\ Edit /\ DoneRows(Items, held) # {}
  /\ LET next == RemoveDone(Items)
     IN Write(next, {}) /\ toast' = [kind |-> "strong", written |-> next, previous |-> body]
  /\ UNCHANGED coined

-----------------------------------------------------------------------------
(* A drag: lifted, over a slot or some levels across, and let go *)

Lift(p, axis, to) ==
  /\ drag = NoDrag /\ edits < MaxEdits /\ (held = {} \/ "beat" \in Windows)
  /\ axis = "y" => (to \in DOMAIN Rows /\ to # p)
  /\ axis = "x" => (to # 0 /\ to \in -MaxDepth..MaxDepth)
  /\ drag' = [row |-> Rows[p], axis |-> axis, to |-> to, words |-> Items[Rows[p]].text]
  /\ UNCHANGED <<body, held, toast, coined, edits>>

Position == CHOOSE p \in DOMAIN Rows : Rows[p] = drag.row

Drop ==
  /\ drag # NoDrag /\ drag.row \in ToSet(Rows)
  /\ \/ drag.axis = "y" /\ drag.to \notin OpenBlock(Items, Rows, drag.row) /\ MoveOpen(drag.row, drag.to)
     \/ drag.axis = "x" /\ Shift(Position, ClampLevels(Items, Rows, Position, drag.to))

(* Escape, the pointer cancelled, or a drop that nothing can mean. *)
CancelDrag ==
  /\ drag # NoDrag /\ drag' = NoDrag /\ UNCHANGED <<body, held, toast, coined, edits>>

-----------------------------------------------------------------------------
(* The toast, the beat, and what lands from elsewhere *)

UndoIfUnchanged == toast.kind # "none" /\ body = toast.written

Undo ==
  /\ UndoIfUnchanged /\ toast' = NoToast /\ Write(toast.previous, {}) /\ UNCHANGED <<coined, edits>>

(* The toast's time is over, or Undo was pressed on a list that has changed. *)
Dismiss ==
  /\ toast.kind # "none" /\ toast' = NoToast /\ UNCHANGED <<body, held, drag, coined, edits>>

BeatEnds == held # {} /\ held' = {} /\ UNCHANGED <<body, drag, toast, coined, edits>>

(* The worker appends at the end, top level; another device adds or removes a line anywhere. *)
Landing ==
  /\ Edit /\ Room(1)
  /\ body' = Append(body, Line(<<coined + 1>>, FALSE, 0)) /\ drag' = DragAfter(body')
  /\ coined' = coined + 1 /\ UNCHANGED <<held, toast>>

Elsewhere ==
  /\ Edit /\ (held = {} \/ "beat" \in Windows)
  /\ \/ Room(1) /\ body' = <<Line(<<coined + 1>>, FALSE, 0)>> \o body
     \/ \E i \in DOMAIN body : body' = RemoveItem(body, i)
  /\ drag' = DragAfter(body') /\ coined' = coined + 1 /\ UNCHANGED <<held, toast>>

-----------------------------------------------------------------------------
(* Done lines have nothing open under them. *)
Finished(s) == \A i \in DOMAIN s : \A j \in StandsUnder(s, i) : s[j].done => s[i].done

Depths(n) == {d \in [1..n -> 0..MaxDepth] : d[1] = 0 /\ \A i \in 2..n : d[i] <= d[i - 1] + 1}

ListInit ==
  /\ \E n \in 1..FirstLines, blank \in BOOLEAN :
       \E depth \in Depths(n), done \in [1..n -> BOOLEAN] :
         /\ body = [i \in 1..n |-> Line(IF blank /\ i = n THEN <<>> ELSE <<i>>, done[i], depth[i])]
         /\ Finished(body)
  /\ held = {} /\ drag = NoDrag /\ toast = NoToast /\ coined = FirstLines /\ edits = 0

ListNext ==
  \/ \E i \in DOMAIN body : Tick(i) \/ Reopen(i)
  \/ \E i \in ToSet(Rows) : TickBlank(i) \/ Type(i) \/ Enter(i) \/ Paste(i)
  \/ \E i \in DOMAIN body : DeleteRow(i)
  \/ \E p \in DOMAIN Rows :
       \/ Backspace(p)
       \/ \E by \in {-1, 1} : Shift(p, by)
       \/ \E to \in {p - 1, p + 1, 1, Len(Rows)} \cap DOMAIN Rows : MoveOpen(Rows[p], to)
       \/ \E axis \in {"x", "y"}, to \in -MaxDepth..MaxLines : Lift(p, axis, to)
  \/ Add \/ ReopenAll \/ DeleteDone \/ Drop \/ CancelDrag
  \/ Undo \/ Dismiss \/ BeatEnds \/ Landing \/ Elsewhere

ListSpec == ListInit /\ [][ListNext]_listVars

-----------------------------------------------------------------------------
WordsOf(s) == UNION {ToSet(s[i].text) : i \in DOMAIN s}

(* Types. *)
ListTypeOK ==
  /\ \A i \in DOMAIN body : body[i].depth \in 0..MaxDepth /\ body[i].done \in BOOLEAN
  /\ drag.axis \in {"x", "y"}
  /\ toast.kind \in {"none", "weak", "strong"}

(* What the editor writes is read back line for line as it was written: no edit   *)
(* leaves a line deeper than its place allows, to be hung elsewhere by the reader. *)
ReadAsWritten == Parsed(body) = body

(* A done line has no open line under it, at any depth, whatever edits led here     *)
(* (checklist.ts, the header): else Delete done would take an open line with it.     *)
DoneIsFinished == Finished(Items)

(* Words leave a list only by the act that names them: the deleted row's, and the    *)
(* done rows' when Delete done is pressed; never by a move, a join, a paste or an Undo.*)
WordsSurvive ==
  \A w \in WordsOf(body) \ WordsOf(body') :
    \E i \in DOMAIN body :
      /\ w \in ToSet(body[i].text)
      /\ DeleteRow(i) \/ Elsewhere \/ (DeleteDone /\ body[i].done)

(* The row in the air is the one that was lifted, for as long as it is there: a body *)
(* that changes under it never makes the release move another row.                   *)
DragHoldsItsRow == drag # NoDrag => (drag.row \in DOMAIN body /\ Items[drag.row].text = drag.words)

(* The depths drawn while a row is dragged sideways are those its release writes, *)
(* for the row, what it carries and every other open row (previewDepths).          *)
PreviewTells ==
  (drag.axis = "x" /\ drag # NoDrag /\ drag.row \in ToSet(Rows)) =>
    LET by == ClampLevels(Items, Rows, Position, drag.to)
        drawn == PreviewDepths(Items, Rows, Position, drag.to)
        release == IF PlanLevel(Items, Rows, Position, by)
                   THEN ShiftLevel(Items, drag.row, by, Above(Rows, Position)) ELSE Items
    IN \A i \in DOMAIN drawn, k \in DOMAIN release :
         (Items[i].text # <<>> /\ release[k].text = Items[i].text) => release[k].depth = drawn[i]

-----------------------------------------------------------------------------
(* A list under edits, drags, pastes, undos and another's writes: all of the  *)
(* above, in every state and every step.                                      *)
ListInv == ListTypeOK /\ ReadAsWritten /\ DoneIsFinished /\ DragHoldsItsRow /\ PreviewTells
ListKeepsItsWords == []ListInv /\ [][WordsSurvive]_listVars

-----------------------------------------------------------------------------
(* What the repository says that the code does not keep. *)

(* checklist.ts, the header: an item that moves takes the lines nested under it, so a *)
(* list is never torn from its sub-items: in a move, every other line keeps its own.  *)
NeverTorn ==
  [][\A i \in ToSet(Rows), p \in DOMAIN Rows :
       MoveOpen(i, p) =>
         \A x \in DOMAIN body \ Block(Items, i) : \A y \in Block(Items, x) \ Block(Items, i) :
           \A x1, y1 \in DOMAIN body' :
             (body'[x1].text = body[x].text /\ body'[y1].text = body[y].text
               /\ body[x].text # <<>> /\ body[y].text # <<>> /\ Parent(Items, y) = x)
             => Parent(Parsed(body'), y1) = x1]_listVars
=============================================================================
