------------------------- MODULE CapturePipeline_proofs -------------------------
(***************************************************************************)
(* What CapturePipeline promises for every number of deliveries, requests  *)
(* and notes and every bound, checked by TLAPS: its types, that it         *)
(* implements CaptureLife, that audio is not let go before its words are   *)
(* kept, that one recording dictates into one note, that a filed one says  *)
(* what was asked, and that what has been achieved stays.                  *)
(***************************************************************************)
EXTENDS CapturePipeline, TLAPS

Statuses == Terminal \cup Pending \cup Gone

-----------------------------------------------------------------------------
(* The values the actions build have their types.                          *)

\* A row stays one when a field is given a value of the field's type.
LEMMA RowFields ==
    ASSUME NEW c \in Row
    PROVE  /\ \A s \in Statuses : [c EXCEPT !.status = s] \in Row
           /\ \A b \in BOOLEAN : [c EXCEPT !.fresh = b] \in Row
           /\ \A b \in BOOLEAN : [c EXCEPT !.leased = b] \in Row
           /\ \A b \in BOOLEAN : [c EXCEPT !.held = b] \in Row
           /\ \A b \in BOOLEAN : [c EXCEPT !.done = b] \in Row
           /\ \A b \in BOOLEAN : [c EXCEPT !.raw = b] \in Row
           /\ \A b \in BOOLEAN : [c EXCEPT !.routed = b] \in Row
           /\ \A b \in BOOLEAN : [c EXCEPT !.clean = b] \in Row
           /\ \A b \in BOOLEAN : [c EXCEPT !.audio = b] \in Row
           /\ \A b \in BOOLEAN : [c EXCEPT !.peaks = b] \in Row
           /\ \A l \in Languages \cup {"none"} : [c EXCEPT !.lang = l] \in Row
           /\ \A n \in Notes \cup {None} : [c EXCEPT !.note = n] \in Row
           /\ \A k \in 0 .. MaxAgain : [c EXCEPT !.asked = k] \in Row
           /\ c.status \in Statuses /\ c.note \in Notes \cup {None}
           /\ c.asked \in 0 .. MaxAgain /\ c.lang \in Languages \cup {"none"}
  BY DEF Row, Statuses

\* The same of the changes the actions make in one go.
LEMMA RowChanges ==
    ASSUME NEW c \in Row, NEW s \in Statuses
    PROVE  /\ \A l \in Languages : [c EXCEPT !.raw = TRUE, !.lang = l, !.status = s] \in Row
           /\ \A n \in Notes \cup {None} : [c EXCEPT !.note = n, !.status = s] \in Row
           /\ [c EXCEPT !.held = FALSE, !.leased = FALSE] \in Row
           /\ [c EXCEPT !.status = s, !.fresh = TRUE] \in Row
  BY DEF Row, Statuses

\* The empty values.
LEMMA EmptyValues ==
    NoRow \in Row /\ NoWords \in Text /\ NoObjects \in Objects /\ NoMemory \in Memory
  <1>1. NoRow \in Row
    BY BoundsAssumption DEF NoRow, Row, Gone
  <1>2. NoWords \in Text
    BY DEF Text
  <1>3. NoObjects \in Objects
    BY <1>2 DEF NoObjects, Objects
  <1>4. 1 \in 1 .. MaxAttempts
    BY BoundsAssumption
  <1>5. NoMemory \in Memory
    BY <1>1, <1>2, <1>4 DEF NoMemory, Memory
  <1> QED BY <1>1, <1>2, <1>3, <1>5

\* The same of what an invocation keeps.
LEMMA MemoryFields ==
    ASSUME NEW m \in Memory
    PROVE  /\ \A c \in Row : [m EXCEPT !.copy = c] \in Memory
           /\ \A t \in Text : [m EXCEPT !.text = t] \in Memory
           /\ \A c \in Row, t \in Text : [m EXCEPT !.copy = c, !.text = t] \in Memory
           /\ \A n \in Notes \cup {None}, x \in {"unread", "active", "archived"} :
                 [m EXCEPT !.dest = n, !.seen = x] \in Memory
           /\ [m EXCEPT !.seen = "archived"] \in Memory
           /\ m.copy \in Row /\ m.text \in Text /\ m.dest \in Notes \cup {None}
           /\ m.by \in {"upload", "oversize", "api", "reap"}
           /\ m.attempt \in 1 .. MaxAttempts
           /\ m.seen \in {"unread", "active", "archived"}
  BY DEF Memory

\* The same of the objects.
LEMMA ObjectFields ==
    ASSUME NEW o \in Objects
    PROVE  /\ \A t \in Text : [o EXCEPT !.raw = t] \in Objects
           /\ \A t \in Text : [o EXCEPT !.routed = t] \in Objects
           /\ \A t \in Text : [o EXCEPT !.clean = t] \in Objects
           /\ \A x, y \in BOOLEAN : [o EXCEPT !.audio = x, !.processed = y] \in Objects
           /\ \A x \in BOOLEAN : [o EXCEPT !.processed = x] \in Objects
           /\ [o EXCEPT !.peaks = TRUE] \in Objects
           /\ o.raw \in Text /\ o.routed \in Text /\ o.clean \in Text
           /\ o.audio \in BOOLEAN /\ o.processed \in BOOLEAN
  BY DEF Objects

\* What an invocation starts again with, and what it keeps of a finished run.
LEMMA FreshMemory ==
    ASSUME NEW c \in Row, NEW k \in 1 .. MaxAttempts,
           NEW by \in {"upload", "oversize", "api", "reap"}
    PROVE  /\ [NoMemory EXCEPT !.by = by] \in Memory
           /\ [NoMemory EXCEPT !.by = by, !.attempt = k] \in Memory
           /\ [NoMemory EXCEPT !.copy = c, !.by = by, !.attempt = k] \in Memory
  BY EmptyValues DEF Memory

-----------------------------------------------------------------------------
(* Type correctness: through the operators the actions share, and then     *)
(* action by action.                                                       *)

\* The program starts well typed.
LEMMA TypeInit == Init => TypeOK
  <1> SUFFICES ASSUME Init PROVE TypeOK
    OBVIOUS
  <1>1. RowTypes /\ obj \in Objects /\ NoteTypes /\ DeliveryTypes /\ RequestTypes
    BY EmptyValues DEF Init, RowTypes, NoteTypes, DeliveryTypes, RequestTypes, RequestPC
  <1>2. linkLive \in BOOLEAN
    BY DEF Init
  <1>3. uploads \in 0 .. MaxUploads /\ asks \in 0 .. MaxAsks /\ faults \in 0 .. MaxFaults
    BY BoundsAssumption DEF Init
  <1> QED BY <1>1, <1>2, <1>3 DEF TypeOK, BoundTypes

\* A part none of whose variables moves keeps its types.
LEMMA Unmoved ==
    /\ RowTypes /\ UNCHANGED <<row, current>> => RowTypes'
    /\ obj \in Objects /\ UNCHANGED obj => obj' \in Objects
    /\ NoteTypes /\ UNCHANGED <<note, landed>> => NoteTypes'
    /\ DeliveryTypes /\ UNCHANGED <<pc, mem>> => DeliveryTypes'
    /\ RequestTypes /\ UNCHANGED <<rpc, prior>> => RequestTypes'
    /\ BoundTypes /\ UNCHANGED <<linkLive, uploads, asks, faults>> => BoundTypes'
  BY DEF RowTypes, NoteTypes, DeliveryTypes, RequestTypes, BoundTypes

\* A call that fails is counted.
LEMMA FailTypes ==
    ASSUME BoundTypes, Fail, UNCHANGED <<linkLive, uploads, asks>>
    PROVE  BoundTypes'
  <1>1. faults' \in 0 .. MaxFaults
    BY BoundsAssumption DEF BoundTypes, Fail
  <1> QED BY <1>1 DEF BoundTypes

\* An invocation that goes on with a copy and a text is well typed.
LEMMA AnswerTypes ==
    ASSUME DeliveryTypes, NEW d \in Deliveries, NEW c \in Row, NEW t \in Text,
           NEW p \in Running, Answer(d, c, t, p)
    PROVE  DeliveryTypes'
  BY MemoryFields DEF DeliveryTypes, Answer, Goto

\* A delivery that takes the row it read with it stays typed.
LEMMA RememberTypes ==
    ASSUME DeliveryTypes, NEW d \in Deliveries, NEW c \in Row, NEW p \in Running,
           Remember(d, c), Goto(d, p)
    PROVE  DeliveryTypes'
  BY MemoryFields DEF DeliveryTypes, Remember, Goto

\* One that has its outcome, one that ends, one that is run again, and one asked for.
LEMMA LeaveTypes ==
    ASSUME DeliveryTypes, NEW d \in Deliveries, NEW c \in Row, NEW p \in Running,
           Leave(d, c, p)
    PROVE  DeliveryTypes'
  <1>1. Bare(d, c) \in Memory
    BY MemoryFields, FreshMemory DEF DeliveryTypes, Bare
  <1> QED BY <1>1 DEF DeliveryTypes, Leave, Goto

\* So does one that gives its verdict on the capture.
LEMMA VerdictTypes ==
    ASSUME DeliveryTypes, NEW d \in Deliveries, NEW s \in Statuses, Verdict(d, s)
    PROVE  DeliveryTypes'
  <1>1. [mem[d].copy EXCEPT !.status = s] \in Row
    BY MemoryFields, RowFields DEF DeliveryTypes
  <1> QED BY <1>1, LeaveTypes DEF Verdict, Running, Stages

\* So does one whose invocation is over.
LEMMA EndTypes ==
    ASSUME DeliveryTypes, NEW d \in Deliveries, End(d)
    PROVE  DeliveryTypes'
  BY EmptyValues DEF DeliveryTypes, End, Goto

\* So does one that Lambda runs again, or has run often enough.
LEMMA AgainTypes ==
    ASSUME DeliveryTypes, NEW d \in Deliveries, Again(d)
    PROVE  DeliveryTypes'
  <1>1. CASE End(d)
    BY <1>1, EndTypes
  <1>2. CASE mem[d].attempt < MaxAttempts /\ Goto(d, "queued")
             /\ mem' = [mem EXCEPT ![d] = [NoMemory EXCEPT !.by = mem[d].by,
                                                      !.attempt = mem[d].attempt + 1]]
    <2>1. mem[d].attempt \in 1 .. MaxAttempts /\ mem[d].by \in {"upload", "oversize", "api", "reap"}
      BY MemoryFields DEF DeliveryTypes
    <2>2. mem[d].attempt + 1 \in 1 .. MaxAttempts
      BY <1>2, <2>1, BoundsAssumption
    <2>3. [NoMemory EXCEPT !.by = mem[d].by, !.attempt = mem[d].attempt + 1] \in Memory
      BY <2>1, <2>2, EmptyValues, FreshMemory
    <2> QED BY <1>2, <2>3 DEF DeliveryTypes, Goto
  <1> QED BY <1>1, <1>2 DEF Again

\* So does one that is queued, whatever sent it.
LEMMA QueueTypes ==
    ASSUME DeliveryTypes, NEW d \in Deliveries,
           NEW by \in {"upload", "oversize", "api", "reap"}, Queue(d, by)
    PROVE  DeliveryTypes'
  <1>1. [NoMemory EXCEPT !.by = by] \in Memory
    BY EmptyValues DEF Memory
  <1> QED BY <1>1 DEF DeliveryTypes, Queue, Goto

\* A write of the row from a copy, won or conceded.
LEMMA PersistTypes ==
    ASSUME RowTypes, DeliveryTypes, NEW d \in Deliveries, NEW c \in Row,
           NEW p \in Running, Persist(d, c, p)
    PROVE  RowTypes' /\ DeliveryTypes'
  <1>1. [c EXCEPT !.fresh = TRUE] \in Row
    BY RowFields
  <1>2. CASE PutCapture(d, [c EXCEPT !.fresh = TRUE]) /\ Remember(d, row') /\ Goto(d, p)
    <2>1. RowTypes'
      BY <1>1, <1>2 DEF RowTypes, PutCapture
    <2> QED BY <1>2, <2>1, RememberTypes DEF RowTypes
  <1>3. CASE Concede(d)
    <2>1. RowTypes'
      BY <1>3 DEF RowTypes, Concede
    <2>2. mem[d].copy \in Row /\ row \in Row
      BY MemoryFields DEF DeliveryTypes, RowTypes
    <2> QED BY <1>3, <2>1, <2>2, LeaveTypes DEF Concede, Running
  <1> QED BY <1>2, <1>3 DEF Persist

\* A text an invocation reads is one.
LEMMA SourceIsText ==
    ASSUME DeliveryTypes, obj \in Objects, NEW d \in Deliveries
    PROVE  Source(d) \in Text
  BY MemoryFields, ObjectFields DEF DeliveryTypes, Source

\* The audio's tag, put or left.
LEMMA TagTypes ==
    ASSUME obj \in Objects, NEW d \in Deliveries, MarkAudioProcessed(d)
    PROVE  obj' \in Objects
  <1>1. (obj.processed \/ (obj.audio /\ mem[d].by # "oversize" /\ mem[d].copy.audio
                            /\ mem[d].copy.raw)) \in BOOLEAN
    OBVIOUS
  <1> QED BY <1>1, ObjectFields DEF MarkAudioProcessed

\* Every action keeps the types.  An invocation's first.
LEMMA TypeRun ==
    ASSUME TypeOK, NEW d \in Deliveries, Run(d) \/ Fault(d) \/ Crash(d)
    PROVE  TypeOK'
  <1> USE Unmoved DEF TypeOK
  <1> DEFINE c == mem[d].copy
  <1>0. /\ row \in Row /\ c \in Row /\ mem[d] \in Memory /\ mem[d].text \in Text
        /\ mem[d].dest \in Notes \cup {None} /\ Source(d) \in Text
    BY MemoryFields, SourceIsText DEF RowTypes, DeliveryTypes
  <1> HIDE DEF c
  <1> USE <1>0
  <1>1. CASE StartRun(d)
    <2>1. RowTypes'
      BY <1>1 DEF StartRun, RowTypes
    <2>2. obj' \in Objects
      BY <1>1, ObjectFields DEF StartRun
    <2>3. DeliveryTypes'
      BY <1>1, EndTypes, RememberTypes
         DEF StartRun, FirstStage, Running, Stages, DeliveryTypes, Goto
    <2> QED BY <1>1, <2>1, <2>2, <2>3 DEF StartRun
  <1>2. CASE RejectOversized(d)
    <2>1. RowTypes'
      BY <1>2 DEF RejectOversized, RowTypes
    <2>2. obj' \in Objects
      BY <1>2, ObjectFields DEF RejectOversized
    <2>3. [row EXCEPT !.status = "failed"] \in Row
      BY RowFields DEF Statuses, Terminal
    <2>4. DeliveryTypes'
      BY <1>2, <2>3, EndTypes, RememberTypes DEF RejectOversized, Running, Stages
    <2> QED BY <1>2, <2>1, <2>2, <2>4 DEF RejectOversized
  <1>3. CASE Write(d) \/ Transcribe(d) \/ Route(d) \/ Clean(d) \/ Append(d)
    <2>1. \A x \in Statuses : [c EXCEPT !.status = x] \in Row
      BY RowFields
    <2>2. \E new \in Row, p \in Running : Persist(d, new, p)
      BY <1>3, <2>1
         DEF Write, Transcribe, Route, Clean, Append, SetStatus, Statuses, Pending, Running,
             Stages, c
    <2>3. RowTypes' /\ DeliveryTypes'
      BY <2>2, PersistTypes
    <2> QED BY <2>2, <2>3 DEF Persist
  <1>4. CASE Hear(d)
    <2> DEFINE lang == TranscriptionLanguage(d)
               words == [asked |-> c.asked, lang |-> lang, as |-> None]
               heard == [c EXCEPT !.raw = TRUE, !.lang = lang, !.status = "transcribed"]
               silent == [heard EXCEPT !.status = "no_content"]
    <2>1. lang \in Languages
      BY DEF TranscriptionLanguage, LanguageOf, Languages
    <2>2. words \in Text
      BY <2>1, RowFields DEF Text, Words
    <2>3. heard \in Row /\ silent \in Row
      BY <2>1, RowChanges, RowFields DEF Statuses, Pending, Terminal
    <2>4. [mem[d] EXCEPT !.copy = heard, !.text = words] \in Memory
      BY <2>2, <2>3, MemoryFields
    <2>5. Looked(d, [mem[d] EXCEPT !.copy = heard, !.text = words]) \in Memory
      <3> DEFINE m == [mem[d] EXCEPT !.copy = heard, !.text = words]
      <3>1. CASE NoteThere(d) /\ Reread(d)
        <4>1. m.copy.note \in Notes /\ note[m.copy.note] \in {"absent", "active", "archived"}
          BY <1>0, <3>1, <2>3, NotesAssumption DEF NoteThere, NoteTypes, Memory, Row, c
        <4>2. m.copy.note = c.note
          BY <1>0 DEF Memory, Row
        <4>3. note[m.copy.note] # "absent"
          BY <3>1, <4>2 DEF NoteThere, c
        <4>4. [m EXCEPT !.dest = m.copy.note, !.seen = note[m.copy.note]] \in Memory
          BY <2>4, <4>1, <4>3, MemoryFields
        <4> QED BY <3>1, <4>4 DEF Looked
      <3>2. CASE ~(NoteThere(d) /\ Reread(d))
        BY <3>2, <2>4 DEF Looked
      <3> QED BY <3>1, <3>2
    <2>6. obj' \in Objects
      <3>1. CASE UNCHANGED obj
        BY <3>1
      <3>2. CASE obj' = [obj EXCEPT !.raw = words]
        BY <3>2, <2>2, ObjectFields
      <3> QED BY <1>4, <3>1, <3>2 DEF Hear, c
    <2>7. DeliveryTypes'
      <3>1. CASE \E p \in {"route", "write"} :
                   /\ mem' = [mem EXCEPT ![d] = Looked(d, [@ EXCEPT !.copy = heard,
                                                                     !.text = words])]
                   /\ Goto(d, p)
        BY <3>1, <2>5 DEF DeliveryTypes, Goto, Running, Stages
      <3>2. CASE Leave(d, silent, "write")
        BY <3>2, <2>3, LeaveTypes DEF Running, Stages
      <3>3. CASE \E status \in {"no_content", "failed"} : Verdict(d, status)
        BY <3>3, VerdictTypes DEF Statuses, Terminal
      <3> QED BY <1>4, <3>1, <3>2, <3>3 DEF Hear, c
    <2> QED BY <1>4, <2>6, <2>7 DEF Hear
  <1>5. CASE AskRouter(d)
    <2> DEFINE k == [c EXCEPT !.routed = TRUE]
               text == IF mem[d].text # NoWords THEN mem[d].text ELSE obj.raw
    <2>1. text \in Text /\ k \in Row
      BY ObjectFields, RowFields
    <2>2. obj' \in Objects
      <3>1. CASE UNCHANGED obj
        BY <3>1
      <3>2. CASE obj' = [obj EXCEPT !.routed = text]
        BY <3>2, <2>1, ObjectFields
      <3> QED BY <1>5, <3>1, <3>2 DEF AskRouter
    <2>3. NoteTypes'
      BY <1>5 DEF AskRouter, NoteTypes
    <2>4. DeliveryTypes'
      <3>1. CASE Verdict(d, "failed")
        BY <3>1, VerdictTypes DEF Statuses, Terminal
      <3>2. ASSUME NEW n \in Notes, Goto(d, "write"),
                   mem' = [mem EXCEPT ![d].copy = [k EXCEPT !.note = n, !.status = "transcribed"],
                                      ![d].text = text, ![d].dest = n, ![d].seen = "active"]
            PROVE  DeliveryTypes'
        <4>1. [k EXCEPT !.note = n, !.status = "transcribed"] \in Row
          BY <2>1, RowChanges DEF Statuses, Pending
        <4> DEFINE new == [k EXCEPT !.note = n, !.status = "transcribed"]
        <4>2. [mem[d] EXCEPT !.copy = new, !.text = text, !.dest = n, !.seen = "active"] \in Memory
          BY <2>1, <4>1 DEF Memory
        <4> QED BY <3>2, <4>2 DEF DeliveryTypes, Goto, Running, Stages
      <3>3. CASE /\ Goto(d, "write")
                 /\ mem' = [mem EXCEPT ![d] = Bare(d, [k EXCEPT !.status = "needs_target"])]
        <4>1. [k EXCEPT !.status = "needs_target"] \in Row
          BY <2>1, RowFields DEF Statuses, Terminal
        <4> QED BY <3>3, <4>1, LeaveTypes DEF Leave, Running, Stages
      <3> QED BY <1>5, <3>1, <3>2, <3>3, NotesAssumption DEF AskRouter, c
    <2> QED BY <1>5, <2>2, <2>3, <2>4 DEF AskRouter
  <1>6. CASE Destination(d)
    <2>1. DeliveryTypes'
      <3>1. CASE Leave(d, [c EXCEPT !.note = None, !.status = "needs_target"], "write")
        BY <3>1, RowChanges, LeaveTypes DEF Statuses, Terminal, Running, Stages
      <3>2. CASE Verdict(d, "failed")
        BY <3>2, VerdictTypes DEF Statuses, Terminal
      <3> DEFINE m == [mem[d] EXCEPT !.dest = c.note, !.seen = "active"]
      <3>3. m \in Memory
        BY RowFields, MemoryFields
      <3>4. CASE mem' = [mem EXCEPT ![d] = m] /\ \E p \in Running : Goto(d, p)
        BY <3>3, <3>4 DEF DeliveryTypes, Goto
      <3>5. CASE /\ mem' = [mem EXCEPT ![d] =
                              [m EXCEPT !.copy = [c EXCEPT !.raw = FALSE, !.routed = FALSE]]]
                 /\ Goto(d, "transcribe")
        <4>1. [c EXCEPT !.raw = FALSE, !.routed = FALSE] \in Row
          BY DEF Row
        <4>2. [m EXCEPT !.copy = [c EXCEPT !.raw = FALSE, !.routed = FALSE]] \in Memory
          BY <3>3, <4>1, MemoryFields
        <4> QED BY <3>5, <4>2 DEF DeliveryTypes, Goto, Running, Stages
      <3> QED BY <1>6, <3>1, <3>2, <3>4, <3>5 DEF Destination, c, Running, Stages
    <2> QED BY <1>6, <2>1 DEF Destination
  <1>7. CASE Strip(d)
    <2>1. obj' \in Objects
      BY <1>7, ObjectFields DEF Strip
    <2>2. [c EXCEPT !.routed = TRUE] \in Row
      BY RowFields
    <2>3. DeliveryTypes'
      BY <1>7, <2>2, AnswerTypes, VerdictTypes
         DEF Strip, Running, Stages, Statuses, Terminal, c
    <2> QED BY <1>7, <2>1, <2>3 DEF Strip
  <1>8. CASE Tidy(d)
    <2>1. \A a \in Answers : Source(d) # NoWords => [Source(d) EXCEPT !.as = a] \in Text
      BY DEF Text, Words
    <2>2. [c EXCEPT !.clean = TRUE, !.status = "cleaned"] \in Row
      BY DEF Row, Pending
    <2>3. obj' \in Objects
      <3>1. CASE UNCHANGED obj
        BY <3>1
      <3>2. ASSUME NEW a \in Answers, obj' = [obj EXCEPT !.clean = [Source(d) EXCEPT !.as = a]]
            PROVE  obj' \in Objects
        <4>1. Source(d) # NoWords
          BY <1>8 DEF Tidy
        <4>2. [Source(d) EXCEPT !.as = a] \in Text
          BY <4>1, <2>1
        <4> QED BY <3>2, <4>2, ObjectFields
      <3> QED BY <1>8, <3>1, <3>2 DEF Tidy
    <2>4. DeliveryTypes'
      <3>1. CASE \E a \in Answers :
                   Answer(d, [c EXCEPT !.clean = TRUE, !.status = "cleaned"],
                          [Source(d) EXCEPT !.as = a], "append")
        BY <1>8, <3>1, <2>1, <2>2, AnswerTypes DEF Tidy, Running, Stages
      <3>2. CASE \E status \in {"no_content", "failed"} : Verdict(d, status)
        BY <3>2, VerdictTypes DEF Statuses, Terminal
      <3> QED BY <1>8, <3>1, <3>2 DEF Tidy, c
    <2> QED BY <1>8, <2>3, <2>4 DEF Tidy
  <1>9. CASE ClaimCaptureAppend(d)
    <2>1. [row EXCEPT !.held = TRUE, !.leased = TRUE] \in Row
      BY DEF Row
    <2>2. RowTypes'
      BY <1>9, <2>1 DEF ClaimCaptureAppend, RowTypes
    <2>3. row' \in Row
      BY <2>2 DEF RowTypes
    <2>4. DeliveryTypes'
      BY <1>9, <2>3, AnswerTypes, LeaveTypes DEF ClaimCaptureAppend, Running, Stages
    <2> QED BY <1>9, <2>2, <2>4 DEF ClaimCaptureAppend
  <1>10. CASE Land(d)
    <2>1. NoteTypes'
      BY <1>10 DEF Land, NoteTypes
    <2>2. DeliveryTypes'
      <3>1. CASE Answer(d, c, NoWords, "complete")
        BY <3>1, EmptyValues, AnswerTypes DEF Running, Stages
      <3>2. CASE mem' = [mem EXCEPT ![d].seen = "archived"] /\ Goto(d, "unclaim")
        BY <3>2, MemoryFields DEF DeliveryTypes, Goto, Running, Stages
      <3>3. CASE UNCHANGED mem /\ Goto(d, "unclaim")
        BY <3>3 DEF DeliveryTypes, Goto, Running, Stages
      <3> QED BY <1>10, <3>1, <3>2, <3>3 DEF Land, c
    <2> QED BY <1>10, <2>1, <2>2 DEF Land
  <1>11. CASE ReleaseAppendClaim(d)
    <2> DEFINE free == [c EXCEPT !.held = FALSE, !.leased = FALSE]
    <2>1. free \in Row /\ [free EXCEPT !.status = "failed"] \in Row
                       /\ [c EXCEPT !.status = "failed"] \in Row
      BY RowChanges, RowFields DEF Statuses, Terminal
    <2>2. RowTypes'
      BY <1>11, <2>1 DEF ReleaseAppendClaim, PutCapture, RowTypes, c
    <2>3. DeliveryTypes'
      BY <1>11, <2>1, LeaveTypes DEF ReleaseAppendClaim, Running, Stages, c
    <2> QED BY <1>11, <2>2, <2>3 DEF ReleaseAppendClaim
  <1>12. CASE CheckNote(d)
    <2>1. DeliveryTypes'
      BY <1>12, AnswerTypes, LeaveTypes, EmptyValues DEF CheckNote, Running, Stages, c
    <2> QED BY <1>12, <2>1 DEF CheckNote
  <1>13. CASE CompleteCaptureAppend(d)
    <2>1. [row EXCEPT !.status = "appended", !.done = TRUE] \in Row
      BY DEF Row, Terminal
    <2>2. RowTypes'
      BY <1>13, <2>1 DEF CompleteCaptureAppend, RowTypes
    <2>3. row' \in Row
      BY <2>2 DEF RowTypes
    <2>4. DeliveryTypes'
      BY <1>13, <2>3, LeaveTypes DEF CompleteCaptureAppend, Running, c
    <2> QED BY <1>13, <2>2, <2>4 DEF CompleteCaptureAppend
  <1>14. CASE MissingObject(d)
    <2>1. DeliveryTypes'
      BY <1>14, LeaveTypes DEF MissingObject, Running, c
    <2> QED BY <1>14, <2>1 DEF MissingObject
  <1>15. CASE Finish(d)
    <2>1. obj' \in Objects
      BY <1>15, TagTypes DEF Finish
    <2>2. RowTypes'
      BY <1>15 DEF Finish, Release, RowTypes
    <2>3. DeliveryTypes'
      BY <1>15, EndTypes DEF Finish, DeliveryTypes, Goto, Running, Stages
    <2> QED BY <1>15, <2>1, <2>2, <2>3 DEF Finish
  <1>16. CASE VerifyPeaks(d)
    <2>1. [c EXCEPT !.peaks = FALSE, !.fresh = TRUE] \in Row
      BY DEF Row
    <2>2. RowTypes'
      BY <1>16, <2>1 DEF VerifyPeaks, Release, RowTypes, c
    <2>3. DeliveryTypes'
      BY <1>16, EndTypes, RememberTypes DEF VerifyPeaks, Running
    <2> QED BY <1>16, <2>2, <2>3 DEF VerifyPeaks
  <1>17. CASE Conceded(d)
    <2>1. obj' \in Objects
      BY <1>17, TagTypes DEF Conceded
    <2>2. RowTypes'
      BY <1>17 DEF Conceded, Release, RowTypes
    <2>3. DeliveryTypes'
      BY <1>17, EndTypes DEF Conceded
    <2> QED BY <1>17, <2>1, <2>2, <2>3 DEF Conceded
  <1>18. CASE Failed(d)
    <2>1. obj' \in Objects
      BY <1>18, TagTypes DEF Failed
    <2>2. [row EXCEPT !.status = "failed", !.fresh = TRUE] \in Row
      BY DEF Row, Terminal
    <2>3. RowTypes'
      BY <1>18, <2>2 DEF Failed, Release, RowTypes
    <2>4. DeliveryTypes'
      BY <1>18, AgainTypes DEF Failed
    <2> QED BY <1>18, <2>1, <2>3, <2>4 DEF Failed
  <1>19. CASE Fault(d)
    <2>1. DeliveryTypes'
      <3>1. CASE Goto(d, "unclaim") /\ UNCHANGED mem
        BY <3>1 DEF DeliveryTypes, Goto, Running, Stages
      <3>2. CASE Leave(d, mem[d].copy, "failed")
        BY <3>2, LeaveTypes DEF Running, c
      <3> QED BY <1>19, <3>1, <3>2 DEF Fault
    <2>2. BoundTypes'
      BY <1>19, FailTypes DEF Fault
    <2> QED BY <1>19, <2>1, <2>2 DEF Fault
  <1>20. CASE Crash(d)
    <2>1. DeliveryTypes'
      BY <1>20, AgainTypes DEF Crash
    <2>2. BoundTypes'
      BY <1>20, FailTypes DEF Crash
    <2>3. RowTypes'
      BY <1>20 DEF Crash, Release, RowTypes
    <2> QED BY <1>20, <2>1, <2>2, <2>3 DEF Crash
  <1> QED
    BY <1>1, <1>2, <1>3, <1>4, <1>5, <1>6, <1>7, <1>8, <1>9, <1>10, <1>11, <1>12, <1>13,
       <1>14, <1>15, <1>16, <1>17, <1>18, <1>19, <1>20 DEF Run

\* A row that is dropped, and a request that is answered or that resets a row.
LEMMA DropTypes == DropRow => RowTypes'
  <1>1. [NoRow EXCEPT !.status = "deleted"] \in Row
    BY EmptyValues, RowFields DEF Statuses, Gone
  <1> QED BY <1>1 DEF DropRow, RowTypes

\* A request that is answered forgets what it read.
LEMMA AnsweredTypes ==
    ASSUME RequestTypes, NEW r \in Requests, Answered(r)
    PROVE  RequestTypes'
  BY EmptyValues DEF RequestTypes, Answered, RequestPC

\* A request that writes the row anew and queues a run keeps every type.
LEMMA ResetTypes ==
    ASSUME TypeOK, NEW r \in Requests, NEW new \in Row, Reset(r, new), NoteTypes'
    PROVE  TypeOK'
  <1>1. RowTypes'
    BY RowFields DEF Reset, RowTypes
  <1>2. RequestTypes'
    BY DEF TypeOK, RowTypes, Reset, RequestTypes, RequestPC
  <1>3. asks' \in 0 .. MaxAsks
    BY BoundsAssumption DEF TypeOK, BoundTypes, Reset
  <1>4. BoundTypes'
    BY <1>3 DEF TypeOK, BoundTypes, Reset
  <1> QED BY <1>1, <1>2, <1>4, Unmoved DEF TypeOK, Reset

\* An API request's.
LEMMA TypeRequest ==
    ASSUME TypeOK, NEW r \in Requests,
           Handle(r) \/ Operation(r) \/ InvokeFails(r) \/ RequestDies(r)
    PROVE  TypeOK'
  <1> USE Unmoved DEF TypeOK, RowUnchanged, EnvUnchanged
  <1>0. row \in Row /\ prior[r] \in Row
    BY DEF RowTypes, RequestTypes
  <1> USE <1>0
  <1>1. CASE IngestText(r)
    <2>1. \A n \in Destinations : [NewRow EXCEPT !.status = "transcribed", !.raw = TRUE,
                                                 !.note = n] \in Row
      BY EmptyValues DEF NewRow, Row, Pending, Destinations
    <2>2. RowTypes'
      BY <1>1, <2>1 DEF IngestText, RowTypes
    <2>3. RequestTypes'
      BY <1>1 DEF IngestText, RequestTypes, RequestPC
    <2> QED BY <1>1, <2>2, <2>3 DEF IngestText
  <1>2. CASE PutText(r)
    <2>1. [asked |-> 0, lang |-> "default", as |-> None] \in Text
      BY BoundsAssumption DEF Text, Words, Languages
    <2>2. obj' \in Objects
      BY <1>2, <2>1, ObjectFields DEF PutText
    <2>3. RequestTypes'
      BY <1>2 DEF PutText, RequestTypes, RequestPC
    <2>4. BoundTypes'
      BY <1>2, FailTypes DEF PutText
    <2> QED BY <1>2, <2>2, <2>3, <2>4 DEF PutText
  <1>3. CASE DiscardEmptyRow(r) \/ DeleteRow(r)
    <2>1. RowTypes'
      BY <1>3, DropTypes DEF DiscardEmptyRow, DeleteRow
    <2>2. RequestTypes'
      BY <1>3, AnsweredTypes DEF DiscardEmptyRow, DeleteRow
    <2> QED BY <1>3, <2>1, <2>2 DEF DiscardEmptyRow, DeleteRow
  <1>4. CASE RetryCapture(r)
    <2> DEFINE new == [row EXCEPT !.status = IF @ = "failed" THEN ResumeStatusFor(row) ELSE @]
    <2>1. new \in Row
      BY RowFields DEF ResumeStatusFor, Statuses, Pending
    <2>2. Reset(r, new) /\ UNCHANGED note
      BY <1>4 DEF RetryCapture
    <2> HIDE DEF new
    <2> QED BY <2>1, <2>2, ResetTypes DEF NoteTypes, Reset
  <1>5. CASE SetCaptureTarget(r)
    <2>1. PICK n \in Notes :
             /\ UNCHANGED note \/ note' = [note EXCEPT ![n] = "active"]
             /\ Reset(r, [row EXCEPT !.note = n, !.status = ResumeStatusFor(row)])
      BY <1>5 DEF SetCaptureTarget
    <2>2. [row EXCEPT !.note = n, !.status = ResumeStatusFor(row)] \in Row
      BY RowChanges DEF ResumeStatusFor, Statuses, Pending
    <2>3. NoteTypes'
      BY <2>1 DEF NoteTypes, Reset
    <2> QED BY <2>1, <2>2, <2>3, ResetTypes
  <1>6. CASE RetranscribeCapture(r)
    <2> DEFINE new == [row EXCEPT !.raw = FALSE, !.routed = FALSE, !.clean = FALSE,
                            !.lang = "none", !.held = FALSE, !.leased = FALSE,
                            !.done = FALSE, !.status = "transcribing", !.asked = @ + 1]
    <2>1. row.asked + 1 \in 0 .. MaxAgain
      BY <1>6, RowFields, BoundsAssumption DEF RetranscribeCapture
    <2>2. new \in Row
      BY <2>1 DEF Row, Pending
    <2>3. Reset(r, new) /\ UNCHANGED note
      BY <1>6 DEF RetranscribeCapture
    <2> HIDE DEF new
    <2> QED BY <2>2, <2>3, ResetTypes DEF NoteTypes, Reset
  <1>7. CASE Invoke(r)
    <2>1. DeliveryTypes'
      BY <1>7, QueueTypes DEF Invoke
    <2>2. RequestTypes'
      BY <1>7, AnsweredTypes DEF Invoke
    <2>3. RowTypes'
      BY <1>7 DEF Invoke, RowTypes
    <2> QED BY <1>7, <2>1, <2>2, <2>3 DEF Invoke
  <1>8. CASE InvokeFails(r)
    <2>1. RequestTypes'
      BY <1>8 DEF InvokeFails, RequestTypes, RequestPC
    <2>2. BoundTypes'
      BY <1>8, FailTypes DEF InvokeFails
    <2> QED BY <1>8, <2>1, <2>2 DEF InvokeFails
  <1>9. CASE Rollback(r)
    <2>1. RowTypes'
      BY <1>9 DEF Rollback, RowTypes
    <2>2. RequestTypes'
      BY <1>9, AnsweredTypes DEF Rollback
    <2> QED BY <1>9, <2>1, <2>2 DEF Rollback
  <1>10. CASE DeleteCapture(r)
    <2>1. RequestTypes'
      BY <1>10 DEF DeleteCapture, RequestTypes, RequestPC
    <2>2. asks' \in 0 .. MaxAsks
      BY <1>10, BoundsAssumption DEF DeleteCapture, BoundTypes
    <2>3. BoundTypes'
      BY <1>10, <2>2 DEF DeleteCapture, BoundTypes
    <2> QED BY <1>10, <2>1, <2>3 DEF DeleteCapture
  <1>11. CASE CutParagraph(r)
    <2>1. NoteTypes'
      BY <1>11, EmptyValues DEF CutParagraph, NoteTypes
    <2>2. RequestTypes'
      BY <1>11 DEF CutParagraph, RequestTypes, RequestPC
    <2> QED BY <1>11, <2>1, <2>2 DEF CutParagraph
  <1>12. CASE Unlink(r)
    <2>1. obj' \in Objects
      BY <1>12, EmptyValues DEF Unlink
    <2>2. RequestTypes'
      BY <1>12 DEF Unlink, RequestTypes, RequestPC
    <2> QED BY <1>12, <2>1, <2>2 DEF Unlink
  <1>13. CASE RequestDies(r)
    <2>1. RequestTypes'
      BY <1>13, AnsweredTypes DEF RequestDies
    <2>2. RowTypes'
      BY <1>13 DEF RequestDies, RowTypes
    <2>3. BoundTypes'
      BY <1>13, FailTypes DEF RequestDies
    <2> QED BY <1>13, <2>1, <2>2, <2>3 DEF RequestDies
  <1> QED
    BY <1>1, <1>2, <1>3, <1>4, <1>5, <1>6, <1>7, <1>8, <1>9, <1>10, <1>11, <1>12, <1>13
    DEF Handle, Operation

\* And what comes from outside.
LEMMA TypeEnvironment ==
    ASSUME TypeOK, BeginCapture \/ Environment
    PROVE  TypeOK'
  <1> USE Unmoved DEF TypeOK, RowUnchanged, EnvUnchanged
  <1>0. row \in Row
    BY DEF RowTypes
  <1> USE <1>0
  <1>1. CASE BeginCapture
    <2>1. \A n \in Destinations : [NewRow EXCEPT !.status = "uploaded", !.audio = TRUE,
                                       !.note = n, !.peaks = PeaksClaimed] \in Row
      <3>1. PeaksClaimed \in BOOLEAN
        BY FlagsAssumption
      <3>2. NewRow \in Row
        BY EmptyValues, RowFields DEF NewRow
      <3> QED BY <3>1, <3>2 DEF Row, Pending, Destinations
    <2>2. RowTypes'
      BY <1>1, <2>1 DEF BeginCapture, RowTypes
    <2>3. linkLive' \in BOOLEAN
      BY <1>1 DEF BeginCapture
    <2>4. BoundTypes'
      BY <1>1, <2>3 DEF BeginCapture, BoundTypes
    <2> QED BY <1>1, <2>2, <2>4 DEF BeginCapture
  <1>2. CASE UploadLands
    <2>1. obj' \in Objects
      BY <1>2, ObjectFields DEF UploadLands
    <2>2. DeliveryTypes'
      BY <1>2, QueueTypes DEF UploadLands
    <2>3. uploads' \in 0 .. MaxUploads
      BY <1>2, BoundsAssumption DEF UploadLands, BoundTypes
    <2>4. BoundTypes'
      BY <1>2, <2>3 DEF UploadLands, BoundTypes
    <2> QED BY <1>2, <2>1, <2>2, <2>4 DEF UploadLands
  <1>3. CASE PeaksLand
    <2>1. obj' \in Objects
      BY <1>3, ObjectFields DEF PeaksLand
    <2>2. BoundTypes'
      BY <1>3 DEF PeaksLand, BoundTypes
    <2> QED BY <1>3, <2>1, <2>2 DEF PeaksLand
  <1>4. CASE Redeliver
    <2>1. DeliveryTypes'
      BY <1>4, QueueTypes DEF Redeliver
    <2>2. uploads' \in 0 .. MaxUploads
      BY <1>4, BoundsAssumption DEF Redeliver, BoundTypes
    <2>3. BoundTypes'
      BY <1>4, <2>2 DEF Redeliver, BoundTypes
    <2> QED BY <1>4, <2>1, <2>3 DEF Redeliver
  <1>5. CASE Reap
    <2>1. [row EXCEPT !.status = "failed", !.fresh = TRUE] \in Row
      BY RowChanges DEF Statuses, Terminal
    <2>2. RowTypes'
      BY <1>5, <2>1 DEF Reap, RowTypes
    <2>3. DeliveryTypes'
      BY <1>5, QueueTypes DEF Reap
    <2> QED BY <1>5, <2>2, <2>3 DEF Reap
  <1>6. CASE Age \/ LeaseEnds
    <2>1. RowTypes'
      BY <1>6, RowFields DEF Age, LeaseEnds, RowTypes
    <2>2. BoundTypes'
      BY <1>6 DEF Age, LeaseEnds, BoundTypes
    <2> QED BY <1>6, <2>1, <2>2 DEF Age, LeaseEnds
  <1>7. CASE LinkEnds
    <2>1. linkLive' \in BOOLEAN
      BY <1>7 DEF LinkEnds
    <2>2. BoundTypes'
      BY <1>7, <2>1 DEF LinkEnds, BoundTypes
    <2> QED BY <1>7, <2>2 DEF LinkEnds
  <1>8. CASE AudioExpires
    <2>1. obj' \in Objects
      BY <1>8, ObjectFields DEF AudioExpires
    <2>2. BoundTypes'
      BY <1>8 DEF AudioExpires, BoundTypes
    <2> QED BY <1>8, <2>1, <2>2 DEF AudioExpires
  <1>9. ASSUME NEW n \in Notes, ArchiveNote(n) \/ RestoreNote(n) PROVE TypeOK'
    <2>1. NoteTypes'
      BY <1>9 DEF ArchiveNote, RestoreNote, NoteTypes
    <2> QED BY <1>9, <2>1 DEF ArchiveNote, RestoreNote
  <1>10. ASSUME NEW n \in Notes, PurgeNote(n) PROVE TypeOK'
    <2>1. NoteTypes'
      BY <1>10, EmptyValues DEF PurgeNote, NoteTypes
    <2>2. RowTypes' /\ obj' \in Objects
      BY <1>10, EmptyValues, DropTypes DEF PurgeNote
    <2> QED BY <1>10, <2>1, <2>2 DEF PurgeNote
  <1> QED BY <1>1, <1>2, <1>3, <1>4, <1>5, <1>6, <1>7, <1>8, <1>9, <1>10
          DEF Environment, Clock

\* Every step of the system keeps every type.
LEMMA TypeNext == TypeOK /\ [Next]_vars => TypeOK'
  <1>1. TypeOK /\ UNCHANGED vars => TypeOK'
    BY Unmoved DEF TypeOK, vars
  <1> QED BY <1>1, TypeRun, TypeRequest, TypeEnvironment DEF Next

\* Every variable keeps its type, for any number of invocations, requests and
\* notes and any bounds.
THEOREM Typing == Spec => []TypeOK
  BY TypeInit, TypeNext, PTL DEF Spec

-----------------------------------------------------------------------------
(* The promise of CaptureLife.  What makes it inductive: whoever holds the *)
(* current version knows what the row says, as far as a write of theirs    *)
(* may move the capture's life.                                            *)

\* A row that is not there names nothing, and nobody holds a copy of it.
GoneIsBare == ~Exists => row.note = None /\ ~row.held /\ current = {}

\* A row that says appended has its append complete, so no claim is given on
\* it again; so has the one a request would put back.
Filed(c) == c.status = "appended" => c.held /\ c.done
FiledIsDone == Filed(row) /\ \A r \in Requests : Filed(prior[r])

\* An invocation with a current copy found its capture pending and has not
\* been overtaken; what it is about to write ends a capture that has not ended
\* as filed, or leaves it where it is.
Working == {"transcribe", "hear", "route", "ask", "destination", "strip", "clean", "tidy",
            "append"}
CopyAgrees(d) ==
    /\ pc[d] \in Running
    /\ pc[d] \in Working => row.status \in Pending
    /\ pc[d] \in {"land", "unclaim", "finished", "peaks"} =>
           mem[d].copy.status = row.status
    /\ pc[d] \in {"land", "unclaim"} => row.status # "appended"
    /\ pc[d] = "write" =>
           /\ row.status # "appended"
           /\ \/ mem[d].copy.status \in {"failed", "no_content", "needs_target"}
              \/ mem[d].copy.status = "transcribed" /\ row.status \in Pending
    /\ pc[d] \in {"finished", "peaks"} => Filed(mem[d].copy)

\* A request with a current copy is the last to have reset the row.
ResetStands(r) ==
    /\ rpc[r] \in {"invoke", "rollback"}
    /\ row.status \in Pending /\ prior[r].status \notin Gone

DeliveriesAgree == \A d \in Deliveries : d \in current => CopyAgrees(d)
RequestsStand ==
    \A r \in Requests :
        /\ r \in current => ResetStands(r)
        /\ rpc[r] # "idle" => row.status # "unborn"

PromiseInv == GoneIsBare /\ FiledIsDone /\ DeliveriesAgree /\ RequestsStand

\* What a step may do to the row's status and to what has been asked.
LifeStep ==
    \/ /\ UNCHANGED asks
       /\ \/ row'.status = row.status
          \/ row.status = "unborn" /\ row'.status \in Pending
          \/ row.status \in Pending /\ row'.status \in Pending \cup Terminal
          \/ row.status \in Terminal \ {"appended"} /\ row'.status \in Terminal
          \/ row.status # "unborn" /\ row'.status = "deleted"
    \/ /\ asks' = asks + 1 /\ Exists
       /\ row'.status = row.status \/ row'.status \in Pending

\* Such a step is one of CaptureLife's, or none.
LEMMA LifeStepIsLife ==
    ASSUME RowTypes, RowTypes', LifeStep
    PROVE  [Life!Next]_(Life!vars)
  <1>1. row.status \in Statuses /\ row'.status \in Statuses
    BY RowFields DEF RowTypes
  <1>2. CASE UNCHANGED asks /\ row'.status = row.status
    BY <1>2 DEF Life!vars, LifeOf
  <1>3. CASE UNCHANGED asks /\ row.status = "unborn" /\ row'.status \in Pending
    BY <1>3 DEF Life!Next, Life!Arrive, LifeOf, Pending, Terminal
  <1>4. CASE UNCHANGED asks /\ row.status \in Pending /\ row'.status \in Pending \cup Terminal
    BY <1>4 DEF Life!Next, Life!File, Life!Stop, Life!vars, LifeOf, Pending, Terminal
  <1>5. CASE UNCHANGED asks /\ row.status \in Terminal \ {"appended"} /\ row'.status \in Terminal
    BY <1>5 DEF Life!Next, Life!File, Life!vars, LifeOf, Pending, Terminal
  <1>6. CASE UNCHANGED asks /\ row.status # "unborn" /\ row'.status = "deleted"
    BY <1>1, <1>6
       DEF Life!Next, Life!Vanish, LifeOf, Pending, Terminal, Gone, Statuses
  <1>7. CASE asks' = asks + 1 /\ Exists /\ row'.status = row.status
    BY <1>1, <1>7
       DEF Life!Next, Life!AskToDelete, LifeOf, Exists, Pending, Terminal, Gone, Statuses
  <1>8. CASE asks' = asks + 1 /\ Exists /\ row'.status \in Pending
    BY <1>1, <1>8
       DEF Life!Next, Life!Ask, LifeOf, Exists, Pending, Terminal, Gone, Statuses
  <1> QED BY <1>2, <1>3, <1>4, <1>5, <1>6, <1>7, <1>8 DEF LifeStep

\* At first there is no row, and CaptureLife is at its start.
LEMMA PromiseInit == Init => PromiseInv /\ Life!Init
  <1> SUFFICES ASSUME Init PROVE PromiseInv /\ Life!Init
    OBVIOUS
  <1>1. /\ NoRow.status = "unborn" /\ NoRow.note = None /\ NoRow.held = FALSE
        /\ row = NoRow /\ current = {} /\ asks = 0
        /\ \A r \in Requests : prior[r] = NoRow /\ rpc[r] = "idle"
    BY DEF Init, NoRow
  <1>2. GoneIsBare
    BY <1>1 DEF GoneIsBare
  <1>3. FiledIsDone
    BY <1>1 DEF FiledIsDone, Filed
  <1>4. DeliveriesAgree /\ RequestsStand
    BY <1>1 DEF DeliveriesAgree, RequestsStand
  <1>5. Life!Init
    BY <1>1 DEF Life!Init, LifeOf, Terminal
  <1> QED BY <1>2, <1>3, <1>4, <1>5 DEF PromiseInv

-----------------------------------------------------------------------------
(* The steps of one invocation.                                            *)

\* An invocation's step is its own, and leaves it at p with this copy.
Only(d) == \A x \in Deliveries \ {d} : pc'[x] = pc[x] /\ mem'[x] = mem[x]
At(d, c, p) == pc'[d] = p /\ mem'[d].copy = c

\* Each of the ways an invocation goes on is its own step and leaves its copy as said.
LEMMA Moves ==
    ASSUME DeliveryTypes, NEW d \in Deliveries, NEW c \in Row, NEW t \in Text, NEW p
    PROVE  /\ Answer(d, c, t, p) \/ Leave(d, c, p) \/ (Remember(d, c) /\ Goto(d, p))
                  => Only(d) /\ At(d, c, p)
           /\ Goto(d, p) /\ UNCHANGED mem => Only(d) /\ At(d, mem[d].copy, p)
           /\ End(d) => Only(d) /\ pc'[d] = "idle"
           /\ Again(d) => Only(d) /\ pc'[d] \in {"idle", "queued"}
           /\ \A by : Queue(d, by) => Only(d) /\ pc'[d] = "queued" /\ pc[d] = "idle"
           /\ \A s : Verdict(d, s) => Only(d) /\ At(d, [mem[d].copy EXCEPT !.status = s], "write")
  <1>1. /\ mem \in [Deliveries -> Memory] /\ pc \in [Deliveries -> Running \cup {"idle", "queued"}]
        /\ mem[d] \in Memory
    BY DEF DeliveryTypes
  <1>2. Answer(d, c, t, p) => Only(d) /\ At(d, c, p)
    BY <1>1 DEF Answer, Goto, Only, At, Memory
  <1>3. \A k : Bare(d, k).copy = k
    BY DEF Bare, NoMemory
  <1>4. \A k, q : Leave(d, k, q) => Only(d) /\ At(d, k, q)
    BY <1>1, <1>3 DEF Leave, Goto, Only, At
  <1>5. Remember(d, c) /\ Goto(d, p) => Only(d) /\ At(d, c, p)
    BY <1>1 DEF Remember, Goto, Only, At, Memory
  <1>6. End(d) => Only(d) /\ pc'[d] = "idle"
    BY <1>1 DEF End, Goto, Only
  <1>7. Again(d) => Only(d) /\ pc'[d] \in {"idle", "queued"}
    BY <1>1, <1>6 DEF Again, Goto, Only
  <1>8. \A by : Queue(d, by) => Only(d) /\ pc'[d] = "queued" /\ pc[d] = "idle"
    BY <1>1 DEF Queue, Goto, Only
  <1>9. \A s : Verdict(d, s) => Only(d) /\ At(d, [mem[d].copy EXCEPT !.status = s], "write")
    BY <1>4 DEF Verdict
  <1>10. Goto(d, p) /\ UNCHANGED mem => Only(d) /\ At(d, mem[d].copy, p)
    BY <1>1 DEF Goto, Only, At
  <1> QED BY <1>2, <1>4, <1>5, <1>6, <1>7, <1>8, <1>9, <1>10

\* A step that leaves the row alone.
LEMMA LooksOn ==
    ASSUME PromiseInv, NEW d \in Deliveries, Only(d), UNCHANGED <<row, rpc, prior, asks>>,
           current' \subseteq current \cup {d},
           d \in current' => Exists /\ CopyAgrees(d)'
    PROVE  PromiseInv' /\ LifeStep
  <1>1. GoneIsBare'
    BY DEF PromiseInv, GoneIsBare, Exists
  <1>2. FiledIsDone'
    BY DEF PromiseInv, FiledIsDone, Filed
  <1>3. DeliveriesAgree'
    <2> SUFFICES ASSUME NEW x \in Deliveries, x \in current', x # d PROVE CopyAgrees(x)'
      BY DEF DeliveriesAgree
    <2>1. CopyAgrees(x) /\ pc'[x] = pc[x] /\ mem'[x] = mem[x]
      BY DEF PromiseInv, DeliveriesAgree, Only
    <2> QED BY <2>1 DEF CopyAgrees, Filed
  <1>4. RequestsStand'
    BY ActorsAssumption DEF PromiseInv, RequestsStand, ResetStands
  <1> QED BY <1>1, <1>2, <1>3, <1>4 DEF PromiseInv, LifeStep

\* A step that writes the row, and with it takes every other copy's place.
LEMMA Writes ==
    ASSUME PromiseInv, NEW d \in Deliveries, UNCHANGED <<rpc, prior>>,
           current' \subseteq {d}, row'.status \notin Gone, Filed(row'),
           d \in current' => CopyAgrees(d)'
    PROVE  PromiseInv'
  <1>1. GoneIsBare'
    BY DEF GoneIsBare, Exists
  <1>2. FiledIsDone'
    BY DEF PromiseInv, FiledIsDone, Filed
  <1>3. DeliveriesAgree'
    BY DEF DeliveriesAgree
  <1>4. RequestsStand'
    BY ActorsAssumption DEF PromiseInv, RequestsStand, Gone
  <1> QED BY <1>1, <1>2, <1>3, <1>4 DEF PromiseInv

\* A write that was lost.
LEMMA ConcedeKeeps ==
    ASSUME TypeOK, PromiseInv, NEW d \in Deliveries, Concede(d), UNCHANGED <<rpc, prior, asks>>
    PROVE  PromiseInv' /\ LifeStep
  <1>0. DeliveryTypes /\ row \in Row /\ NoWords \in Text /\ mem[d].copy \in Row
    BY MemoryFields, EmptyValues DEF TypeOK, RowTypes, DeliveryTypes
  <1>1. CASE Exists /\ current' = current \cup {d} /\ Leave(d, row, "conceded")
    <2>1. Only(d) /\ At(d, row, "conceded")
      BY <1>0, <1>1, Moves
    <2>2. CopyAgrees(d)'
      BY <2>1 DEF CopyAgrees, At, Working, Running, Stages
    <2> QED BY <1>1, <2>1, <2>2, LooksOn DEF Concede
  <1>2. CASE UNCHANGED current /\ Leave(d, mem[d].copy, "failed")
    <2>1. Only(d)
      BY <1>0, <1>2, Moves
    <2> QED BY <1>2, <2>1, LooksOn DEF Concede
  <1> QED BY <1>1, <1>2 DEF Concede

\* A write from a copy, won or conceded.
LEMMA PersistKeeps ==
    ASSUME TypeOK, PromiseInv, NEW d \in Deliveries, NEW new \in Row,
           NEW p \in Running \ {"write"}, Persist(d, new, p),
           new.status \in Pending \cup (Terminal \ {"appended"}),
           p \in Working => new.status \in Pending,
           d \in current =>
               \/ row.status \in Pending
               \/ row.status \in Terminal \ {"appended"} /\ new.status \in Terminal
    PROVE  PromiseInv' /\ LifeStep
  <1>0. DeliveryTypes /\ row \in Row /\ NoWords \in Text
    BY EmptyValues DEF TypeOK, RowTypes
  <1>u. UNCHANGED <<rpc, prior, asks>>
    BY DEF Persist
  <1>1. CASE PutCapture(d, [new EXCEPT !.fresh = TRUE]) /\ Remember(d, row') /\ Goto(d, p)
    <2>1. row' = [new EXCEPT !.fresh = TRUE] /\ current' = {d} /\ d \in current
      BY <1>1 DEF PutCapture
    <2>2. row' \in Row /\ row'.status = new.status
      <3>1. [new EXCEPT !.fresh = TRUE] \in Row
        BY RowFields
      <3>2. [new EXCEPT !.fresh = TRUE].status = new.status
        BY DEF Row
      <3> QED BY <2>1, <3>1, <3>2
    <2>3. Only(d) /\ At(d, row', p)
      BY <1>0, <1>1, <2>2, Moves
    <2>4. row'.status \notin Gone /\ Filed(row')
      BY <2>2 DEF Filed, Gone, Pending, Terminal
    <2>5. CopyAgrees(d)'
      BY <2>2, <2>3, <2>4 DEF CopyAgrees, At, Filed, Pending, Terminal
    <2>6. LifeStep
      BY <1>u, <2>1, <2>2 DEF LifeStep, Terminal
    <2> QED BY <1>u, <2>1, <2>4, <2>5, <2>6, Writes
  <1>2. CASE Concede(d)
    BY <1>u, <1>2, ConcedeKeeps
  <1> QED BY <1>1, <1>2 DEF Persist

\* What a step of an invocation keeps: one leaf for each action.
LEMMA PromiseRun ==
    ASSUME TypeOK, TypeOK', PromiseInv, NEW d \in Deliveries, Run(d) \/ Fault(d) \/ Crash(d)
    PROVE  PromiseInv' /\ LifeStep
  <1> DEFINE c == mem[d].copy
  <1>0. /\ DeliveryTypes /\ row \in Row /\ c \in Row /\ mem[d].text \in Text /\ Source(d) \in Text
        /\ NoWords \in Text /\ row' \in Row /\ c.status \in Statuses /\ row.status \in Statuses
    BY MemoryFields, SourceIsText, EmptyValues, RowFields DEF TypeOK, RowTypes, DeliveryTypes
  <1> HIDE DEF c
  <1>a. d \in current => CopyAgrees(d) /\ Exists
    BY DEF PromiseInv, DeliveriesAgree, GoneIsBare
  <1>b. Filed(row)
    BY DEF PromiseInv, FiledIsDone
  <1>1. CASE StartRun(d)
    <2>1. Only(d) /\ current' \subseteq current \cup {d}
      BY <1>0, <1>1, Moves DEF StartRun, Only, Goto
    <2>2. d \in current' => Exists /\ CopyAgrees(d)'
      <3>1. d \notin current
        BY <1>1, <1>a DEF CopyAgrees, StartRun, Running, Stages
      <3>2. d \in current' => Exists /\ IsPending(row) /\ pc'[d] = FirstStage(row)
        BY <1>0, <1>1, <3>1, Moves DEF StartRun, At
      <3> QED BY <1>1, <3>2
              DEF StartRun, CopyAgrees, FirstStage, Working, Running, Stages, IsPending
    <2> QED BY <1>1, <2>1, <2>2, LooksOn DEF StartRun
  <1>2. CASE RejectOversized(d)
    <2>1. Only(d) /\ current' \subseteq current \cup {d}
      BY <1>0, <1>2, Moves, RowFields DEF RejectOversized, Statuses, Terminal
    <2>2. d \in current' => Exists /\ CopyAgrees(d)'
      <3>1. d \notin current
        BY <1>2, <1>a DEF CopyAgrees, RejectOversized, Running, Stages
      <3>2. d \in current' => Exists /\ IsPending(row)
                                     /\ At(d, [row EXCEPT !.status = "failed"], "write")
        BY <1>0, <1>2, <3>1, Moves, RowFields DEF RejectOversized, Statuses, Terminal
      <3>3. [row EXCEPT !.status = "failed"].status = "failed"
        BY <1>0 DEF Row
      <3> QED BY <1>2, <3>2, <3>3
              DEF RejectOversized, At, CopyAgrees, Working, Running, Stages, IsPending, Pending
    <2> QED BY <1>2, <2>1, <2>2, LooksOn DEF RejectOversized
  <1>3. CASE Transcribe(d) \/ Route(d) \/ Clean(d) \/ Append(d)
    <2>1. \A x \in Statuses : /\ [c EXCEPT !.status = x] \in Row
                              /\ [c EXCEPT !.status = x].status = x
      BY <1>0, RowFields DEF Row
    <2>2. PICK x \in Pending, p \in {"hear", "ask", "tidy", "claim"} :
             Persist(d, [c EXCEPT !.status = x], p)
      BY <1>3 DEF Transcribe, Route, Clean, Append, SetStatus, Pending, c
    <2>3. [c EXCEPT !.status = x] \in Row /\ [c EXCEPT !.status = x].status \in Pending
      BY <2>1 DEF Statuses
    <2>4. d \in current => row.status \in Pending
      BY <1>3, <1>a DEF Transcribe, Route, Clean, Append, SetStatus, CopyAgrees, Working
    <2>5. p \in Running \ {"write"}
      BY DEF Running, Stages
    <2> QED BY <2>2, <2>3, <2>4, <2>5, PersistKeeps
  <1>4. CASE Write(d)
    <2> DEFINE p == IF IsTerminal(c) THEN "finished" ELSE "destination"
    <2>1. Persist(d, c, p)
      BY <1>4 DEF Write, c
    <2>2. CASE d \in current
      <3>1. /\ row.status # "appended" /\ row.status \notin Gone
            /\ \/ c.status \in {"failed", "no_content", "needs_target"}
               \/ c.status = "transcribed" /\ row.status \in Pending
        BY <1>4, <1>a, <2>2 DEF Write, CopyAgrees, Exists, c
      <3>2. p \in Running \ {"write"} /\ (p \in Working => c.status \in Pending)
        BY <3>1 DEF IsTerminal, Terminal, Pending, Running, Stages, Working
      <3>3. c.status \in Pending \cup (Terminal \ {"appended"})
        BY <3>1 DEF Terminal, Pending
      <3>4. \/ row.status \in Pending
            \/ row.status \in Terminal \ {"appended"} /\ c.status \in Terminal
        BY <1>0, <3>1 DEF Statuses, Terminal, Pending, Gone
      <3> HIDE DEF p
      <3> QED BY <1>0, <2>1, <3>2, <3>3, <3>4, PersistKeeps
    <2>3. CASE d \notin current
      <3>1. Concede(d) /\ UNCHANGED <<rpc, prior, asks>>
        BY <2>1, <2>3 DEF Persist, PutCapture
      <3> QED BY <3>1, ConcedeKeeps
    <2> QED BY <2>2, <2>3
  <1>5. CASE Hear(d)
    <2> DEFINE lang == TranscriptionLanguage(d)
               words == [asked |-> c.asked, lang |-> lang, as |-> None]
               heard == [c EXCEPT !.raw = TRUE, !.lang = lang, !.status = "transcribed"]
               silent == [heard EXCEPT !.status = "no_content"]
    <2>1. lang \in Languages
      BY DEF TranscriptionLanguage, LanguageOf, Languages
    <2>2. /\ heard \in Row /\ silent \in Row
          /\ heard.status = "transcribed" /\ silent.status = "no_content"
      BY <1>0, <2>1 DEF Row, Pending, Terminal
    <2> HIDE DEF lang
    <2>3. \/ Only(d) /\ At(d, heard, "route")
          \/ Only(d) /\ \E k \in Row : /\ At(d, k, "write")
                                       /\ k.status \in {"transcribed", "no_content", "failed"}
      <3>1. ASSUME NEW p \in {"route", "write"}, Goto(d, p),
                   mem' = [mem EXCEPT ![d] = Looked(d, [@ EXCEPT !.copy = heard, !.text = words])]
            PROVE  Only(d) /\ At(d, heard, p)
        <4>1. Looked(d, [mem[d] EXCEPT !.copy = heard, !.text = words]).copy = heard
          BY <1>0 DEF Looked, Memory, DeliveryTypes
        <4> QED BY <1>0, <3>1, <4>1 DEF Only, At, Goto, DeliveryTypes
      <3>2. CASE Leave(d, silent, "write")
        BY <1>0, <2>2, <3>2, Moves
      <3>3. ASSUME NEW status \in {"no_content", "failed"}, Verdict(d, status)
            PROVE  Only(d) /\ At(d, [c EXCEPT !.status = status], "write")
        BY <1>0, <3>3, Moves DEF c
      <3>4. \A status \in {"no_content", "failed"} :
               [c EXCEPT !.status = status] \in Row /\ [c EXCEPT !.status = status].status = status
        BY <1>0 DEF Row, Terminal
      <3> HIDE DEF heard, silent, words
      <3> QED BY <1>5, <2>2, <3>1, <3>2, <3>3, <3>4 DEF Hear, c, heard, silent, words, lang
    <2>4. d \in current => row.status \in Pending
      BY <1>5, <1>a DEF Hear, CopyAgrees, Working
    <2>5. d \in current => CopyAgrees(d)'
      BY <1>5, <2>3, <2>4
         DEF Hear, CopyAgrees, At, Working, Running, Stages, Pending
    <2> QED BY <1>5, <1>a, <2>3, <2>5, LooksOn DEF Hear
  <1>6. CASE AskRouter(d)
    <2> DEFINE k == [c EXCEPT !.routed = TRUE]
    <2>1. /\ k \in Row
          /\ \A n \in Notes : /\ [k EXCEPT !.note = n, !.status = "transcribed"] \in Row
                              /\ [k EXCEPT !.note = n, !.status = "transcribed"].status = "transcribed"
          /\ [k EXCEPT !.status = "needs_target"] \in Row
          /\ [k EXCEPT !.status = "needs_target"].status = "needs_target"
          /\ [c EXCEPT !.status = "failed"].status = "failed"
      BY <1>0 DEF Row, Pending, Terminal
    <2>2. Only(d) /\ pc'[d] = "write"
                  /\ mem'[d].copy.status \in {"transcribed", "needs_target", "failed"}
      <3>1. CASE Verdict(d, "failed")
        BY <1>0, <2>1, <3>1, Moves DEF At, c
      <3>2. ASSUME NEW n \in Notes, NEW t, Goto(d, "write"),
                   mem' = [mem EXCEPT ![d].copy = [k EXCEPT !.note = n, !.status = "transcribed"],
                                      ![d].text = t, ![d].dest = n, ![d].seen = "active"]
            PROVE  Only(d) /\ pc'[d] = "write" /\ mem'[d].copy.status = "transcribed"
        <4> DEFINE new == [k EXCEPT !.note = n, !.status = "transcribed"]
        <4>1. mem'[d].copy = new
          BY <1>0, <3>2 DEF DeliveryTypes, Memory
        <4>2. Only(d) /\ pc'[d] = "write"
          BY <1>0, <3>2 DEF DeliveryTypes, Only, Goto
        <4> QED BY <2>1, <4>1, <4>2
      <3>3. CASE /\ Goto(d, "write")
                 /\ mem' = [mem EXCEPT ![d] = Bare(d, [k EXCEPT !.status = "needs_target"])]
        <4>1. Leave(d, [k EXCEPT !.status = "needs_target"], "write")
          BY <3>3 DEF Leave
        <4>2. At(d, [k EXCEPT !.status = "needs_target"], "write") /\ Only(d)
          BY <1>0, <2>1, <4>1, Moves
        <4> QED BY <2>1, <4>2 DEF At
      <3> QED BY <1>6, <3>1, <3>2, <3>3, NotesAssumption DEF AskRouter, c
    <2>3. d \in current => row.status \in Pending
      BY <1>6, <1>a DEF AskRouter, CopyAgrees, Working
    <2>4. d \in current => CopyAgrees(d)'
      BY <1>6, <2>2, <2>3 DEF AskRouter, CopyAgrees, Working, Running, Stages, Pending
    <2> QED BY <1>6, <1>a, <2>2, <2>4, LooksOn DEF AskRouter
  <1>7. CASE Destination(d)
    <2> DEFINE new == [c EXCEPT !.note = None, !.status = "needs_target"]
    <2>1. /\ new \in Row /\ new.status = "needs_target"
          /\ [c EXCEPT !.status = "failed"].status = "failed"
      BY <1>0 DEF Row, Terminal
    <2>2. /\ Only(d)
          /\ \/ pc'[d] \in Working
             \/ pc'[d] = "write" /\ mem'[d].copy.status \in {"needs_target", "failed"}
      <3>1. CASE Leave(d, new, "write")
        BY <1>0, <2>1, <3>1, Moves DEF At
      <3>2. CASE Verdict(d, "failed")
        BY <1>0, <2>1, <3>2, Moves DEF At, c
      <3>3. CASE \E p \in Working : \E m : Goto(d, p) /\ mem' = [mem EXCEPT ![d] = m]
        BY <1>0, <3>3 DEF Only, Goto, DeliveryTypes
      <3> QED BY <1>7, <3>1, <3>2, <3>3 DEF Destination, c, Working
    <2>3. d \in current => row.status \in Pending
      BY <1>7, <1>a DEF Destination, CopyAgrees, Working
    <2>4. d \in current => CopyAgrees(d)'
      BY <1>7, <2>2, <2>3 DEF Destination, CopyAgrees, Working, Running, Stages, Pending
    <2> QED BY <1>7, <1>a, <2>2, <2>4, LooksOn DEF Destination
  <1>8. CASE Strip(d) \/ Tidy(d)
    <2>1. [c EXCEPT !.routed = TRUE] \in Row /\ [c EXCEPT !.clean = TRUE, !.status = "cleaned"] \in Row
      BY <1>0 DEF Row, Pending
    <2>2. /\ [c EXCEPT !.status = "failed"].status = "failed"
          /\ [c EXCEPT !.status = "no_content"].status = "no_content"
      BY <1>0 DEF Row
    <2>3. /\ Only(d)
          /\ \/ pc'[d] \in Working
             \/ pc'[d] = "write" /\ mem'[d].copy.status \in {"no_content", "failed"}
      <3>1. ASSUME NEW k \in Row, NEW t, NEW p \in Working, Answer(d, k, t, p)
            PROVE  Only(d) /\ pc'[d] \in Working
        BY <1>0, <3>1 DEF Answer, Goto, Only, DeliveryTypes
      <3>2. ASSUME NEW status \in {"no_content", "failed"}, Verdict(d, status)
            PROVE  /\ Only(d) /\ pc'[d] = "write"
                   /\ mem'[d].copy.status \in {"no_content", "failed"}
        <4>1. Only(d) /\ At(d, [c EXCEPT !.status = status], "write")
          BY <1>0, <3>2, Moves DEF c
        <4>2. CASE status = "no_content"
          BY <2>2, <4>1, <4>2 DEF At
        <4>3. CASE status = "failed"
          BY <2>2, <4>1, <4>3 DEF At
        <4> QED BY <4>2, <4>3
      <3> QED BY <1>0, <1>8, <2>1, <3>1, <3>2 DEF Strip, Tidy, Working, c
    <2>4. d \in current => row.status \in Pending
      BY <1>8, <1>a DEF Strip, Tidy, CopyAgrees, Working
    <2>5. d \in current => CopyAgrees(d)'
      BY <1>8, <2>3, <2>4 DEF Strip, Tidy, CopyAgrees, Working, Running, Stages, Pending
    <2> QED BY <1>8, <1>a, <2>3, <2>5, LooksOn DEF Strip, Tidy
  <1>9. CASE ClaimCaptureAppend(d)
    <2>1. CASE Claimable(row) /\ row' = [row EXCEPT !.held = TRUE, !.leased = TRUE]
               /\ current' = {d} /\ Answer(d, row', Source(d), "land")
      <3>1. row'.status = row.status
        BY <1>0, <2>1 DEF Row
      <3>2. row.status # "appended" /\ row.status \notin Gone
        BY <1>9, <1>b, <2>1 DEF ClaimCaptureAppend, Claimable, Filed, Exists
      <3>3. Only(d) /\ At(d, row', "land")
        BY <1>0, <2>1, Moves
      <3>4. CopyAgrees(d)'
        BY <3>1, <3>2, <3>3 DEF CopyAgrees, At, Working, Running, Stages
      <3>5. Filed(row')
        BY <3>1, <3>2 DEF Filed
      <3>6. LifeStep
        BY <1>9, <3>1 DEF ClaimCaptureAppend, LifeStep
      <3> QED BY <1>9, <2>1, <3>1, <3>2, <3>3, <3>4, <3>5, <3>6, Writes DEF ClaimCaptureAppend
    <2>2. CASE UNCHANGED row /\ current' = current \cup {d}
               /\ \/ Leave(d, row, "finished")
                  \/ Answer(d, row, Source(d), "check")
      <3>1. Only(d) /\ (At(d, row, "finished") \/ At(d, row, "check"))
        BY <1>0, <2>2, Moves
      <3>2. CopyAgrees(d)'
        BY <1>b, <2>2, <3>1 DEF CopyAgrees, At, Filed, Working, Running, Stages
      <3> QED BY <1>9, <2>2, <3>1, <3>2, LooksOn DEF ClaimCaptureAppend
    <2> QED BY <1>9, <2>1, <2>2 DEF ClaimCaptureAppend
  <1>10. CASE Land(d)
    <2>1. Only(d) /\ pc'[d] \in {"complete", "unclaim"} /\ mem'[d].copy = c
      <3>1. CASE Answer(d, c, NoWords, "complete")
        BY <1>0, <3>1, Moves DEF At
      <3>2. CASE mem' = [mem EXCEPT ![d].seen = "archived"] /\ Goto(d, "unclaim")
        BY <1>0, <3>2 DEF Only, Goto, DeliveryTypes, Memory, c
      <3>3. CASE UNCHANGED mem /\ Goto(d, "unclaim")
        BY <1>0, <3>3 DEF Only, Goto, DeliveryTypes, c
      <3> QED BY <1>10, <3>1, <3>2, <3>3 DEF Land, c
    <2>2. d \in current => CopyAgrees(d)'
      BY <1>10, <1>a, <2>1 DEF Land, CopyAgrees, Working, Running, Stages, c
    <2> QED BY <1>10, <1>a, <2>1, <2>2, LooksOn DEF Land
  <1>11. CASE ReleaseAppendClaim(d)
    <2> DEFINE free == [c EXCEPT !.held = FALSE, !.leased = FALSE]
               GoOn(k) == \/ Leave(d, [k EXCEPT !.status = "failed"], "write")
                          \/ Leave(d, k, "failed")
    <2>f. free \in Row /\ free.status = c.status
      <3>1. free \in Row
        BY <1>0, RowChanges
      <3>2. free.status = c.status
        BY <1>0 DEF Row
      <3> QED BY <3>1, <3>2
    <2>1. \A k \in Row : /\ [k EXCEPT !.status = "failed"] \in Row
                         /\ [k EXCEPT !.status = "failed"].status = "failed"
      <3>1. \A k \in Row : [k EXCEPT !.status = "failed"] \in Row
        BY RowFields DEF Statuses, Terminal
      <3>2. \A k \in Row : [k EXCEPT !.status = "failed"].status = "failed"
        BY DEF Row
      <3> QED BY <3>1, <3>2
    <2>2. ASSUME NEW k \in Row, GoOn(k)
          PROVE  /\ Only(d)
                 /\ \/ pc'[d] = "write" /\ mem'[d].copy.status = "failed"
                    \/ pc'[d] = "failed"
      <3>1. CASE Leave(d, [k EXCEPT !.status = "failed"], "write")
        <4>1. Only(d) /\ At(d, [k EXCEPT !.status = "failed"], "write")
          BY <1>0, <2>1, <3>1, Moves
        <4> QED BY <2>1, <4>1 DEF At
      <3>2. CASE Leave(d, k, "failed")
        BY <1>0, <3>2, Moves DEF At
      <3> QED BY <2>2, <3>1, <3>2
    <2>3. CASE PutCapture(d, free) /\ GoOn(free)
      <3>1. d \in current /\ row' = free /\ current' = {d}
        BY <2>3 DEF PutCapture
      <3>2. row'.status = row.status /\ row.status # "appended" /\ row.status \notin Gone
        BY <1>11, <1>a, <2>f, <3>1 DEF ReleaseAppendClaim, CopyAgrees, Exists, c
      <3>3. CopyAgrees(d)'
        BY <2>f, <2>2, <2>3, <3>2 DEF CopyAgrees, Working, Running, Stages
      <3>4. Filed(row')
        BY <3>2 DEF Filed
      <3>5. LifeStep
        BY <1>11, <3>2 DEF ReleaseAppendClaim, LifeStep
      <3> QED BY <1>11, <3>1, <3>2, <3>3, <3>4, <3>5, Writes DEF ReleaseAppendClaim
    <2>4. CASE d \notin current /\ UNCHANGED <<row, current>> /\ GoOn(c)
      BY <1>0, <1>11, <2>2, <2>4, LooksOn DEF ReleaseAppendClaim
    <2> QED BY <1>11, <2>3, <2>4 DEF ReleaseAppendClaim, c
  <1>12. CASE CheckNote(d)
    <2>1. Only(d) /\ pc'[d] \in {"complete", "failed"}
      BY <1>0, <1>12, Moves DEF CheckNote, At, c
    <2> QED BY <1>12, <1>a, <2>1, LooksOn
            DEF CheckNote, CopyAgrees, Working, Running, Stages
  <1>13. CASE CompleteCaptureAppend(d)
    <2>1. CASE /\ row.held /\ ~row.done /\ row' = [row EXCEPT !.status = "appended", !.done = TRUE]
               /\ current' = {d} /\ Leave(d, row', "finished")
      <3>1. row'.status = "appended" /\ row'.held = row.held /\ row'.done = TRUE
        BY <1>0, <2>1 DEF Row
      <3>2. row.status # "appended" /\ row.status \notin Gone
        BY <1>b, <2>1 DEF Filed, PromiseInv, GoneIsBare, Exists
      <3>3. Only(d) /\ At(d, row', "finished")
        BY <1>0, <2>1, Moves
      <3>4. Filed(row')
        BY <2>1, <3>1 DEF Filed
      <3>5. CopyAgrees(d)'
        BY <3>1, <3>3, <3>4 DEF CopyAgrees, At, Filed, Working, Running, Stages
      <3>6. LifeStep
        BY <1>0, <1>13, <3>1, <3>2
           DEF CompleteCaptureAppend, LifeStep, Statuses, Terminal
      <3>7. row'.status \notin Gone
        BY <3>1 DEF Gone
      <3> QED BY <1>13, <2>1, <3>3, <3>4, <3>5, <3>6, <3>7, Writes DEF CompleteCaptureAppend
    <2>2. CASE row.held /\ UNCHANGED row /\ current' = current \cup {d} /\ Leave(d, row, "finished")
      <3>1. Only(d) /\ At(d, row, "finished")
        BY <1>0, <2>2, Moves
      <3>2. CopyAgrees(d)'
        BY <1>b, <2>2, <3>1 DEF CopyAgrees, At, Filed, Working, Running, Stages
      <3>3. Exists
        BY <2>2 DEF PromiseInv, GoneIsBare
      <3> QED BY <1>13, <2>2, <3>1, <3>2, <3>3, LooksOn DEF CompleteCaptureAppend
    <2>3. CASE UNCHANGED <<row, current>> /\ Leave(d, c, "failed")
      <3>1. Only(d) /\ At(d, c, "failed")
        BY <1>0, <2>3, Moves
      <3>2. CopyAgrees(d)'
        BY <3>1 DEF CopyAgrees, At, Working, Running, Stages
      <3> QED BY <1>13, <1>a, <2>3, <3>1, <3>2, LooksOn DEF CompleteCaptureAppend
    <2> QED BY <1>13, <2>1, <2>2, <2>3 DEF CompleteCaptureAppend, c
  <1>14. CASE MissingObject(d)
    <2>1. Only(d) /\ At(d, c, "failed")
      BY <1>0, <1>14, Moves DEF MissingObject, c
    <2>2. CopyAgrees(d)'
      BY <2>1 DEF CopyAgrees, At, Working, Running, Stages
    <2> QED BY <1>14, <1>a, <2>1, <2>2, LooksOn DEF MissingObject
  <1>15. CASE Finish(d)
    <2>1. CASE Goto(d, "peaks") /\ UNCHANGED <<mem, current>>
      <3>1. Only(d) /\ At(d, c, "peaks")
        BY <1>0, <2>1, Moves DEF c
      <3>2. d \in current => CopyAgrees(d)'
        BY <1>15, <1>a, <3>1 DEF Finish, CopyAgrees, At, Filed, Working, Running, Stages, c
      <3> QED BY <1>15, <1>a, <2>1, <3>1, <3>2, LooksOn DEF Finish
    <2>2. CASE End(d) /\ Release(d)
      <3>1. Only(d)
        BY <1>0, <2>2, Moves
      <3> QED BY <1>15, <2>2, <3>1, LooksOn DEF Finish, Release
    <2> QED BY <1>15, <2>1, <2>2 DEF Finish
  <1>16. CASE VerifyPeaks(d)
    <2>1. CASE /\ d \in current /\ row' = [c EXCEPT !.peaks = FALSE, !.fresh = TRUE]
               /\ current' = {} /\ End(d)
      <3>1. row'.status = c.status /\ row'.held = c.held /\ row'.done = c.done
        BY <1>0, <2>1 DEF Row
      <3>2. c.status = row.status /\ Filed(c) /\ row.status \notin Gone
        BY <1>16, <1>a, <2>1 DEF VerifyPeaks, CopyAgrees, Exists, c
      <3>3. Filed(row')
        BY <3>1, <3>2 DEF Filed
      <3>4. Only(d)
        BY <1>0, <2>1, Moves
      <3>5. LifeStep
        BY <1>16, <3>1, <3>2 DEF VerifyPeaks, LifeStep
      <3> QED BY <1>16, <2>1, <3>1, <3>2, <3>3, <3>4, <3>5, Writes DEF VerifyPeaks
    <2>2. CASE UNCHANGED row /\ Release(d) /\ End(d)
      <3>1. Only(d)
        BY <1>0, <2>2, Moves
      <3> QED BY <1>16, <2>2, <3>1, LooksOn DEF VerifyPeaks, Release
    <2>3. CASE d \notin current /\ UNCHANGED <<row, current>> /\ Remember(d, row) /\ Goto(d, "failed")
      <3>1. Only(d)
        BY <1>0, <2>3, Moves
      <3> QED BY <1>16, <2>3, <3>1, LooksOn DEF VerifyPeaks
    <2> QED BY <1>16, <2>1, <2>2, <2>3 DEF VerifyPeaks, c
  <1>17. CASE Conceded(d)
    <2>1. Only(d)
      BY <1>0, <1>17, Moves DEF Conceded
    <2> QED BY <1>17, <2>1, LooksOn DEF Conceded, Release
  <1>18. CASE Failed(d)
    <2>1. Only(d)
      BY <1>0, <1>18, Moves DEF Failed
    <2>2. CASE /\ IsPending(row) /\ current' = {}
               /\ row' = [row EXCEPT !.status = "failed", !.fresh = TRUE]
      <3>1. row'.status = "failed"
        BY <1>0, <2>2 DEF Row
      <3>2. Filed(row') /\ row'.status \notin Gone
        BY <3>1 DEF Filed, Gone
      <3>3. LifeStep
        BY <1>18, <2>2, <3>1 DEF Failed, LifeStep, IsPending, Terminal
      <3> QED BY <1>18, <2>1, <2>2, <3>2, <3>3, Writes DEF Failed
    <2>3. CASE UNCHANGED row /\ Release(d)
      BY <1>18, <2>1, <2>3, LooksOn DEF Failed, Release
    <2> QED BY <1>18, <2>2, <2>3 DEF Failed
  <1>19. CASE Fault(d)
    <2>1. CASE pc[d] = "land" /\ Goto(d, "unclaim") /\ UNCHANGED mem
      <3>1. Only(d) /\ At(d, c, "unclaim")
        BY <1>0, <2>1, Moves DEF c
      <3>2. d \in current => CopyAgrees(d)'
        BY <1>19, <1>a, <2>1, <3>1 DEF Fault, CopyAgrees, At, Working, Running, Stages, c
      <3> QED BY <1>19, <1>a, <3>1, <3>2, LooksOn DEF Fault
    <2>2. CASE Leave(d, c, "failed")
      <3>1. Only(d) /\ At(d, c, "failed")
        BY <1>0, <2>2, Moves
      <3>2. CopyAgrees(d)'
        BY <3>1 DEF CopyAgrees, At, Working, Running, Stages
      <3> QED BY <1>19, <1>a, <3>1, <3>2, LooksOn DEF Fault
    <2> QED BY <1>19, <2>1, <2>2 DEF Fault, c
  <1>20. CASE Crash(d)
    <2>1. Only(d)
      BY <1>0, <1>20, Moves DEF Crash
    <2> QED BY <1>20, <2>1, LooksOn DEF Crash, Release
  <1> QED
    BY <1>1, <1>2, <1>3, <1>4, <1>5, <1>6, <1>7, <1>8, <1>9, <1>10, <1>11, <1>12, <1>13,
       <1>14, <1>15, <1>16, <1>17, <1>18, <1>19, <1>20 DEF Run

-----------------------------------------------------------------------------
(* The steps of a request. *)

\* A request's step is its own.
OnlyRequest(r) == \A q \in Requests \ {r} : rpc'[q] = rpc[q] /\ prior'[q] = prior[q]

\* A request that leaves the row alone.
LEMMA Waits ==
    ASSUME PromiseInv, NEW r \in Requests, OnlyRequest(r),
           UNCHANGED <<row, pc, mem>>, current' \subseteq current,
           prior'[r] \in {row, prior[r], NoRow},
           rpc'[r] # "idle" => row.status # "unborn",
           r \in current' => rpc'[r] \in {"invoke", "rollback"} /\ prior'[r] = prior[r]
    PROVE  PromiseInv'
  <1>1. GoneIsBare'
    BY DEF PromiseInv, GoneIsBare, Exists
  <1>2. Filed(NoRow)
    BY DEF Filed, NoRow
  <1>3. FiledIsDone'
    BY <1>2 DEF PromiseInv, FiledIsDone, Filed, OnlyRequest
  <1>4. DeliveriesAgree'
    BY DEF PromiseInv, DeliveriesAgree, CopyAgrees, Filed
  <1>5. RequestsStand'
    BY DEF PromiseInv, RequestsStand, ResetStands, OnlyRequest
  <1> QED BY <1>1, <1>3, <1>4, <1>5 DEF PromiseInv

\* A request that writes the row, and with it takes every copy's place.
LEMMA Puts ==
    ASSUME PromiseInv, NEW r \in Requests, OnlyRequest(r), current' \subseteq {r},
           row'.status \notin Gone, Filed(row'), Filed(prior'[r]),
           r \in current' => ResetStands(r)'
    PROVE  PromiseInv'
  <1>1. GoneIsBare'
    BY DEF GoneIsBare, Exists
  <1>2. FiledIsDone'
    BY DEF PromiseInv, FiledIsDone, Filed, OnlyRequest
  <1>3. DeliveriesAgree'
    BY ActorsAssumption DEF DeliveriesAgree
  <1>4. RequestsStand'
    BY DEF PromiseInv, RequestsStand, Gone
  <1> QED BY <1>1, <1>2, <1>3, <1>4 DEF PromiseInv

\* The row goes.
LEMMA Goes ==
    ASSUME PromiseInv, DropRow, row.status # "unborn",
           \A q \in Requests : prior'[q] \in {prior[q], NoRow}
    PROVE  PromiseInv' /\ (UNCHANGED asks => LifeStep)
  <1>1. /\ row'.status = "deleted" /\ row'.note = None /\ row'.held = FALSE
        /\ current' = {} /\ NoRow.status = "unborn"
    BY DEF DropRow, NoRow
  <1>2. GoneIsBare'
    BY <1>1 DEF GoneIsBare
  <1>3. FiledIsDone'
    BY <1>1 DEF PromiseInv, FiledIsDone, Filed
  <1>4. DeliveriesAgree' /\ RequestsStand'
    BY <1>1 DEF DeliveriesAgree, RequestsStand
  <1>5. UNCHANGED asks => LifeStep
    BY <1>1 DEF LifeStep
  <1> QED BY <1>2, <1>3, <1>4, <1>5 DEF PromiseInv

\* An operation that resets the row.
LEMMA ResetKeeps ==
    ASSUME TypeOK, PromiseInv, NEW r \in Requests, NEW new \in Row, Reset(r, new),
           UNCHANGED <<pc, mem>>, new.status \in Pending
    PROVE  PromiseInv' /\ LifeStep
  <1>0. /\ rpc \in [Requests -> RequestPC] /\ prior \in [Requests -> Row]
        /\ row \in Row
    BY DEF TypeOK, RequestTypes, RowTypes
  <1>1. row' = [new EXCEPT !.fresh = TRUE] /\ current' = {r} /\ asks' = asks + 1 /\ Exists
    BY DEF Reset
  <1>2. row'.status \in Pending
    BY <1>1 DEF Row
  <1>3. rpc'[r] = "invoke" /\ prior'[r] = row /\ OnlyRequest(r)
    BY <1>0 DEF Reset, OnlyRequest
  <1>4. ResetStands(r)'
    BY <1>1, <1>2, <1>3 DEF ResetStands, Exists
  <1>5. row'.status \notin Gone /\ Filed(row') /\ Filed(prior'[r])
    BY <1>2, <1>3 DEF Pending, Gone, Filed, PromiseInv, FiledIsDone
  <1>6. LifeStep
    BY <1>1, <1>2 DEF LifeStep
  <1> QED BY <1>1, <1>3, <1>4, <1>5, <1>6, Puts

\* What a step of a request keeps.
LEMMA PromiseRequest ==
    ASSUME TypeOK, PromiseInv, NEW r \in Requests,
           Handle(r) \/ Operation(r) \/ InvokeFails(r) \/ RequestDies(r)
    PROVE  PromiseInv' /\ LifeStep
  <1>0. /\ rpc \in [Requests -> RequestPC] /\ prior \in [Requests -> Row]
        /\ row \in Row /\ row.status \in Statuses /\ DeliveryTypes
    BY RowFields DEF TypeOK, RequestTypes, RowTypes
  <1>a. /\ r \in current => ResetStands(r)
        /\ rpc[r] # "idle" => row.status # "unborn"
    BY DEF PromiseInv, RequestsStand
  <1>b. Answered(r) => /\ rpc'[r] = "idle" /\ prior'[r] = NoRow /\ OnlyRequest(r)
                       /\ \A q \in Requests : prior'[q] \in {prior[q], NoRow}
    BY <1>0 DEF Answered, OnlyRequest
  <1>c. \A p : rpc' = [rpc EXCEPT ![r] = p] =>
             rpc'[r] = p /\ (UNCHANGED prior => OnlyRequest(r))
    BY <1>0 DEF OnlyRequest
  <1>d. UNCHANGED <<row, asks>> => LifeStep
    BY DEF LifeStep
  <1>1. CASE PutText(r)
    <2>1. r \notin current
      BY <1>1, <1>a DEF PutText, ResetStands
    <2>2. OnlyRequest(r) /\ UNCHANGED <<row, current, pc, mem, prior, asks>>
      BY <1>1, <1>c DEF PutText, RowUnchanged
    <2> QED BY <1>1, <1>a, <1>d, <2>1, <2>2, Waits DEF PutText
  <1>2. CASE DiscardEmptyRow(r) \/ DeleteRow(r)
    BY <1>2, <1>a, <1>b, Goes DEF DiscardEmptyRow, DeleteRow
  <1>3. CASE Invoke(r)
    <2>1. PICK d \in Deliveries : Queue(d, "api")
      BY <1>3 DEF Invoke
    <2>2. Only(d) /\ d \notin current /\ d \notin current'
      <3>1. Only(d) /\ pc[d] = "idle"
        <4>1. DeliveryTypes /\ row \in Row /\ NoWords \in Text
          BY <1>0, EmptyValues
        <4> QED BY <2>1, <4>1, Moves
      <3>2. d \notin current
        BY <3>1 DEF PromiseInv, DeliveriesAgree, CopyAgrees, Running, Stages
      <3> QED BY <1>3, <3>1, <3>2 DEF Invoke
    <2>3. UNCHANGED row /\ current' = current \ {r} /\ UNCHANGED asks
      BY <1>3 DEF Invoke
    <2>4. GoneIsBare'
      BY <2>3 DEF PromiseInv, GoneIsBare, Exists
    <2>5. FiledIsDone'
      <3>1. Filed(NoRow)
        BY DEF Filed, NoRow
      <3> QED BY <1>3, <1>b, <2>3, <3>1 DEF PromiseInv, FiledIsDone, Filed, Invoke
    <2>6. DeliveriesAgree'
      <3> SUFFICES ASSUME NEW x \in Deliveries, x \in current' PROVE CopyAgrees(x)'
        BY DEF DeliveriesAgree
      <3>1. x # d /\ CopyAgrees(x) /\ pc'[x] = pc[x] /\ mem'[x] = mem[x]
        BY <2>2, <2>3 DEF PromiseInv, DeliveriesAgree, Only
      <3> QED BY <2>3, <3>1 DEF CopyAgrees, Filed
    <2>7. RequestsStand'
      BY <1>3, <1>b, <2>3 DEF PromiseInv, RequestsStand, ResetStands, OnlyRequest, Invoke
    <2> QED BY <1>d, <2>3, <2>4, <2>5, <2>6, <2>7 DEF PromiseInv
  <1>4. CASE Rollback(r)
    <2>1. CASE r \in current /\ row' = prior[r] /\ current' = {}
      <3>1. row.status \in Pending /\ row'.status \in Statuses \ Gone
        BY <1>0, <1>a, <2>1, RowFields DEF ResetStands
      <3>2. Filed(row') /\ Filed(prior'[r])
        <4>1. Filed(NoRow) /\ Filed(prior[r])
          BY DEF Filed, NoRow, PromiseInv, FiledIsDone
        <4> QED BY <1>4, <1>b, <2>1, <4>1 DEF Rollback
      <3>3. LifeStep
        BY <1>4, <3>1 DEF LifeStep, Rollback, Statuses
      <3> QED BY <1>4, <1>b, <2>1, <3>1, <3>2, <3>3, Puts DEF Rollback
    <2>2. CASE r \notin current /\ RowUnchanged
      BY <1>4, <1>b, <1>d, <2>2, Waits DEF Rollback, RowUnchanged, EnvUnchanged
    <2> QED BY <1>4, <2>1, <2>2 DEF Rollback
  <1>5. CASE CutParagraph(r) \/ Unlink(r)
    <2>1. r \notin current
      BY <1>5, <1>a DEF CutParagraph, Unlink, ResetStands
    <2>2. /\ OnlyRequest(r) /\ UNCHANGED <<row, current, pc, mem, prior, asks>>
          /\ rpc[r] # "idle"
      BY <1>5, <1>c DEF CutParagraph, Unlink, RowUnchanged, EnvUnchanged
    <2> QED BY <1>a, <1>d, <2>1, <2>2, Waits
  <1>6. CASE IngestText(r)
    <2>1. PICK n \in Destinations :
             row' = [NewRow EXCEPT !.status = "transcribed", !.raw = TRUE, !.note = n]
      BY <1>6 DEF IngestText
    <2>2. row'.status = "transcribed"
      BY <2>1 DEF NewRow, NoRow
    <2>3. row.status = "unborn" /\ current' = {}
      BY <1>6 DEF IngestText, PromiseInv, GoneIsBare, Exists, Gone
    <2>4. OnlyRequest(r) /\ UNCHANGED <<prior, asks>>
      BY <1>6, <1>c DEF IngestText
    <2>5. row'.status \notin Gone /\ Filed(row') /\ Filed(prior'[r])
      BY <2>2, <2>4 DEF Gone, Filed, PromiseInv, FiledIsDone
    <2>6. LifeStep
      BY <2>2, <2>3, <2>4 DEF LifeStep, Pending
    <2> QED BY <2>3, <2>4, <2>5, <2>6, Puts
  <1>7. CASE RetryCapture(r)
    <2> DEFINE new == [row EXCEPT !.status = IF @ = "failed" THEN ResumeStatusFor(row) ELSE @]
    <2>1. new.status \in Pending
      BY <1>0, <1>7 DEF RetryCapture, ResumeStatusFor, IsPending, Row, Pending
    <2>2. new \in Row
      BY <1>0, <2>1 DEF Row
    <2> HIDE DEF new
    <2> QED BY <1>7, <2>1, <2>2, ResetKeeps DEF RetryCapture, Reset, new
  <1>8. CASE SetCaptureTarget(r)
    <2>1. PICK n \in Notes :
             Reset(r, [row EXCEPT !.note = n, !.status = ResumeStatusFor(row)])
      BY <1>8 DEF SetCaptureTarget
    <2> DEFINE new == [row EXCEPT !.note = n, !.status = ResumeStatusFor(row)]
    <2>2. new \in Row /\ new.status \in Pending
      BY <1>0 DEF ResumeStatusFor, Row, Pending
    <2> HIDE DEF new
    <2> QED BY <2>1, <2>2, ResetKeeps DEF Reset, new
  <1>9. CASE RetranscribeCapture(r)
    <2> DEFINE new == [row EXCEPT !.raw = FALSE, !.routed = FALSE, !.clean = FALSE,
                            !.lang = "none", !.held = FALSE, !.leased = FALSE,
                            !.done = FALSE, !.status = "transcribing", !.asked = @ + 1]
    <2>1. row.asked \in 0 .. MaxAgain /\ row.asked < MaxAgain /\ MaxAgain \in Nat
      BY <1>0, <1>9, RowFields, BoundsAssumption DEF RetranscribeCapture
    <2>2. row.asked + 1 \in 0 .. MaxAgain
      BY <2>1
    <2>3. new \in Row /\ new.status \in Pending
      BY <1>0, <2>2 DEF Row, Pending
    <2> HIDE DEF new
    <2> QED BY <1>9, <2>3, ResetKeeps DEF RetranscribeCapture, Reset, new
  <1>10. CASE DeleteCapture(r)
    <2>1. /\ prior'[r] = row /\ OnlyRequest(r) /\ rpc[r] = "idle" /\ rpc'[r] = "cut"
          /\ UNCHANGED <<row, current, pc, mem>> /\ asks' = asks + 1 /\ Exists
      BY <1>0, <1>10 DEF DeleteCapture, OnlyRequest, EnvUnchanged, RowUnchanged
    <2>2. r \notin current /\ row.status # "unborn"
      BY <1>a, <2>1 DEF ResetStands, Exists, Gone
    <2>3. LifeStep
      BY <2>1 DEF LifeStep
    <2> QED BY <2>1, <2>2, <2>3, Waits
  <1>11. CASE InvokeFails(r)
    <2>1. /\ rpc'[r] \in {"idle", "rollback"} /\ UNCHANGED <<prior, row, current, pc, mem, asks>>
          /\ OnlyRequest(r) /\ rpc[r] = "invoke"
          /\ rpc'[r] = "idle" => prior[r] = NoRow
      BY <1>0, <1>11, <1>c DEF InvokeFails, RowUnchanged
    <2>2. prior[r] = NoRow => r \notin current
      BY <1>a DEF ResetStands, NoRow, Gone
    <2> QED BY <1>a, <1>d, <2>1, <2>2, Waits
  <1>12. CASE RequestDies(r)
    BY <1>12, <1>b, <1>d, Waits DEF RequestDies
  <1> QED
    BY <1>1, <1>2, <1>3, <1>4, <1>5, <1>6, <1>7, <1>8, <1>9, <1>10, <1>11, <1>12
       DEF Handle, Operation

-----------------------------------------------------------------------------
(* The steps of everything else, and the theorem. *)

\* What happens to the row of itself: nobody's copy is any better for it.
LEMMA Ages ==
    ASSUME PromiseInv, UNCHANGED <<pc, mem, rpc, prior, asks>>, current' = current,
           row'.status = row.status, row'.note = row.note,
           row'.held = row.held, row'.done = row.done
    PROVE  PromiseInv' /\ LifeStep
  <1>1. GoneIsBare'
    BY DEF PromiseInv, GoneIsBare, Exists
  <1>2. FiledIsDone'
    BY DEF PromiseInv, FiledIsDone, Filed
  <1>3. DeliveriesAgree'
    BY DEF PromiseInv, DeliveriesAgree, CopyAgrees, Filed
  <1>4. RequestsStand'
    BY DEF PromiseInv, RequestsStand, ResetStands
  <1>5. LifeStep
    BY DEF LifeStep
  <1> QED BY <1>1, <1>2, <1>3, <1>4, <1>5 DEF PromiseInv

\* A row that is written while nobody keeps a current copy.
LEMMA Begins ==
    ASSUME PromiseInv, UNCHANGED <<rpc, prior>>, current' = {},
           row'.status \notin Gone \cup {"appended"}
    PROVE  PromiseInv'
  <1>1. GoneIsBare' /\ DeliveriesAgree' /\ FiledIsDone'
    BY DEF GoneIsBare, Exists, DeliveriesAgree, PromiseInv, FiledIsDone, Filed
  <1>2. RequestsStand'
    BY DEF PromiseInv, RequestsStand, Gone
  <1> QED BY <1>1, <1>2 DEF PromiseInv

\* What a step of the clients, the reconcile task, the notes or the clock keeps.
LEMMA PromiseEnvironment ==
    ASSUME TypeOK, PromiseInv, BeginCapture \/ Environment
    PROVE  PromiseInv' /\ LifeStep
  <1>0. DeliveryTypes /\ row \in Row /\ NoWords \in Text
    BY EmptyValues DEF TypeOK, RowTypes
  <1>q. ASSUME NEW d \in Deliveries, NEW by, Queue(d, by),
               UNCHANGED <<row, current, rpc, prior, asks>>
        PROVE  PromiseInv' /\ LifeStep
    <2>1. Only(d) /\ pc[d] = "idle"
      BY <1>0, <1>q, Moves
    <2>2. d \notin current
      BY <2>1 DEF PromiseInv, DeliveriesAgree, CopyAgrees, Running, Stages
    <2> QED BY <1>q, <2>1, <2>2, LooksOn
  <1>1. CASE BeginCapture
    <2>1. PICK n \in Destinations :
             row' = [NewRow EXCEPT !.status = "uploaded", !.audio = TRUE, !.note = n,
                                   !.peaks = PeaksClaimed]
      BY <1>1 DEF BeginCapture
    <2>2. row'.status = "uploaded"
      BY <2>1 DEF NewRow, NoRow
    <2>3. row.status = "unborn" /\ current' = {} /\ UNCHANGED <<rpc, prior, asks>>
      BY <1>1 DEF BeginCapture, PromiseInv, GoneIsBare, Exists, Gone
    <2>4. LifeStep
      BY <2>2, <2>3 DEF LifeStep, Pending
    <2> QED BY <2>2, <2>3, <2>4, Begins DEF Gone
  <1>2. CASE UploadLands \/ Redeliver
    <2>1. /\ \E d \in Deliveries : \E by : Queue(d, by)
          /\ UNCHANGED <<row, current, rpc, prior, asks>>
      BY <1>2 DEF UploadLands, Redeliver, RowUnchanged
    <2> QED BY <1>q, <2>1
  <1>3. CASE Reap
    <2>1. CASE /\ row' = [row EXCEPT !.status = "failed", !.fresh = TRUE] /\ current' = {}
               /\ UNCHANGED <<pc, mem>>
      <3>1. row'.status = "failed"
        BY <1>0, <2>1 DEF Row
      <3>2. row.status \in Pending /\ UNCHANGED <<rpc, prior, asks>>
        BY <1>3 DEF Reap, IsPending
      <3>3. LifeStep
        BY <3>1, <3>2 DEF LifeStep, Terminal
      <3> QED BY <2>1, <3>1, <3>2, <3>3, Begins DEF Gone
    <2>2. CASE (\E d \in Deliveries : Queue(d, "reap")) /\ RowUnchanged
      BY <1>3, <1>q, <2>2 DEF Reap, RowUnchanged
    <2> QED BY <1>3, <2>1, <2>2 DEF Reap
  <1>4. CASE Age \/ LeaseEnds
    <2>1. /\ row'.status = row.status /\ row'.note = row.note
          /\ row'.held = row.held /\ row'.done = row.done
      BY <1>0, <1>4 DEF Age, LeaseEnds, Row
    <2> QED BY <1>4, <2>1, Ages DEF Age, LeaseEnds, EnvUnchanged
  <1>5. CASE PeaksLand \/ LinkEnds \/ AudioExpires
    BY <1>5, Ages DEF PeaksLand, LinkEnds, AudioExpires, EnvUnchanged, RowUnchanged
  <1>6. ASSUME NEW n \in Notes, ArchiveNote(n) \/ RestoreNote(n) \/ PurgeNote(n)
        PROVE  PromiseInv' /\ LifeStep
    <2>1. UNCHANGED <<pc, mem, rpc, prior, asks>>
      BY <1>6 DEF ArchiveNote, RestoreNote, PurgeNote
    <2>2. CASE RowUnchanged
      BY <2>1, <2>2, Ages DEF RowUnchanged
    <2>3. CASE row.note = n /\ DropRow
      <3>1. row.status # "unborn"
        BY <2>3, NotesAssumption DEF PromiseInv, GoneIsBare, Exists, Gone
      <3> QED BY <2>1, <2>3, <3>1, Goes
    <2> QED BY <1>6, <2>2, <2>3 DEF ArchiveNote, RestoreNote, PurgeNote
  <1> QED BY <1>1, <1>2, <1>3, <1>4, <1>5, <1>6 DEF Environment, Clock

\* Every step keeps the invariant, and is a step of CaptureLife or a stutter.
LEMMA PromiseNext ==
    TypeOK /\ TypeOK' /\ PromiseInv /\ [Next]_vars => PromiseInv' /\ [Life!Next]_(Life!vars)
  <1> SUFFICES ASSUME TypeOK, TypeOK', PromiseInv, [Next]_vars
               PROVE  PromiseInv' /\ [Life!Next]_(Life!vars)
    OBVIOUS
  <1>1. PromiseInv' /\ LifeStep
    <2>1. CASE \E d \in Deliveries : Run(d) \/ Fault(d) \/ Crash(d)
      BY <2>1, PromiseRun
    <2>2. CASE \E r \in Requests : Handle(r) \/ Operation(r) \/ InvokeFails(r) \/ RequestDies(r)
      BY <2>2, PromiseRequest
    <2>3. CASE BeginCapture \/ Environment
      BY <2>3, PromiseEnvironment
    <2>4. CASE UNCHANGED vars
      BY <2>4, Ages DEF vars
    <2> QED BY <2>1, <2>2, <2>3, <2>4 DEF Next
  <1> QED BY <1>1, LifeStepIsLife DEF TypeOK

\* The pipeline keeps CaptureLife's promise, for any number of invocations,
\* requests and notes and any bounds: a filed capture never turns into one that
\* stopped, and none that has ended moves again unless a person asked.
THEOREM ImplementsLife == Spec => KeepsItsPromise
  <1>1. Spec => [](TypeOK /\ PromiseInv)
    <2>1. TypeOK /\ PromiseInv /\ [Next]_vars => TypeOK' /\ PromiseInv'
      BY TypeNext, PromiseNext
    <2>2. Init => TypeOK /\ PromiseInv
      BY TypeInit, PromiseInit
    <2> QED BY <2>1, <2>2, PTL DEF Spec
  <1>2. TypeOK /\ PromiseInv /\ [Next]_vars => [Life!Next]_(Life!vars)
    BY TypeNext, PromiseNext
  <1>3. Init => Life!Init
    BY PromiseInit
  <1> QED BY <1>1, <1>2, <1>3, PTL DEF Spec, KeepsItsPromise, Life!Spec

-----------------------------------------------------------------------------
(***************************************************************************)
(* The words of a recording, for every number of deliveries, requests and  *)
(* notes and every bound: they are in S3 before the lifecycle rule may     *)
(* take the audio, and they are dictated into one note.                    *)
(***************************************************************************)

-----------------------------------------------------------------------------
(* The audio goes when its words are there.  The tag that lets it go is    *)
(* put by whoever holds a copy of the row that names a transcript, however *)
(* old the copy is; so what has to hold is that while any copy says so the *)
(* transcript is in S3.                                                    *)

\* A copy that lets the audio go.
Heard(c) == c.audio /\ c.raw

\* Somebody holds one: the row itself, an invocation, or a request that may
\* put it back.
SomebodyHeard ==
    \/ Heard(row)
    \/ \E d \in Deliveries : Heard(mem[d].copy)
    \/ \E r \in Requests : Heard(prior[r])

\* As long as there is no transcript, and before there is a capture, nobody
\* says there is one and the audio is not tagged.
WordsHeld ==
    row.status # "deleted" /\ (row.status = "unborn" \/ obj.raw = NoWords) =>
        ~SomebodyHeard /\ ~obj.processed
NotYet == row.status = "unborn" => ~linkLive /\ ~obj.audio
NobodyDeletes == \A r \in Requests : rpc[r] \notin {"cut", "unlink", "drop"}

HeldInv == WordsHeld /\ NotYet /\ NobodyDeletes

\* What a step may do to all this.
HeardStep ==
    /\ SomebodyHeard' => SomebodyHeard \/ (obj.audio /\ obj'.raw # NoWords)
    /\ obj'.processed => obj.processed \/ SomebodyHeard
    /\ obj'.raw = NoWords => obj.raw = NoWords \/ row'.status = "deleted"
    /\ row'.status = "unborn" =>
           (linkLive' => linkLive) /\ (obj'.audio => obj.audio \/ linkLive)
    /\ obj.audio /\ ~obj'.audio => UNCHANGED obj.raw \/ row'.status \in Gone

\* A copy that has something else changed lets the audio go if it did before.
LEMMA HeardFields ==
    ASSUME NEW c \in Row
    PROVE  /\ \A s : Heard([c EXCEPT !.status = s]) => Heard(c)
           /\ \A s : Heard([c EXCEPT !.status = s, !.fresh = TRUE]) => Heard(c)
           /\ \A s : Heard([c EXCEPT !.clean = TRUE, !.status = s]) => Heard(c)
           /\ \A s, n : Heard([c EXCEPT !.note = n, !.status = s]) => Heard(c)
           /\ \A s, b : Heard([c EXCEPT !.status = s, !.done = b]) => Heard(c)
           /\ \A x, y : Heard([c EXCEPT !.held = x, !.leased = y]) => Heard(c)
           /\ \A x, y : Heard([c EXCEPT !.peaks = x, !.fresh = y]) => Heard(c)
           /\ \A x : Heard([c EXCEPT !.fresh = x]) => Heard(c)
           /\ \A x : Heard([c EXCEPT !.leased = x]) => Heard(c)
           /\ \A x : Heard([c EXCEPT !.routed = x]) => Heard(c)
           /\ ~Heard([c EXCEPT !.raw = FALSE, !.routed = FALSE])
           /\ ~Heard(NoRow)
  BY DEF Row, Heard, NoRow

\* An invocation's step is its own, and is none of a request's.
LEMMA OwnStep ==
    ASSUME DeliveryTypes, NEW d \in Deliveries, Run(d) \/ Fault(d) \/ Crash(d)
    PROVE  Only(d) /\ UNCHANGED <<rpc, prior, linkLive>>
  <1> USE DEF Only, Goto, Leave, Answer, Remember, End, Again, Verdict
  <1>0. mem \in [Deliveries -> Memory] /\ pc \in [Deliveries -> Running \cup {"idle", "queued"}]
    BY DEF DeliveryTypes
  <1>1. CASE StartRun(d) \/ RejectOversized(d)
    BY <1>0, <1>1 DEF StartRun, RejectOversized
  <1>2. ASSUME NEW new, NEW p, Persist(d, new, p)
        PROVE  Only(d) /\ UNCHANGED <<rpc, prior, linkLive>>
    BY <1>0, <1>2 DEF Persist, Concede
  <1>3. CASE Write(d) \/ Transcribe(d) \/ Route(d) \/ Clean(d) \/ Append(d)
    BY <1>2, <1>3 DEF Write, Transcribe, Route, Clean, Append, SetStatus
  <1>4. CASE Hear(d)
    BY <1>0, <1>4 DEF Hear
  <1>5. CASE AskRouter(d)
    BY <1>0, <1>5 DEF AskRouter
  <1>6. CASE Destination(d)
    BY <1>0, <1>6 DEF Destination
  <1>7. CASE Strip(d) \/ Tidy(d)
    BY <1>0, <1>7 DEF Strip, Tidy
  <1>8. CASE ClaimCaptureAppend(d) \/ Land(d)
    BY <1>0, <1>8 DEF ClaimCaptureAppend, Land
  <1>9. CASE ReleaseAppendClaim(d)
    BY <1>0, <1>9 DEF ReleaseAppendClaim
  <1>10. CASE CheckNote(d) \/ CompleteCaptureAppend(d) \/ MissingObject(d)
    BY <1>0, <1>10 DEF CheckNote, CompleteCaptureAppend, MissingObject
  <1>11. CASE Finish(d) \/ VerifyPeaks(d) \/ Conceded(d) \/ Failed(d)
    BY <1>0, <1>11 DEF Finish, VerifyPeaks, Conceded, Failed
  <1>12. CASE Fault(d) \/ Crash(d)
    BY <1>0, <1>12 DEF Fault, Crash
  <1> QED
    BY <1>1, <1>3, <1>4, <1>5, <1>6, <1>7, <1>8, <1>9, <1>10, <1>11, <1>12 DEF Run

\* Such a step, in terms of the invocation that makes it.
LEMMA HeardByOne ==
    ASSUME NEW d \in Deliveries, Only(d), UNCHANGED <<prior, linkLive>>,
           Heard(row') => Heard(row) \/ Heard(mem[d].copy),
           Heard(mem'[d].copy) => \/ Heard(row) \/ Heard(mem[d].copy)
                                  \/ obj.audio /\ obj'.raw # NoWords,
           obj'.processed => obj.processed \/ Heard(mem[d].copy),
           obj'.raw = NoWords => obj.raw = NoWords,
           obj'.audio => obj.audio,
           obj.audio /\ ~obj'.audio => UNCHANGED obj.raw \/ row'.status \in Gone
    PROVE  HeardStep
  <1>1. \A x \in Deliveries \ {d} : mem'[x].copy = mem[x].copy
    BY DEF Only
  <1>2. SomebodyHeard' => SomebodyHeard \/ (obj.audio /\ obj'.raw # NoWords)
    BY <1>1 DEF SomebodyHeard
  <1>3. obj'.processed => obj.processed \/ SomebodyHeard
    BY DEF SomebodyHeard
  <1> QED BY <1>2, <1>3 DEF HeardStep

\* What an invocation's step does to the copies that let the audio go, and to
\* the audio: one leaf for each action.
LEMMA HeardRun ==
    ASSUME TypeOK, NEW d \in Deliveries, Run(d) \/ Fault(d) \/ Crash(d)
    PROVE  HeardStep
  <1> DEFINE c == mem[d].copy
  <1>0. /\ DeliveryTypes /\ row \in Row /\ c \in Row /\ Source(d) \in Text /\ NoWords \in Text
        /\ obj \in Objects /\ c.status \in Statuses
    BY MemoryFields, SourceIsText, EmptyValues, RowFields DEF TypeOK, RowTypes, DeliveryTypes
  <1>o. Only(d) /\ UNCHANGED <<prior, linkLive>>
    BY <1>0, OwnStep
  <1>n. NoMemory.copy = NoRow /\ ~Heard(NoRow)
    BY HeardFields, EmptyValues DEF NoMemory
  <1>e. End(d) \/ Again(d) => ~Heard(mem'[d].copy)
    BY <1>0, <1>n DEF End, Again, DeliveryTypes, NoMemory
  <1>t. MarkAudioProcessed(d) =>
             /\ obj'.raw = obj.raw /\ obj'.audio = obj.audio
             /\ obj'.processed => obj.processed \/ Heard(c)
    BY <1>0 DEF MarkAudioProcessed, Objects, Heard
  <1> HIDE DEF c
  <1>k. ASSUME UNCHANGED obj, Heard(row') => Heard(row) \/ Heard(c),
               Heard(mem'[d].copy) => Heard(row) \/ Heard(c)
        PROVE  HeardStep
    BY <1>o, <1>k, HeardByOne DEF c
  <1>m. ASSUME MarkAudioProcessed(d), Heard(row') => Heard(row) \/ Heard(c),
               Heard(mem'[d].copy) => Heard(row) \/ Heard(c)
        PROVE  HeardStep
    BY <1>0, <1>t, <1>o, <1>m, HeardByOne DEF c, Objects
  <1>l. \A k \in Row : \A p : Leave(d, k, p) => mem'[d].copy = k
    BY <1>0, Moves DEF At
  <1>v. \A s \in Statuses : Verdict(d, s) => (Heard(mem'[d].copy) => Heard(c))
    <2> SUFFICES ASSUME NEW s \in Statuses, Verdict(d, s), Heard(mem'[d].copy) PROVE Heard(c)
      OBVIOUS
    <2>1. [c EXCEPT !.status = s] \in Row
      BY <1>0, RowFields
    <2>2. mem'[d].copy = [c EXCEPT !.status = s]
      BY <1>l, <2>1 DEF Verdict, c
    <2> QED BY <1>0, <2>2, HeardFields
  <1>p. ASSUME NEW new \in Row, NEW p, Persist(d, new, p), Heard(new) => Heard(c)
        PROVE  HeardStep
    <2>1. CASE PutCapture(d, [new EXCEPT !.fresh = TRUE]) /\ Remember(d, row')
      <3>1. row' = [new EXCEPT !.fresh = TRUE] /\ mem'[d].copy = row'
        BY <1>0, <2>1 DEF PutCapture, Remember, DeliveryTypes, Memory
      <3>2. Heard(row') => Heard(c)
        <4>1. Heard([new EXCEPT !.fresh = TRUE]) => Heard(new)
          BY HeardFields
        <4> QED BY <1>p, <3>1, <4>1
      <3> QED BY <1>k, <1>p, <3>1, <3>2 DEF Persist
    <2>2. CASE Concede(d)
      <3>1. UNCHANGED row /\ mem'[d].copy \in {row, c}
        BY <1>0, <1>l, <2>2 DEF Concede, c
      <3> QED BY <1>k, <1>p, <3>1 DEF Persist
    <2> QED BY <1>p, <2>1, <2>2 DEF Persist
  <1>1. CASE StartRun(d)
    <2>1. UNCHANGED row
      BY <1>1 DEF StartRun
    <2>2. Heard(mem'[d].copy) => Heard(row) \/ Heard(c)
      <3>1. Remember(d, row) => mem'[d].copy = row
        BY <1>0 DEF Remember, DeliveryTypes, Memory
      <3> QED BY <1>1, <1>e, <3>1 DEF StartRun, c
    <2>3. /\ obj'.raw = obj.raw
          /\ obj'.audio => obj.audio
          /\ obj'.processed => obj.processed
      BY <1>0, <1>1 DEF StartRun, Objects
    <2> QED BY <1>o, <2>1, <2>2, <2>3, HeardByOne DEF c
  <1>2. CASE RejectOversized(d)
    <2>1. UNCHANGED row
      BY <1>2 DEF RejectOversized
    <2>2. Heard(mem'[d].copy) => Heard(row) \/ Heard(c)
      <3>1. Remember(d, [row EXCEPT !.status = "failed"]) =>
               mem'[d].copy = [row EXCEPT !.status = "failed"]
        BY <1>0 DEF Remember, DeliveryTypes, Memory
      <3>2. Heard([row EXCEPT !.status = "failed"]) => Heard(row)
        BY <1>0, HeardFields
      <3>3. CASE Remember(d, [row EXCEPT !.status = "failed"])
        BY <3>1, <3>2, <3>3
      <3>4. CASE End(d)
        BY <1>e, <3>4
      <3> QED BY <1>2, <3>3, <3>4 DEF RejectOversized
    <2>3. /\ obj'.raw = obj.raw
          /\ obj'.audio => obj.audio
          /\ obj'.processed => obj.processed
      BY <1>0, <1>2 DEF RejectOversized, Objects
    <2> QED BY <1>o, <2>1, <2>2, <2>3, HeardByOne DEF c
  <1>3. CASE Transcribe(d) \/ Route(d) \/ Clean(d) \/ Append(d)
    <2>1. PICK x \in Statuses : \E p : Persist(d, [c EXCEPT !.status = x], p)
      BY <1>3 DEF Transcribe, Route, Clean, Append, SetStatus, Statuses, Pending, c
    <2>2. [c EXCEPT !.status = x] \in Row /\ (Heard([c EXCEPT !.status = x]) => Heard(c))
      BY <1>0, RowFields, HeardFields
    <2> QED BY <1>p, <2>1, <2>2
  <1>4. CASE Write(d)
    <2>1. \E p : Persist(d, c, p)
      BY <1>4 DEF Write, c
    <2> QED BY <1>0, <1>p, <2>1
  <1>5. CASE Hear(d)
    <2> DEFINE lang == TranscriptionLanguage(d)
               words == [asked |-> c.asked, lang |-> lang, as |-> None]
    <2>1. words # NoWords
      BY DEF TranscriptionLanguage, LanguageOf, NoWords
    <2>2. CASE obj.audio /\ obj' = [obj EXCEPT !.raw = words]
      <3>1. obj'.raw # NoWords /\ obj'.audio = obj.audio /\ obj'.processed = obj.processed
        BY <1>0, <2>1, <2>2 DEF Objects
      <3> QED BY <1>5, <1>o, <2>2, <3>1, HeardByOne DEF Hear
    <2>3. CASE UNCHANGED obj /\ \E status \in {"no_content", "failed"} : Verdict(d, status)
      BY <1>5, <1>k, <1>v, <2>3 DEF Hear, Statuses, Terminal
    <2> QED BY <1>5, <2>2, <2>3 DEF Hear, c
  <1>6. CASE AskRouter(d)
    <2> DEFINE k == [c EXCEPT !.routed = TRUE]
    <2>1. /\ k \in Row /\ (Heard(k) => Heard(c))
          /\ [k EXCEPT !.status = "needs_target"] \in Row
      BY <1>0, RowFields, HeardFields DEF Statuses, Terminal
    <2> HIDE DEF k
    <2>2. Heard(mem'[d].copy) => Heard(c)
      <3>1. CASE Verdict(d, "failed")
        BY <1>v, <3>1 DEF Statuses, Terminal
      <3>2. ASSUME NEW n \in Notes, NEW t,
                   mem' = [mem EXCEPT ![d].copy = [k EXCEPT !.note = n, !.status = "transcribed"],
                                      ![d].text = t, ![d].dest = n, ![d].seen = "active"]
            PROVE  Heard(mem'[d].copy) => Heard(c)
        <4>1. mem'[d].copy = [k EXCEPT !.note = n, !.status = "transcribed"]
          BY <1>0, <3>2 DEF DeliveryTypes, Memory
        <4>2. Heard([k EXCEPT !.note = n, !.status = "transcribed"]) => Heard(k)
          BY <2>1, HeardFields
        <4> QED BY <2>1, <4>1, <4>2
      <3>3. CASE /\ Goto(d, "write")
                 /\ mem' = [mem EXCEPT ![d] = Bare(d, [k EXCEPT !.status = "needs_target"])]
        <4>1. mem'[d].copy = [k EXCEPT !.status = "needs_target"]
          BY <1>l, <2>1, <3>3 DEF Leave
        <4>2. Heard([k EXCEPT !.status = "needs_target"]) => Heard(k)
          BY <2>1, HeardFields
        <4> QED BY <2>1, <4>1, <4>2
      <3> QED BY <1>6, <3>1, <3>2, <3>3, NotesAssumption DEF AskRouter, c, k
    <2>3. obj'.raw = obj.raw /\ obj'.audio = obj.audio /\ obj'.processed = obj.processed
      BY <1>0, <1>6 DEF AskRouter, Objects
    <2> QED BY <1>6, <1>o, <2>2, <2>3, HeardByOne DEF AskRouter, c
  <1>7. CASE Destination(d)
    <2>1. Heard(mem'[d].copy) => Heard(c)
      <3>1. CASE Leave(d, [c EXCEPT !.note = None, !.status = "needs_target"], "write")
        <4>1. [c EXCEPT !.note = None, !.status = "needs_target"] \in Row
          BY <1>0, RowChanges DEF Statuses, Terminal
        <4>2. Heard([c EXCEPT !.note = None, !.status = "needs_target"]) => Heard(c)
          BY <1>0, HeardFields
        <4> QED BY <1>l, <3>1, <4>1, <4>2
      <3>2. CASE Verdict(d, "failed")
        BY <1>v, <3>2 DEF Statuses, Terminal
      <3>3. ASSUME NEW m, mem' = [mem EXCEPT ![d] = m],
                   m.copy = c \/ m.copy = [c EXCEPT !.raw = FALSE, !.routed = FALSE]
            PROVE  Heard(mem'[d].copy) => Heard(c)
        <4>1. ~Heard([c EXCEPT !.raw = FALSE, !.routed = FALSE])
          BY <1>0, HeardFields
        <4>2. mem'[d].copy = m.copy
          BY <1>0, <3>3 DEF DeliveryTypes
        <4> QED BY <3>3, <4>1, <4>2
      <3>4. LET m == [mem[d] EXCEPT !.dest = c.note, !.seen = "active"]
            IN  /\ m.copy = c
                /\ \A k : [m EXCEPT !.copy = k].copy = k
        BY <1>0 DEF DeliveryTypes, Memory, c
      <3> QED BY <1>7, <3>1, <3>2, <3>3, <3>4 DEF Destination, c
    <2> QED BY <1>7, <1>k, <2>1 DEF Destination
  <1>8. CASE Strip(d) \/ Tidy(d)
    <2>1. Heard(mem'[d].copy) => Heard(c)
      <3>1. ASSUME NEW k, NEW t, NEW p, Answer(d, k, t, p)
            PROVE  mem'[d].copy = k
        BY <1>0, <3>1 DEF Answer, DeliveryTypes, Memory
      <3>2. /\ Heard([c EXCEPT !.routed = TRUE]) => Heard(c)
            /\ Heard([c EXCEPT !.clean = TRUE, !.status = "cleaned"]) => Heard(c)
        BY <1>0, HeardFields
      <3>3. CASE \E t, p : \/ Answer(d, c, t, p) \/ Answer(d, [c EXCEPT !.routed = TRUE], t, p)
                           \/ Answer(d, [c EXCEPT !.clean = TRUE, !.status = "cleaned"], t, p)
        BY <3>1, <3>2, <3>3
      <3>4. CASE \E status \in {"no_content", "failed"} : Verdict(d, status)
        BY <1>v, <3>4 DEF Statuses, Terminal
      <3> QED BY <1>8, <3>3, <3>4 DEF Strip, Tidy, c
    <2>2. obj'.raw = obj.raw /\ obj'.audio = obj.audio /\ obj'.processed = obj.processed
      BY <1>0, <1>8 DEF Strip, Tidy, Objects
    <2> QED BY <1>8, <1>o, <2>1, <2>2, HeardByOne DEF Strip, Tidy, c
  <1>9. CASE ClaimCaptureAppend(d) \/ CompleteCaptureAppend(d)
    <2>1. Heard(row') => Heard(row)
      <3>1. /\ Heard([row EXCEPT !.held = TRUE, !.leased = TRUE]) => Heard(row)
            /\ Heard([row EXCEPT !.status = "appended", !.done = TRUE]) => Heard(row)
        BY <1>0, HeardFields
      <3> QED BY <1>9, <3>1 DEF ClaimCaptureAppend, CompleteCaptureAppend
    <2>2. mem'[d].copy \in {row', row, c}
      <3>1. \A k, t, p : Answer(d, k, t, p) => mem'[d].copy = k
        BY <1>0 DEF Answer, DeliveryTypes, Memory
      <3>2. \A k, p : Leave(d, k, p) => mem'[d].copy = k
        BY <1>0 DEF Leave, Bare, NoMemory, DeliveryTypes
      <3> QED BY <1>9, <3>1, <3>2 DEF ClaimCaptureAppend, CompleteCaptureAppend, c
    <2> QED BY <1>9, <1>k, <2>1, <2>2 DEF ClaimCaptureAppend, CompleteCaptureAppend
  <1>10. CASE Land(d) \/ CheckNote(d) \/ MissingObject(d)
    <2>1. mem'[d].copy = c
      BY <1>0, <1>10 DEF Land, CheckNote, MissingObject, Answer, Leave, Bare, NoMemory,
                         DeliveryTypes, Memory, c
    <2> QED BY <1>10, <1>k, <2>1 DEF Land, CheckNote, MissingObject
  <1>11. CASE ReleaseAppendClaim(d)
    <2> DEFINE free == [c EXCEPT !.held = FALSE, !.leased = FALSE]
    <2>1. /\ Heard(free) => Heard(c)
          /\ Heard([c EXCEPT !.status = "failed"]) => Heard(c)
          /\ Heard([free EXCEPT !.status = "failed"]) => Heard(c)
      <3>1. free \in Row /\ (Heard(free) => Heard(c))
        BY <1>0, RowChanges, HeardFields DEF Statuses, Terminal
      <3>2. Heard([free EXCEPT !.status = "failed"]) => Heard(free)
        BY <3>1, HeardFields
      <3>3. Heard([c EXCEPT !.status = "failed"]) => Heard(c)
        BY <1>0, HeardFields
      <3> QED BY <3>1, <3>2, <3>3
    <2>2. /\ row' \in {row, free}
          /\ mem'[d].copy \in {c, free, [c EXCEPT !.status = "failed"],
                               [free EXCEPT !.status = "failed"]}
      <3>1. \A k, p : Leave(d, k, p) => mem'[d].copy = k
        BY <1>0 DEF Leave, Bare, NoMemory, DeliveryTypes
      <3> QED BY <1>11, <3>1 DEF ReleaseAppendClaim, PutCapture, c
    <2> HIDE DEF free
    <2> QED BY <1>11, <1>k, <2>1, <2>2 DEF ReleaseAppendClaim
  <1>12. CASE Finish(d) \/ Conceded(d)
    <2>1. Heard(mem'[d].copy) => Heard(c)
      BY <1>12, <1>e DEF Finish, Conceded, c
    <2> QED BY <1>12, <1>m, <2>1 DEF Finish, Conceded
  <1>13. CASE VerifyPeaks(d)
    <2>1. Heard([c EXCEPT !.peaks = FALSE, !.fresh = TRUE]) => Heard(c)
      BY <1>0, HeardFields
    <2>2. Heard(row') => Heard(row) \/ Heard(c)
      BY <1>13, <2>1 DEF VerifyPeaks, c
    <2>3. Heard(mem'[d].copy) => Heard(row) \/ Heard(c)
      <3>1. Remember(d, row) => mem'[d].copy = row
        BY <1>0 DEF Remember, DeliveryTypes, Memory
      <3> QED BY <1>13, <1>e, <3>1 DEF VerifyPeaks
    <2> QED BY <1>13, <1>k, <2>2, <2>3 DEF VerifyPeaks
  <1>14. CASE Failed(d)
    <2>1. Heard([row EXCEPT !.status = "failed", !.fresh = TRUE]) => Heard(row)
      BY <1>0, HeardFields
    <2> QED BY <1>14, <1>m, <1>e, <2>1 DEF Failed
  <1>15. CASE Fault(d) \/ Crash(d)
    <2>1. Heard(mem'[d].copy) => Heard(c)
      BY <1>0, <1>15, <1>e, <1>l DEF Fault, Crash, c
    <2> QED BY <1>15, <1>k, <2>1 DEF Fault, Crash
  <1> QED
    BY <1>1, <1>2, <1>3, <1>4, <1>5, <1>6, <1>7, <1>8, <1>9, <1>10, <1>11, <1>12, <1>13,
       <1>14, <1>15 DEF Run

\* The same of a request's step, if no request deletes.
LEMMA HeardRequest ==
    ASSUME TypeOK, PromiseInv, NobodyDeletes, ~MayBeDeleted, NEW r \in Requests,
           Handle(r) \/ Operation(r) \/ InvokeFails(r) \/ RequestDies(r)
    PROVE  HeardStep /\ NobodyDeletes'
  <1>0. /\ rpc \in [Requests -> RequestPC] /\ prior \in [Requests -> Row] /\ row \in Row
        /\ DeliveryTypes /\ obj \in Objects /\ prior[r] \in Row /\ ~Heard(NoRow)
    BY HeardFields, EmptyValues DEF TypeOK, RequestTypes, RowTypes
  <1>1. rpc[r] \notin {"cut", "unlink", "drop"}
    BY DEF NobodyDeletes
  <1>2. NobodyDeletes'
    <2>1. \A q \in Requests : rpc'[q] = rpc[q] \/ rpc'[q] \notin {"cut", "unlink", "drop"}
      BY <1>0, <1>1
         DEF Handle, Operation, InvokeFails, RequestDies, PutText, DiscardEmptyRow, Invoke,
             Rollback, CutParagraph, Unlink, DeleteRow, IngestText, RetryCapture,
             SetCaptureTarget, RetranscribeCapture, DeleteCapture, Reset, Answered
    <2> QED BY <2>1 DEF NobodyDeletes
  <1>3. \A x \in Deliveries : Heard(mem'[x].copy) => Heard(mem[x].copy)
    <2>1. CASE UNCHANGED mem
      BY <2>1
    <2>2. ASSUME NEW d \in Deliveries, Queue(d, "api")
          PROVE  \A x \in Deliveries : Heard(mem'[x].copy) => Heard(mem[x].copy)
      <3>1. /\ mem'[d].copy = NoRow
            /\ \A x \in Deliveries \ {d} : mem'[x] = mem[x]
        BY <1>0, <2>2 DEF Queue, DeliveryTypes, NoMemory
      <3> QED BY <1>0, <3>1
    <2> QED BY <1>1, <2>1, <2>2
            DEF Handle, Operation, InvokeFails, RequestDies, PutText, DiscardEmptyRow, Invoke,
                Rollback, IngestText, RetryCapture, SetCaptureTarget, RetranscribeCapture,
                DeleteCapture, Reset, EnvUnchanged, CutParagraph, Unlink, DeleteRow
  <1>4. \A q \in Requests : prior'[q] \in {prior[q], row, NoRow}
    BY <1>0
       DEF Handle, Operation, InvokeFails, RequestDies, PutText, DiscardEmptyRow, Invoke,
           Rollback, CutParagraph, Unlink, DeleteRow, IngestText, RetryCapture,
           SetCaptureTarget, RetranscribeCapture, DeleteCapture, Reset, Answered, EnvUnchanged
  <1>5. Heard(row') => Heard(row) \/ Heard(prior[r])
    <2>1. CASE UNCHANGED row
      BY <2>1
    <2>2. CASE DropRow
      BY <2>2, <1>0 DEF DropRow, Heard, NoRow
    <2>3. CASE Rollback(r)
      BY <2>3 DEF Rollback, RowUnchanged
    <2>4. CASE IngestText(r)
      <3>1. row'.audio = FALSE
        BY <2>4 DEF IngestText, NewRow, NoRow
      <3> QED BY <3>1 DEF Heard
    <2>5. CASE RetryCapture(r) \/ SetCaptureTarget(r) \/ RetranscribeCapture(r)
      BY <1>0, <2>5
         DEF RetryCapture, SetCaptureTarget, RetranscribeCapture, Reset, Heard, Row
    <2> QED BY <1>1, <2>1, <2>2, <2>3, <2>4, <2>5
            DEF Handle, Operation, InvokeFails, RequestDies, PutText, DiscardEmptyRow, Invoke,
                CutParagraph, Unlink, DeleteRow, DeleteCapture, RowUnchanged
  <1>6. SomebodyHeard' => SomebodyHeard
    BY <1>0, <1>3, <1>4, <1>5 DEF SomebodyHeard
  <1>7. UNCHANGED linkLive
    BY DEF Handle, Operation, InvokeFails, RequestDies, PutText, DiscardEmptyRow, Invoke,
           Rollback, CutParagraph, Unlink, DeleteRow, IngestText, RetryCapture,
           SetCaptureTarget, RetranscribeCapture, DeleteCapture, Reset
  <1>8. \/ UNCHANGED obj
        \/ /\ obj'.audio = obj.audio /\ obj'.processed = obj.processed
           /\ obj'.raw # NoWords
    <2>1. CASE PutText(r)
      BY <1>0, <2>1 DEF PutText, Objects, NoWords
    <2> QED BY <1>1, <2>1
            DEF Handle, Operation, InvokeFails, RequestDies, DiscardEmptyRow, Invoke,
                Rollback, CutParagraph, Unlink, DeleteRow, IngestText, RetryCapture,
                SetCaptureTarget, RetranscribeCapture, DeleteCapture, Reset
  <1> QED BY <1>2, <1>6, <1>7, <1>8 DEF HeardStep

\* And of everything else.
LEMMA HeardEnvironment ==
    ASSUME TypeOK, NobodyDeletes, BeginCapture \/ Environment \/ UNCHANGED vars
    PROVE  HeardStep /\ NobodyDeletes'
  <1>0. DeliveryTypes /\ obj \in Objects /\ row \in Row /\ ~Heard(NoRow)
    BY HeardFields, EmptyValues DEF TypeOK, RowTypes
  <1>1. UNCHANGED <<rpc, prior>>
    BY DEF Environment, Clock, BeginCapture, UploadLands, PeaksLand, Redeliver, Reap, Age,
           LeaseEnds, LinkEnds, AudioExpires, ArchiveNote, RestoreNote, PurgeNote, vars
  <1>2. NobodyDeletes'
    BY <1>1 DEF NobodyDeletes
  <1>3. \A x \in Deliveries : Heard(mem'[x].copy) => Heard(mem[x].copy)
    <2>1. CASE UNCHANGED mem
      BY <2>1
    <2>2. ASSUME NEW d \in Deliveries, NEW by, Queue(d, by)
          PROVE  \A x \in Deliveries : Heard(mem'[x].copy) => Heard(mem[x].copy)
      <3>1. /\ mem'[d].copy = NoRow
            /\ \A x \in Deliveries \ {d} : mem'[x] = mem[x]
        BY <1>0, <2>2 DEF Queue, DeliveryTypes, NoMemory
      <3> QED BY <1>0, <3>1
    <2> QED BY <2>1, <2>2
            DEF Environment, Clock, BeginCapture, UploadLands, PeaksLand, Redeliver, Reap, Age,
                LeaseEnds, LinkEnds, AudioExpires, ArchiveNote, RestoreNote, PurgeNote, vars,
                EnvUnchanged
  <1>4. Heard(row') => Heard(row)
    <2>1. CASE UNCHANGED row
      BY <2>1
    <2>2. CASE BeginCapture
      <3>1. row'.raw = FALSE
        BY <2>2 DEF BeginCapture, NewRow, NoRow
      <3> QED BY <3>1 DEF Heard
    <2>3. CASE DropRow
      BY <2>3 DEF DropRow, Heard, NoRow
    <2>4. CASE Age \/ LeaseEnds \/ Reap
      BY <1>0, <2>1, <2>4 DEF Age, LeaseEnds, Reap, Heard, Row, RowUnchanged
    <2> QED BY <2>1, <2>2, <2>3, <2>4
            DEF Environment, Clock, UploadLands, PeaksLand, Redeliver, LinkEnds, AudioExpires,
                ArchiveNote, RestoreNote, PurgeNote, vars, RowUnchanged
  <1>5. SomebodyHeard' => SomebodyHeard
    BY <1>1, <1>3, <1>4 DEF SomebodyHeard
  <1>6. row'.status = "unborn" => (linkLive' => linkLive)
    <2>1. CASE BeginCapture
      <3>1. row'.status = "uploaded"
        BY <2>1 DEF BeginCapture, NewRow, NoRow
      <3> QED BY <3>1
    <2> QED BY <2>1
            DEF Environment, Clock, UploadLands, PeaksLand, Redeliver, Reap, Age,
                LeaseEnds, LinkEnds, AudioExpires, ArchiveNote, RestoreNote, PurgeNote, vars
  <1>7. /\ obj'.processed => obj.processed
        /\ obj'.raw = NoWords => obj.raw = NoWords \/ row'.status = "deleted"
        /\ obj'.audio => obj.audio \/ linkLive
        /\ obj.audio /\ ~obj'.audio => UNCHANGED obj.raw \/ row'.status \in Gone
    <2>1. CASE UNCHANGED obj
      BY <2>1
    <2>2. CASE UploadLands \/ PeaksLand \/ AudioExpires
      BY <1>0, <2>2 DEF UploadLands, PeaksLand, AudioExpires, Objects
    <2>3. CASE DropRow /\ obj' = NoObjects
      BY <2>3 DEF DropRow, NoRow, NoObjects, Gone
    <2> QED BY <2>1, <2>2, <2>3
            DEF Environment, Clock, BeginCapture, Redeliver, Reap, Age,
                LeaseEnds, LinkEnds, ArchiveNote, RestoreNote, PurgeNote, vars
  <1> QED BY <1>2, <1>5, <1>6, <1>7 DEF HeardStep

\* A step of CaptureLife's kind neither makes a capture unborn nor brings a
\* deleted one back.
LEMMA OneWay ==
    ASSUME LifeStep
    PROVE  /\ row'.status = "unborn" => row.status = "unborn"
           /\ row.status = "deleted" => row'.status = "deleted"
  BY DEF LifeStep, Pending, Terminal, Exists, Gone

\* Every step keeps the invariant, and the audio goes when its words are there.
LEMMA HeldNext ==
    ASSUME ~MayBeDeleted, TypeOK, TypeOK', PromiseInv, HeldInv, [Next]_vars
    PROVE  /\ HeldInv'
           /\ obj.audio /\ obj.processed /\ ~obj'.audio /\ row'.status \notin Gone
                  => obj'.raw # NoWords
  <1>1. HeardStep /\ NobodyDeletes' /\ LifeStep
    <2>1. CASE \E d \in Deliveries : Run(d) \/ Fault(d) \/ Crash(d)
      <3>1. UNCHANGED rpc
        BY <2>1, OwnStep DEF TypeOK
      <3> QED BY <2>1, <3>1, HeardRun, PromiseRun DEF HeldInv, NobodyDeletes
    <2>2. CASE \E r \in Requests : Handle(r) \/ Operation(r) \/ InvokeFails(r) \/ RequestDies(r)
      BY <2>2, HeardRequest, PromiseRequest DEF HeldInv
    <2>3. CASE BeginCapture \/ Environment
      BY <2>3, HeardEnvironment, PromiseEnvironment DEF HeldInv
    <2>4. CASE UNCHANGED vars
      <3>1. LifeStep
        BY <2>4 DEF LifeStep, vars
      <3> QED BY <2>4, <3>1, HeardEnvironment DEF HeldInv
    <2> QED BY <2>1, <2>2, <2>3, <2>4 DEF Next
  <1>2. NotYet'
    BY <1>1, OneWay DEF HeardStep, HeldInv, NotYet
  <1>3. WordsHeld'
    BY <1>1, OneWay DEF HeardStep, HeldInv, NotYet, WordsHeld
  <1>4. obj.audio /\ obj.processed /\ ~obj'.audio /\ row'.status \notin Gone => obj'.raw # NoWords
    BY <1>1, OneWay DEF HeardStep, HeldInv, NotYet, WordsHeld, Gone
  <1> QED BY <1>1, <1>2, <1>3, <1>4 DEF HeldInv

\* At first there is nothing.
LEMMA HeldInit == Init => HeldInv
  <1> SUFFICES ASSUME Init PROVE HeldInv
    OBVIOUS
  <1>1. ~Heard(NoRow) /\ NoObjects.audio = FALSE /\ NoObjects.processed = FALSE
    BY HeardFields, EmptyValues DEF NoObjects
  <1>2. /\ row = NoRow /\ obj = NoObjects /\ linkLive = FALSE
        /\ \A d \in Deliveries : mem[d].copy = NoRow
        /\ \A r \in Requests : prior[r] = NoRow /\ rpc[r] = "idle"
    BY DEF Init, NoMemory
  <1> QED BY <1>1, <1>2 DEF HeldInv, WordsHeld, NotYet, NobodyDeletes, SomebodyHeard

\* When the lifecycle rule takes a recording, its words are in S3: for any
\* number of invocations, requests and notes, any faults and any operations of
\* the API, provided nobody deletes the recording itself.
THEOREM WordsAreHeldAlways ==
    ASSUME ~MayBeDeleted
    PROVE  Spec => WordsOutliveAudio
  <1>1. TypeOK /\ PromiseInv /\ HeldInv /\ [Next]_vars =>
            /\ TypeOK' /\ PromiseInv' /\ HeldInv'
            /\ [obj.audio /\ obj.processed /\ ~obj'.audio /\ row'.status \notin Gone
                   => obj'.raw # NoWords]_vars
    BY TypeNext, PromiseNext, HeldNext
  <1>2. Init => TypeOK /\ PromiseInv /\ HeldInv
    BY TypeInit, PromiseInit, HeldInit
  <1> QED BY <1>1, <1>2, PTL DEF Spec, WordsOutliveAudio

-----------------------------------------------------------------------------
(* One recording dictates into one note.  Two deliveries may route it      *)
(* apart; the one that loses the write of the row concedes.  What has to   *)
(* hold is that whoever is past that write is aiming at the note the row   *)
(* names, and that the row's note, once somebody aims at it, is not        *)
(* changed: it is only ever written by those who found none there.         *)

\* Past the write of "appending", on the way to the note.
Aiming(d) == pc[d] \in {"claim", "land"}
Destined(n) ==
    \/ landed[n] # NoWords
    \/ \E d \in Deliveries : Aiming(d) /\ mem[d].dest = n

OneAim ==
    \A n \in Notes : Destined(n) =>
        /\ row.status # "deleted" => row.note = n
        /\ \A m \in Notes : Destined(m) => m = n

\* A row that may still be put back names that note too.
RollbackAims ==
    \A r \in Requests : r \in current => \A n \in Notes : Destined(n) => prior[r].note = n

\* A note a copy names is there, in the trash perhaps.
There(c, f) == c.note # None => f[c.note] # "absent"
RowsThere == There(row, note) /\ \A r \in Requests : There(prior[r], note)

\* What an invocation knows of its destination.
Fits(d) ==
    /\ There(mem[d].copy, note)
    /\ pc[d] \in {"strip", "clean", "tidy", "append"} =>
           mem[d].dest = mem[d].copy.note /\ mem[d].copy.note # None
    /\ pc[d] = "destination" => mem[d].copy.note # None
    /\ pc[d] = "write" /\ ~IsTerminal(mem[d].copy) => mem[d].copy.note # None
    /\ pc[d] \in {"route", "ask"} => mem[d].copy.note = None
    /\ d \in current => \/ mem[d].copy.note = row.note
                        \/ pc[d] = "write" /\ row.note = None
                        \/ pc[d] = "failed"

OneInv == OneAim /\ RollbackAims /\ RowsThere /\ \A d \in Deliveries : Fits(d)

\* No note is purged.
NotesKept == \A n \in Notes : note[n] # "absent" => note'[n] # "absent"

\* A copy that names a note that is there goes on doing so.
LEMMA StaysThere ==
    ASSUME NotesKept, NEW c \in Row, There(c, note)
    PROVE  There(c, note')
  <1>1. c.note \in Notes \cup {None}
    BY RowFields
  <1> QED BY <1>1 DEF NotesKept, There

\* A step of an invocation that leaves the row alone.
LEMMA OneLooksOn ==
    ASSUME TypeOK, OneInv, NotesKept, NEW d \in Deliveries, Only(d), UNCHANGED <<row, prior>>,
           current' \subseteq current \cup {d}, Fits(d)',
           \A n \in Notes : landed'[n] # NoWords =>
               landed[n] # NoWords \/ (pc[d] = "land" /\ mem[d].dest = n),
           pc'[d] \in {"claim", "land"} => Aiming(d) /\ mem'[d].dest = mem[d].dest
    PROVE  OneInv'
  <1>0. /\ row \in Row /\ \A r \in Requests : prior[r] \in Row
        /\ \A x \in Deliveries : mem[x].copy \in Row
    BY MemoryFields DEF TypeOK, RowTypes, RequestTypes, DeliveryTypes
  <1>1. \A n \in Notes : Destined(n)' => Destined(n)
    <2>1. \A x \in Deliveries : Aiming(x)' => Aiming(x) /\ mem'[x].dest = mem[x].dest
      BY DEF Only, Aiming
    <2> QED BY <2>1 DEF Destined, Aiming
  <1>2. OneAim'
    BY <1>1 DEF OneInv, OneAim
  <1>3. RollbackAims'
    BY <1>1, ActorsAssumption DEF OneInv, RollbackAims
  <1>4. RowsThere'
    BY <1>0, StaysThere DEF OneInv, RowsThere
  <1>5. ASSUME NEW x \in Deliveries, x # d PROVE Fits(x)'
    <2>1. pc'[x] = pc[x] /\ mem'[x] = mem[x] /\ Fits(x)
      BY <1>5 DEF Only, OneInv
    <2>2. There(mem[x].copy, note')
      BY <1>0, <2>1, StaysThere DEF Fits
    <2> QED BY <1>5, <2>1, <2>2 DEF Fits, IsTerminal
  <1> QED BY <1>2, <1>3, <1>4, <1>5 DEF OneInv

\* One that writes the row: over the same note, or over none.
LEMMA OneWrites ==
    ASSUME TypeOK, OneInv, NotesKept, NEW d \in Deliveries, Only(d), UNCHANGED <<prior, landed>>,
           row.status # "deleted", current' \subseteq {d}, Fits(d)',
           row'.note = row.note \/ row.note = None, There(row', note'),
           pc'[d] \in {"claim", "land"} =>
               mem'[d].dest = row'.note \/ (Aiming(d) /\ mem'[d].dest = mem[d].dest)
    PROVE  OneInv'
  <1>0. /\ \A r \in Requests : prior[r] \in Row
        /\ \A x \in Deliveries : mem[x].copy \in Row
    BY MemoryFields DEF TypeOK, RequestTypes, DeliveryTypes
  <1>1. \A n \in Notes : Destined(n) => row'.note = n
    BY NotesAssumption DEF OneInv, OneAim
  <1>2. \A n \in Notes : Destined(n)' => row'.note = n
    <2>1. \A x \in Deliveries : Aiming(x)' =>
             \/ Aiming(x) /\ mem'[x].dest = mem[x].dest
             \/ mem'[x].dest = row'.note
      BY DEF Only, Aiming
    <2> QED BY <1>1, <2>1 DEF Destined
  <1>3. OneAim' /\ RollbackAims'
    BY <1>2, ActorsAssumption DEF OneAim, RollbackAims
  <1>4. RowsThere'
    BY <1>0, StaysThere DEF OneInv, RowsThere
  <1>5. ASSUME NEW x \in Deliveries, x # d PROVE Fits(x)'
    <2>1. pc'[x] = pc[x] /\ mem'[x] = mem[x] /\ Fits(x) /\ x \notin current'
      BY <1>5 DEF Only, OneInv
    <2>2. There(mem[x].copy, note')
      BY <1>0, <2>1, StaysThere DEF Fits
    <2> QED BY <1>5, <2>1, <2>2 DEF Fits, IsTerminal
  <1> QED BY <1>3, <1>4, <1>5 DEF OneInv

\* A step that is no invocation's: at most it queues one.
LEMMA OneOutside ==
    ASSUME TypeOK, OneInv, NotesKept,
           \A x \in Deliveries : \/ pc'[x] = pc[x] /\ mem'[x] = mem[x]
                                 \/ /\ pc'[x] = "queued" /\ mem'[x].copy = NoRow
                                    /\ x \notin current',
           \A n \in Notes : landed'[n] # NoWords => landed[n] # NoWords,
           There(row', note'), \A r \in Requests : There(prior'[r], note'),
           \A n \in Notes : Destined(n) /\ row'.status # "deleted" => row'.note = n,
           \A x \in Deliveries : x \in current' => x \in current /\ row'.note = row.note,
           \A r \in Requests, n \in Notes : r \in current' /\ Destined(n) => prior'[r].note = n
    PROVE  OneInv'
  <1>0. \A x \in Deliveries : mem[x].copy \in Row
    BY MemoryFields DEF TypeOK, DeliveryTypes
  <1>1. \A n \in Notes : Destined(n)' => Destined(n)
    <2>1. \A x \in Deliveries : Aiming(x)' => Aiming(x) /\ mem'[x].dest = mem[x].dest
      BY DEF Aiming
    <2> QED BY <2>1 DEF Destined
  <1>2. OneAim'
    BY <1>1 DEF OneInv, OneAim
  <1>3. RollbackAims' /\ RowsThere'
    BY <1>1 DEF RollbackAims, RowsThere
  <1>4. ASSUME NEW x \in Deliveries PROVE Fits(x)'
    <2>1. CASE pc'[x] = pc[x] /\ mem'[x] = mem[x]
      <3>1. There(mem[x].copy, note') /\ Fits(x)
        BY <1>0, StaysThere DEF OneInv, Fits
      <3> QED BY <2>1, <3>1 DEF Fits, IsTerminal
    <2>2. CASE pc'[x] = "queued" /\ mem'[x].copy = NoRow /\ x \notin current'
      BY <2>2 DEF Fits, There, NoRow
    <2> QED BY <2>1, <2>2
  <1> QED BY <1>2, <1>3, <1>4 DEF OneInv

\* Changing another field of a copy leaves its destination.
LEMMA NoteFields ==
    ASSUME NEW c \in Row
    PROVE  /\ \A s : [c EXCEPT !.status = s].note = c.note
           /\ \A s : [c EXCEPT !.fresh = s].note = c.note
           /\ \A s, t : [c EXCEPT !.status = s, !.fresh = t].note = c.note
           /\ \A s, t : [c EXCEPT !.status = s, !.done = t].note = c.note
           /\ \A s, t : [c EXCEPT !.peaks = s, !.fresh = t].note = c.note
           /\ \A s, t : [c EXCEPT !.held = s, !.leased = t].note = c.note
           /\ \A s, t : [c EXCEPT !.raw = s, !.routed = t].note = c.note
           /\ \A s, t : [c EXCEPT !.clean = s, !.status = t].note = c.note
           /\ \A s : [c EXCEPT !.routed = s].note = c.note
           /\ \A s : [c EXCEPT !.leased = s].note = c.note
           /\ \A s : [c EXCEPT !.status = s].status = s
           /\ NoRow.note = None
  BY DEF Row, NoRow

\* What Fits asks where no stage is about to use the destination.
LEMMA FitsAnywhere ==
    ASSUME NEW d \in Deliveries, There(mem[d].copy, note)',
           pc'[d] \notin {"strip", "clean", "tidy", "append", "destination", "write", "route", "ask"},
           d \in current' => mem'[d].copy.note = row'.note \/ pc'[d] = "failed"
    PROVE  Fits(d)'
  BY DEF Fits

\* A write of the row from a copy, won or conceded.
LEMMA OnePersist ==
    ASSUME TypeOK, PromiseInv, OneInv, NotesKept, NEW d \in Deliveries, NEW new \in Row,
           NEW p \in {"hear", "ask", "tidy", "claim", "finished", "destination"},
           Persist(d, new, p), Only(d), There(new, note),
           d \in current => new.note = row.note \/ row.note = None,
           p = "ask" => new.note = None,
           p = "destination" => new.note # None,
           p \in {"tidy", "claim"} => mem[d].dest = new.note /\ new.note # None
    PROVE  OneInv'
  <1>0. /\ DeliveryTypes /\ row \in Row /\ mem[d].copy \in Row
        /\ mem \in [Deliveries -> Memory] /\ pc \in [Deliveries -> Running \cup {"idle", "queued"}]
    BY MemoryFields DEF TypeOK, RowTypes, DeliveryTypes
  <1>n. UNCHANGED <<note, landed, prior>>
    BY DEF Persist
  <1>1. CASE PutCapture(d, [new EXCEPT !.fresh = TRUE]) /\ Remember(d, row') /\ Goto(d, p)
    <2>1. /\ row' = [new EXCEPT !.fresh = TRUE] /\ current' = {d} /\ d \in current
          /\ mem'[d].copy = row' /\ mem'[d].dest = mem[d].dest /\ pc'[d] = p
      BY <1>0, <1>1 DEF PutCapture, Remember, Goto, Memory
    <2>2. row'.note = new.note
      BY <2>1, NoteFields
    <2>3. row.status # "deleted"
      BY <2>1 DEF PromiseInv, GoneIsBare, Exists, Gone
    <2>4. There(row', note')
      BY <1>n, <2>2 DEF There
    <2>5. Fits(d)'
      BY <2>1, <2>2, <2>4 DEF Fits
    <2>6. p = "claim" => mem'[d].dest = row'.note
      BY <2>1, <2>2
    <2> QED BY <1>n, <2>1, <2>2, <2>3, <2>4, <2>5, <2>6, OneWrites
  <1>2. CASE Concede(d)
    <2>1. /\ UNCHANGED row /\ current' \subseteq current \cup {d}
          /\ \/ pc'[d] = "conceded" /\ mem'[d].copy = row
             \/ pc'[d] = "failed" /\ mem'[d].copy = mem[d].copy
      BY <1>0, <1>2, Moves, EmptyValues DEF Concede, At
    <2>2. There(mem'[d].copy, note')
      BY <1>n, <2>1 DEF OneInv, RowsThere, Fits, There
    <2>3. Fits(d)'
      BY <2>1, <2>2, FitsAnywhere
    <2> QED BY <1>n, <2>1, <2>3, OneLooksOn
  <1> QED BY <1>1, <1>2 DEF Persist

\* An invocation's step, one leaf for each action.
LEMMA OneRun ==
    ASSUME TypeOK, PromiseInv, OneInv, NotesKept, NEW d \in Deliveries,
           Run(d) \/ Fault(d) \/ Crash(d)
    PROVE  OneInv'
  <1> DEFINE c == mem[d].copy
  <1>0. /\ DeliveryTypes /\ row \in Row /\ c \in Row /\ Source(d) \in Text /\ NoWords \in Text
        /\ mem \in [Deliveries -> Memory] /\ pc \in [Deliveries -> Running \cup {"idle", "queued"}]
        /\ mem[d] \in Memory /\ mem[d].text \in Text /\ c.note \in Notes \cup {None}
        /\ row.note \in Notes \cup {None} /\ NoRow \in Row
    BY MemoryFields, SourceIsText, EmptyValues, RowFields DEF TypeOK, RowTypes, DeliveryTypes
  <1>o. Only(d) /\ UNCHANGED prior
    BY <1>0, OwnStep
  <1>f. Fits(d) /\ There(c, note) /\ There(row, note)
    BY DEF OneInv, Fits, RowsThere
  <1>c. d \in current => row.status # "deleted" /\ pc[d] \in Running
    BY DEF PromiseInv, GoneIsBare, Exists, Gone, DeliveriesAgree, CopyAgrees
  <1>g. d \in current => \/ c.note = row.note
                         \/ pc[d] = "write" /\ row.note = None
                         \/ pc[d] = "failed"
    BY <1>f DEF Fits
  <1>m. NoMemory.copy = NoRow /\ NoRow.note = None
    BY NoteFields, EmptyValues DEF NoMemory
  <1>e. End(d) \/ Again(d) => mem'[d].copy = NoRow /\ pc'[d] \in {"idle", "queued"}
    BY <1>0, <1>m DEF End, Again, NoMemory, Goto
  <1>s. \A k \in Row : There(k, note) => There(k, note')
    BY StaysThere
  <1>n. There(NoRow, note')
    BY <1>m DEF There
  <1>v. ASSUME NEW s \in Terminal, Verdict(d, s), UNCHANGED <<row, current, landed>>,
               c.note = row.note \/ d \notin current
        PROVE  OneInv'
    <2>1. mem'[d].copy = [c EXCEPT !.status = s] /\ pc'[d] = "write"
      BY <1>0, <1>v, Moves DEF At, c
    <2>2. mem'[d].copy.note = c.note /\ mem'[d].copy.status = s
      BY <1>0, <2>1, NoteFields
    <2>3. There(c, note')
      BY <1>0, <1>f, <1>s
    <2>4. Fits(d)'
      BY <1>v, <2>1, <2>2, <2>3 DEF Fits, There, IsTerminal
    <2> QED BY <1>o, <1>v, <2>1, <2>4, OneLooksOn
  <1> HIDE DEF c
  \* An invocation that leaves the row alone and forgets or keeps its copy.
  <1>i. ASSUME UNCHANGED <<row, landed>>, current' \subseteq current \cup {d},
               mem'[d].copy \in {c, row, NoRow},
               pc'[d] \in {"idle", "queued", "failed", "conceded", "finished", "check", "complete",
                          "unclaim", "peaks"},
               d \in current' => mem'[d].copy.note = row.note \/ pc'[d] = "failed"
        PROVE  OneInv'
    <2>1. There(mem'[d].copy, note')
      BY <1>0, <1>f, <1>i, <1>n, <1>s
    <2>2. Fits(d)'
      BY <1>i, <2>1, FitsAnywhere
    <2> QED BY <1>o, <1>i, <2>2, OneLooksOn
  <1>1. CASE StartRun(d)
    <2>1. d \notin current
      BY <1>1, <1>c DEF StartRun, Running, Stages
    <2>2. CASE Remember(d, row) /\ Goto(d, FirstStage(row)) /\ current' = current \cup {d}
      <3>1. mem'[d].copy = row /\ pc'[d] = FirstStage(row)
        BY <1>0, <2>2, Moves DEF At
      <3>2. There(row, note')
        BY <1>0, <1>f, <1>s
      <3>3. Fits(d)'
        BY <1>1, <3>1, <3>2 DEF Fits, FirstStage, StartRun
      <3>4. pc'[d] \notin {"claim", "land"}
        BY <3>1 DEF FirstStage
      <3> QED BY <1>1, <1>o, <2>2, <3>3, <3>4, OneLooksOn DEF StartRun
    <2>3. CASE End(d) /\ UNCHANGED current
      BY <1>1, <1>e, <1>i, <2>1, <2>3 DEF StartRun
    <2>4. CASE Goto(d, "failed") /\ UNCHANGED <<mem, current>>
      <3>1. mem'[d].copy = c /\ pc'[d] = "failed"
        BY <1>0, <2>4 DEF Goto, c
      <3> QED BY <1>1, <1>i, <2>1, <2>4, <3>1 DEF StartRun
    <2> QED BY <1>1, <2>2, <2>3, <2>4 DEF StartRun
  <1>2. CASE RejectOversized(d)
    <2>1. d \notin current
      BY <1>2, <1>c DEF RejectOversized, Running, Stages
    <2>2. CASE /\ Remember(d, [row EXCEPT !.status = "failed"]) /\ Goto(d, "write")
               /\ current' = current \cup {d}
      <3>1. [row EXCEPT !.status = "failed"] \in Row
        BY <1>0, RowFields DEF Statuses, Terminal
      <3>2. mem'[d].copy = [row EXCEPT !.status = "failed"] /\ pc'[d] = "write"
        BY <1>0, <2>2, <3>1, Moves DEF At
      <3>3. mem'[d].copy.note = row.note /\ mem'[d].copy.status = "failed"
        BY <1>0, <3>2, NoteFields
      <3>4. There(row, note')
        BY <1>0, <1>f, <1>s
      <3>5. Fits(d)'
        BY <1>2, <3>2, <3>3, <3>4 DEF Fits, There, IsTerminal, Terminal, RejectOversized
      <3> QED BY <1>2, <1>o, <2>2, <3>2, <3>5, OneLooksOn DEF RejectOversized
    <2>3. CASE End(d) /\ UNCHANGED current
      BY <1>2, <1>e, <1>i, <2>1, <2>3 DEF RejectOversized
    <2> QED BY <1>2, <2>2, <2>3 DEF RejectOversized
  <1>3. CASE Transcribe(d) \/ Route(d) \/ Clean(d) \/ Append(d)
    <2>1. PICK x \in Statuses, p \in {"hear", "ask", "tidy", "claim"} :
             /\ Persist(d, [c EXCEPT !.status = x], p)
             /\ pc[d] \in {"transcribe", "route", "clean", "append"}
             /\ p = "ask" => pc[d] = "route"
             /\ p \in {"tidy", "claim"} => pc[d] \in {"clean", "append"}
      BY <1>3 DEF Transcribe, Route, Clean, Append, SetStatus, Statuses, Pending, c
    <2> DEFINE new == [c EXCEPT !.status = x]
    <2>2. new \in Row /\ new.note = c.note
      BY <1>0, RowFields, NoteFields
    <2>3. There(new, note)
      BY <1>f, <2>2 DEF There
    <2>4. /\ p = "ask" => new.note = None
          /\ p \in {"tidy", "claim"} => mem[d].dest = new.note /\ new.note # None
      BY <1>f, <2>1, <2>2 DEF Fits, c
    <2>5. d \in current => new.note = row.note
      BY <1>g, <2>1, <2>2
    <2> HIDE DEF new
    <2>6. Persist(d, new, p) /\ p # "destination"
      BY <2>1 DEF new
    <2> QED BY <1>o, <2>2, <2>3, <2>4, <2>5, <2>6, OnePersist
  <1>4. CASE Write(d)
    <2>1. PICK p \in {"finished", "destination"} :
             Persist(d, c, p) /\ (p = "destination" => ~IsTerminal(c))
      BY <1>4 DEF Write, c
    <2>2. p = "destination" => c.note # None
      BY <1>4, <1>f, <2>1 DEF Write, Fits, c
    <2>3. d \in current => c.note = row.note \/ row.note = None
      BY <1>4, <1>g DEF Write
    <2> QED BY <1>0, <1>o, <1>f, <2>1, <2>2, <2>3, OnePersist
  <1>5. CASE Hear(d)
    <2> DEFINE lang == TranscriptionLanguage(d)
               words == [asked |-> c.asked, lang |-> lang, as |-> None]
               heard == [c EXCEPT !.raw = TRUE, !.lang = lang, !.status = "transcribed"]
               silent == [heard EXCEPT !.status = "no_content"]
    <2>1. d \in current => c.note = row.note
      BY <1>5, <1>g DEF Hear
    <2>2. /\ heard \in Row /\ silent \in Row
          /\ heard.note = c.note /\ silent.note = c.note /\ silent.status = "no_content"
      <3>1. lang \in Languages
        BY DEF TranscriptionLanguage, LanguageOf, Languages
      <3> QED BY <1>0, <3>1 DEF Row, Pending, Terminal
    <2>3. There(c, note') /\ pc[d] # "claim" /\ pc[d] # "land"
      BY <1>0, <1>5, <1>f, <1>s DEF Hear
    <2>4. ASSUME NEW k \in Row, At(d, k, "route") \/ At(d, k, "write"), k.note = c.note,
                 pc'[d] = "route" => c.note = None,
                 pc'[d] = "write" => k.note # None \/ IsTerminal(k)
          PROVE  OneInv'
      <3>1. mem'[d].copy = k /\ pc'[d] \in {"route", "write"}
        BY <2>4 DEF At
      <3>2. There(mem'[d].copy, note')
        BY <2>3, <2>4, <3>1 DEF There
      <3>3. d \in current' => mem'[d].copy.note = row'.note
        BY <1>5, <2>1, <2>4, <3>1 DEF Hear
      <3>4. Fits(d)'
        BY <2>4, <3>1, <3>2, <3>3 DEF Fits, IsTerminal
      <3> QED BY <1>5, <1>o, <3>1, <3>4, OneLooksOn DEF Hear
    <2>5. ASSUME NEW p \in {"route", "write"}, Goto(d, p),
                 mem' = [mem EXCEPT ![d] = Looked(d, [@ EXCEPT !.copy = heard, !.text = words])]
          PROVE  At(d, heard, p)
      <3>1. Looked(d, [mem[d] EXCEPT !.copy = heard, !.text = words]).copy = heard
        BY <1>0 DEF Looked, Memory
      <3> QED BY <1>0, <2>5, <3>1 DEF At, Goto
    <2>6. Leave(d, silent, "write") => At(d, silent, "write")
      BY <1>0, <2>2, Moves
    <2>7. IsTerminal(silent)
      BY <2>2 DEF IsTerminal, Terminal
    <2>8. \A status \in {"no_content", "failed"} : Verdict(d, status) /\ UNCHANGED obj => OneInv'
      BY <1>5, <1>v, <2>1 DEF Hear, Terminal, c
    <2> HIDE DEF heard, silent, words
    <2>9. CASE At(d, heard, IF c.note = None THEN "route" ELSE "write")
      BY <2>2, <2>4, <2>9 DEF At
    <2>10. CASE At(d, silent, "write")
      BY <2>2, <2>4, <2>7, <2>10 DEF At
    <2> QED BY <1>5, <2>5, <2>6, <2>8, <2>9, <2>10 DEF Hear, c, heard, silent, words, lang
  <1>6. CASE AskRouter(d)
    <2> DEFINE k == [c EXCEPT !.routed = TRUE]
    <2>1. c.note = None /\ (d \in current => row.note = None)
      BY <1>6, <1>f, <1>g DEF AskRouter, Fits, c
    <2>2. /\ k \in Row /\ k.note = None
          /\ \A n \in Notes : /\ [k EXCEPT !.note = n, !.status = "transcribed"] \in Row
                              /\ [k EXCEPT !.note = n, !.status = "transcribed"].note = n
          /\ [k EXCEPT !.status = "needs_target"] \in Row
          /\ [k EXCEPT !.status = "needs_target"].status = "needs_target"
          /\ [k EXCEPT !.status = "needs_target"].note = None
      BY <1>0, <2>1 DEF Row, Pending, Terminal
    <2> HIDE DEF k
    <2>3. ASSUME NEW new \in Row, mem'[d].copy = new, pc'[d] = "write", There(new, note'),
                 new.note # None \/ IsTerminal(new),
                 new.note = None \/ d \notin current \/ row.note = None
          PROVE  OneInv'
      <3>1. Fits(d)'
        BY <1>6, <2>1, <2>3 DEF Fits, IsTerminal, AskRouter
      <3> QED BY <1>6, <1>o, <2>3, <3>1, OneLooksOn DEF AskRouter
    <2>4. CASE Verdict(d, "failed")
      BY <1>6, <1>v, <2>1, <2>4 DEF AskRouter, Terminal
    <2>5. ASSUME NEW n \in Notes, NEW t, note'[n] = "active", Goto(d, "write"),
                 mem' = [mem EXCEPT ![d].copy = [k EXCEPT !.note = n, !.status = "transcribed"],
                                    ![d].text = t, ![d].dest = n, ![d].seen = "active"]
          PROVE  OneInv'
      <3> DEFINE new == [k EXCEPT !.note = n, !.status = "transcribed"]
      <3>1. mem'[d].copy = new /\ pc'[d] = "write"
        BY <1>0, <2>5 DEF Goto, Memory
      <3>2. There(new, note') /\ new.note # None /\ new \in Row
        BY <2>2, <2>5, NotesAssumption DEF There
      <3> HIDE DEF new
      <3> QED BY <2>1, <2>3, <3>1, <3>2
    <2>6. CASE /\ Goto(d, "write")
               /\ mem' = [mem EXCEPT ![d] = Bare(d, [k EXCEPT !.status = "needs_target"])]
      <3>1. Leave(d, [k EXCEPT !.status = "needs_target"], "write")
        BY <2>6 DEF Leave
      <3>2. At(d, [k EXCEPT !.status = "needs_target"], "write")
        BY <1>0, <2>2, <3>1, Moves
      <3> QED BY <2>2, <2>3, <3>2 DEF At, There, IsTerminal, Terminal
    <2>7. \/ Verdict(d, "failed")
          \/ /\ Goto(d, "write")
             /\ mem' = [mem EXCEPT ![d] = Bare(d, [k EXCEPT !.status = "needs_target"])]
          \/ /\ Goto(d, "write")
             /\ \E n \in Notes, t \in Text :
                   /\ note'[n] = "active"
                   /\ mem' = [mem EXCEPT
                         ![d].copy = [k EXCEPT !.note = n, !.status = "transcribed"],
                         ![d].text = t, ![d].dest = n, ![d].seen = "active"]
      <3> DEFINE text == IF mem[d].text # NoWords THEN mem[d].text ELSE obj.raw
      <3>1. text \in Text /\ OwnNote \in Notes
        BY <1>0, ObjectFields, NotesAssumption DEF TypeOK
      <3> HIDE DEF text
      <3>2. note' = [note EXCEPT ![OwnNote] = "active"] => note'[OwnNote] = "active"
        BY <3>1 DEF TypeOK, NoteTypes
      <3>3. ASSUME NEW n \in Notes, note'[n] = "active", Goto(d, "write"),
                   mem' = [mem EXCEPT ![d].copy = [k EXCEPT !.note = n, !.status = "transcribed"],
                                      ![d].text = text, ![d].dest = n, ![d].seen = "active"]
            PROVE  /\ Goto(d, "write")
                   /\ \E m \in Notes, t \in Text :
                         /\ note'[m] = "active"
                         /\ mem' = [mem EXCEPT
                               ![d].copy = [k EXCEPT !.note = m, !.status = "transcribed"],
                               ![d].text = t, ![d].dest = m, ![d].seen = "active"]
        BY <3>1, <3>3
      <3> QED BY <1>6, <3>1, <3>2, <3>3 DEF AskRouter, c, k, text
    <2> QED BY <2>4, <2>5, <2>6, <2>7
  <1>7. CASE Destination(d)
    <2>1. c.note # None /\ note[c.note] # "absent" /\ (d \in current => c.note = row.note)
      BY <1>7, <1>f, <1>g DEF Destination, Fits, There, c
    <2>2. mem[d].seen # "absent"
      BY <1>0 DEF Memory
    <2>3. CASE Verdict(d, "failed")
      BY <1>7, <1>v, <2>1, <2>3 DEF Destination, Terminal
    <2>4. ASSUME NEW new \in Row, new.note = c.note,
                 mem'[d].copy = new, mem'[d].dest = c.note,
                 pc'[d] \in {"transcribe", "append", "clean", "strip"}
          PROVE  OneInv'
      <3>1. There(mem'[d].copy, note')
        BY <1>0, <1>f, <1>s, <2>4 DEF There
      <3>2. Fits(d)'
        BY <1>7, <2>1, <2>4, <3>1 DEF Fits, Destination
      <3> QED BY <1>7, <1>o, <2>4, <3>2, OneLooksOn DEF Destination
    <2> DEFINE m == [mem[d] EXCEPT !.dest = c.note, !.seen = "active"]
               old == [c EXCEPT !.raw = FALSE, !.routed = FALSE]
    <2>5. m.copy = c /\ m.dest = c.note
      BY <1>0 DEF Memory, c
    <2>6. [m EXCEPT !.copy = old].copy = old /\ [m EXCEPT !.copy = old].dest = c.note
      BY <1>0 DEF Memory
    <2>7. old \in Row /\ old.note = c.note
      BY <1>0, NoteFields DEF Row
    <2>8. \/ Verdict(d, "failed")
          \/ Goto(d, "transcribe") /\ mem' = [mem EXCEPT ![d] = [m EXCEPT !.copy = old]]
          \/ /\ mem' = [mem EXCEPT ![d] = m]
             /\ \E p \in {"append", "clean", "strip"} : Goto(d, p)
      BY <1>7, <2>1, <2>2 DEF Destination, FreesCapture, c
    <2> HIDE DEF m, old
    <2>9. CASE Goto(d, "transcribe") /\ mem' = [mem EXCEPT ![d] = [m EXCEPT !.copy = old]]
      <3>1. mem'[d] = [m EXCEPT !.copy = old] /\ pc'[d] = "transcribe"
        BY <1>0, <2>9 DEF Goto
      <3> QED BY <2>4, <2>6, <2>7, <3>1
    <2>10. CASE mem' = [mem EXCEPT ![d] = m] /\ \E p \in {"append", "clean", "strip"} : Goto(d, p)
      <3>1. mem'[d] = m /\ pc'[d] \in {"append", "clean", "strip"}
        BY <1>0, <2>10 DEF Goto
      <3> QED BY <1>0, <2>4, <2>5, <3>1
    <2> QED BY <2>3, <2>8, <2>9, <2>10
  <1>8. CASE Strip(d) \/ Tidy(d)
    <2>1. /\ c.note # None /\ mem[d].dest = c.note
          /\ d \in current => c.note = row.note
      BY <1>8, <1>f, <1>g DEF Strip, Tidy, Fits, c
    <2>2. ASSUME NEW k \in Row, k.note = c.note, NEW t, NEW p \in {"clean", "append"}, Answer(d, k, t, p)
          PROVE  OneInv'
      <3>1. mem'[d].copy = k /\ mem'[d].dest = mem[d].dest /\ pc'[d] = p
        BY <1>0, <2>2 DEF Answer, Goto, Memory
      <3>2. There(mem'[d].copy, note')
        BY <1>0, <1>f, <1>s, <2>2, <3>1 DEF There
      <3>3. Fits(d)'
        BY <1>8, <2>1, <2>2, <3>1, <3>2 DEF Fits, Strip, Tidy
      <3> QED BY <1>8, <1>o, <2>2, <3>1, <3>3, OneLooksOn DEF Strip, Tidy
    <2>3. ASSUME NEW status \in {"no_content", "failed"}, Verdict(d, status)
          PROVE  OneInv'
      BY <1>8, <1>v, <2>1, <2>3 DEF Strip, Tidy, Terminal
    <2>4. /\ [c EXCEPT !.routed = TRUE] \in Row /\ [c EXCEPT !.routed = TRUE].note = c.note
          /\ [c EXCEPT !.clean = TRUE, !.status = "cleaned"] \in Row
          /\ [c EXCEPT !.clean = TRUE, !.status = "cleaned"].note = c.note
      BY <1>0 DEF Row, Pending
    <2>5. CASE Strip(d)
      BY <1>0, <2>2, <2>3, <2>4, <2>5 DEF Strip, c
    <2>6. CASE Tidy(d)
      BY <1>0, <2>2, <2>3, <2>4, <2>6 DEF Tidy, c
    <2> QED BY <1>8, <2>5, <2>6
  <1>9. CASE ClaimCaptureAppend(d)
    <2>1. /\ row.status # "deleted" /\ There(row, note')
      BY <1>9, <1>0, <1>f, <1>s DEF ClaimCaptureAppend, Exists, Gone
    <2>2. CASE row' = [row EXCEPT !.held = TRUE, !.leased = TRUE] /\ current' = {d}
               /\ Answer(d, row', Source(d), "land")
      <3>1. mem'[d].copy = row' /\ mem'[d].dest = mem[d].dest /\ pc'[d] = "land"
        BY <1>0, <2>2 DEF Answer, Goto, Memory
      <3>2. row'.note = row.note
        BY <1>0, <2>2, NoteFields
      <3>3. There(row', note')
        BY <2>1, <3>2 DEF There
      <3>4. Fits(d)'
        BY <3>1, <3>3, FitsAnywhere
      <3> QED BY <1>9, <1>o, <2>1, <2>2, <3>1, <3>2, <3>3, <3>4, OneWrites
              DEF ClaimCaptureAppend, Aiming
    <2>3. CASE /\ UNCHANGED row /\ current' = current \cup {d}
               /\ Leave(d, row, "finished") \/ Answer(d, row, Source(d), "check")
      <3>1. mem'[d].copy = row /\ pc'[d] \in {"finished", "check"}
        BY <1>0, <2>3, Moves DEF At
      <3> QED BY <1>9, <1>i, <2>3, <3>1 DEF ClaimCaptureAppend
    <2> QED BY <1>9, <2>2, <2>3 DEF ClaimCaptureAppend
  <1>10. CASE Land(d)
    <2>1. mem'[d].copy = c /\ pc'[d] \in {"complete", "unclaim"} /\ (d \in current => c.note = row.note)
      BY <1>0, <1>10, <1>g DEF Land, Answer, Goto, Memory, c
    <2>2. There(mem'[d].copy, note')
      BY <1>0, <1>f, <1>s, <2>1
    <2>3. Fits(d)'
      BY <1>10, <2>1, <2>2, FitsAnywhere DEF Land
    <2>4. \A n \in Notes : landed'[n] # NoWords => landed[n] # NoWords \/ (pc[d] = "land" /\ mem[d].dest = n)
      BY <1>10 DEF Land, TypeOK, NoteTypes
    <2> QED BY <1>10, <1>o, <2>1, <2>3, <2>4, OneLooksOn DEF Land
  <1>11. CASE CheckNote(d) \/ MissingObject(d)
    <2>1. mem'[d].copy = c /\ pc'[d] \in {"complete", "failed"} /\ (d \in current => c.note = row.note)
      BY <1>0, <1>11, <1>g, Moves DEF CheckNote, MissingObject, At, c
    <2> QED BY <1>11, <1>i, <2>1 DEF CheckNote, MissingObject
  <1>12. CASE ReleaseAppendClaim(d)
    <2> DEFINE free == [c EXCEPT !.held = FALSE, !.leased = FALSE]
    <2>1. free \in Row /\ free.note = c.note /\ There(free, note')
      <3>1. free \in Row
        BY <1>0 DEF Row
      <3>2. free.note = c.note
        BY <1>0, NoteFields
      <3> QED BY <1>0, <1>f, <1>s, <3>1, <3>2 DEF There
    <2> HIDE DEF free
    <2>2. ASSUME NEW k \in {free, c},
                 Leave(d, [k EXCEPT !.status = "failed"], "write") \/ Leave(d, k, "failed")
          PROVE  /\ mem'[d].copy.note = c.note /\ pc'[d] \in {"write", "failed"}
                 /\ pc'[d] = "write" => IsTerminal(mem'[d].copy)
      <3>1. k \in Row /\ k.note = c.note /\ [k EXCEPT !.status = "failed"] \in Row
        BY <1>0, <2>1, RowFields DEF Statuses, Terminal
      <3>2. \/ At(d, [k EXCEPT !.status = "failed"], "write")
            \/ At(d, k, "failed")
        BY <1>0, <2>2, <3>1, Moves
      <3>3. /\ [k EXCEPT !.status = "failed"].note = c.note
            /\ IsTerminal([k EXCEPT !.status = "failed"])
        BY <3>1, NoteFields DEF IsTerminal, Terminal
      <3> QED BY <3>1, <3>2, <3>3 DEF At
    <2>3. CASE d \in current /\ row' = free /\ current' = {d}
      <3>1. c.note = row.note /\ row.status # "deleted"
        BY <1>12, <1>c, <1>g, <2>3 DEF ReleaseAppendClaim
      <3>2. /\ mem'[d].copy.note = c.note /\ pc'[d] \in {"write", "failed"}
            /\ pc'[d] = "write" => IsTerminal(mem'[d].copy)
        BY <1>12, <2>2, <2>3 DEF ReleaseAppendClaim, c, free
      <3>3. Fits(d)'
        BY <2>1, <2>3, <3>1, <3>2 DEF Fits, There, IsTerminal
      <3> QED BY <1>12, <1>o, <2>1, <2>3, <3>1, <3>2, <3>3, OneWrites DEF ReleaseAppendClaim
    <2>4. CASE d \notin current /\ UNCHANGED <<row, current>>
      <3>2. /\ mem'[d].copy.note = c.note /\ pc'[d] \in {"write", "failed"}
            /\ pc'[d] = "write" => IsTerminal(mem'[d].copy)
        BY <1>12, <2>2, <2>4 DEF ReleaseAppendClaim, PutCapture, c
      <3>3. Fits(d)'
        BY <2>1, <2>4, <3>2 DEF Fits, There, IsTerminal
      <3> QED BY <1>12, <1>o, <2>4, <3>2, <3>3, OneLooksOn DEF ReleaseAppendClaim
    <2> QED BY <1>12, <2>3, <2>4 DEF ReleaseAppendClaim, PutCapture, c, free
  <1>13. CASE CompleteCaptureAppend(d)
    <2>1. CASE /\ row.held /\ row' = [row EXCEPT !.status = "appended", !.done = TRUE]
               /\ current' = {d} /\ Leave(d, row', "finished")
      <3>1. row' \in Row /\ row'.note = row.note
        BY <1>0, <2>1, NoteFields DEF Row, Terminal
      <3>2. mem'[d].copy = row' /\ pc'[d] = "finished"
        BY <1>0, <2>1, <3>1, Moves DEF At
      <3>3. There(row', note') /\ row.status # "deleted"
        BY <1>0, <1>f, <1>s, <2>1, <3>1 DEF There, PromiseInv, GoneIsBare, Exists, Gone
      <3>4. Fits(d)'
        BY <3>2, <3>3, FitsAnywhere
      <3> QED BY <1>13, <1>o, <2>1, <3>1, <3>2, <3>3, <3>4, OneWrites DEF CompleteCaptureAppend
    <2>2. CASE /\ UNCHANGED row /\ current' = current \cup {d} /\ Leave(d, row, "finished")
      <3>1. mem'[d].copy = row /\ pc'[d] = "finished"
        BY <1>0, <2>2, Moves DEF At
      <3> QED BY <1>13, <1>i, <2>2, <3>1 DEF CompleteCaptureAppend
    <2>3. CASE UNCHANGED <<row, current>> /\ Leave(d, c, "failed")
      <3>1. mem'[d].copy = c /\ pc'[d] = "failed"
        BY <1>0, <2>3, Moves DEF At
      <3> QED BY <1>13, <1>i, <2>3, <3>1 DEF CompleteCaptureAppend
    <2> QED BY <1>13, <2>1, <2>2, <2>3 DEF CompleteCaptureAppend, c
  <1>14. CASE Finish(d) \/ Conceded(d)
    <2>1. CASE Goto(d, "peaks") /\ UNCHANGED <<mem, current>> /\ Finish(d)
      <3>1. mem'[d].copy = c /\ pc'[d] = "peaks" /\ (d \in current => c.note = row.note)
        BY <1>0, <2>1, <1>g DEF Goto, Finish, c
      <3> QED BY <1>i, <2>1, <3>1 DEF Finish
    <2>2. CASE End(d) /\ Release(d)
      BY <1>14, <1>e, <1>i, <2>2 DEF Finish, Conceded, Release
    <2> QED BY <1>14, <2>1, <2>2 DEF Finish, Conceded
  <1>15. CASE VerifyPeaks(d)
    <2>1. CASE /\ d \in current /\ row' = [c EXCEPT !.peaks = FALSE, !.fresh = TRUE]
               /\ current' = {} /\ End(d)
      <3>1. row'.note = c.note /\ c.note = row.note /\ row.status # "deleted"
        BY <1>0, <1>15, <1>c, <1>g, <2>1, NoteFields DEF VerifyPeaks
      <3>2. There(row', note')
        BY <1>0, <1>f, <1>s, <3>1 DEF There
      <3>3. mem'[d].copy = NoRow /\ pc'[d] \in {"idle", "queued"}
        BY <1>e, <2>1
      <3>4. Fits(d)'
        BY <1>n, <2>1, <3>3, FitsAnywhere
      <3> QED BY <1>15, <1>o, <2>1, <3>1, <3>2, <3>3, <3>4, OneWrites DEF VerifyPeaks
    <2>2. CASE UNCHANGED row /\ Release(d) /\ End(d)
      BY <1>15, <1>e, <1>i, <2>2 DEF VerifyPeaks, Release
    <2>3. CASE /\ d \notin current /\ UNCHANGED <<row, current>>
               /\ Remember(d, row) /\ Goto(d, "failed")
      <3>1. mem'[d].copy = row /\ pc'[d] = "failed"
        BY <1>0, <2>3, Moves DEF At
      <3> QED BY <1>15, <1>i, <2>3, <3>1 DEF VerifyPeaks
    <2> QED BY <1>15, <2>1, <2>2, <2>3 DEF VerifyPeaks, c
  <1>16. CASE Failed(d)
    <2>1. mem'[d].copy = NoRow /\ pc'[d] \in {"idle", "queued"}
      BY <1>16, <1>e DEF Failed
    <2>2. CASE /\ IsPending(row) /\ current' = {}
               /\ row' = [row EXCEPT !.status = "failed", !.fresh = TRUE]
      <3>1. row'.note = row.note /\ row.status # "deleted"
        BY <1>0, <2>2, NoteFields DEF IsPending, Pending
      <3>2. There(row', note')
        BY <1>0, <1>f, <1>s, <3>1 DEF There
      <3>3. Fits(d)'
        BY <1>n, <2>1, <2>2, FitsAnywhere
      <3> QED BY <1>16, <1>o, <2>1, <2>2, <3>1, <3>2, <3>3, OneWrites DEF Failed
    <2>3. CASE UNCHANGED row /\ Release(d)
      BY <1>16, <1>i, <2>1, <2>3 DEF Failed, Release
    <2> QED BY <1>16, <2>2, <2>3 DEF Failed
  <1>17. CASE Fault(d)
    <2>1. mem'[d].copy = c /\ pc'[d] \in {"unclaim", "failed"}
      BY <1>0, <1>17, Moves DEF Fault, At, c
    <2>2. pc'[d] = "unclaim" => (d \in current => c.note = row.note)
      BY <1>17, <1>g, <2>1, <1>0, Moves DEF Fault, At, c
    <2> QED BY <1>17, <1>i, <2>1, <2>2 DEF Fault
  <1>18. CASE Crash(d)
    BY <1>18, <1>e, <1>i DEF Crash, Release
  <1> QED
    BY <1>1, <1>2, <1>3, <1>4, <1>5, <1>6, <1>7, <1>8, <1>9, <1>10, <1>11, <1>12, <1>13,
       <1>14, <1>15, <1>16, <1>17, <1>18 DEF Run

\* Where the row names no note, and is not deleted, nobody is on the way to one.
LEMMA NobodyDestined ==
    ASSUME OneInv, row.note = None, row.status # "deleted", NEW n \in Notes
    PROVE  ~Destined(n)
  BY NotesAssumption DEF OneInv, OneAim

\* A request's step.
LEMMA OneRequest ==
    ASSUME TypeOK, PromiseInv, OneInv, NotesKept, NEW r \in Requests,
           Handle(r) \/ Operation(r) \/ InvokeFails(r) \/ RequestDies(r)
    PROVE  OneInv'
  <1>0. /\ rpc \in [Requests -> RequestPC] /\ prior \in [Requests -> Row]
        /\ row \in Row /\ prior[r] \in Row /\ DeliveryTypes /\ NoRow \in Row
    BY EmptyValues DEF TypeOK, RequestTypes, RowTypes
  <1>a. r \in current => /\ rpc[r] \in {"invoke", "rollback"}
                         /\ \A n \in Notes : Destined(n) => prior[r].note = n
    BY DEF PromiseInv, RequestsStand, ResetStands, OneInv, RollbackAims
  <1>b. Answered(r) => prior'[r] = NoRow /\ OnlyRequest(r)
    BY <1>0 DEF Answered, OnlyRequest
  <1>c. /\ \A p : rpc' = [rpc EXCEPT ![r] = p] /\ UNCHANGED prior => OnlyRequest(r)
        /\ \A p : /\ rpc' = [rpc EXCEPT ![r] = p]
                 /\ prior' = [prior EXCEPT ![r] = row] => OnlyRequest(r) /\ prior'[r] = row
    BY <1>0 DEF OnlyRequest
  <1>s. /\ There(row, note') /\ There(NoRow, note')
        /\ \A q \in Requests : There(prior[q], note')
    <2>1. There(NoRow, note)
      BY EmptyValues, NoteFields DEF There
    <2> QED BY <1>0, <2>1, StaysThere DEF OneInv, RowsThere
  <1>u. GoneIsBare
    BY DEF PromiseInv
  \* The row stays, or goes.
  <1>k. ASSUME \A x \in Deliveries : \/ pc'[x] = pc[x] /\ mem'[x] = mem[x]
                                     \/ /\ pc'[x] = "queued" /\ mem'[x].copy = NoRow
                                        /\ x \notin current',
               \A n \in Notes : landed'[n] # NoWords => landed[n] # NoWords,
               UNCHANGED row \/ DropRow, OnlyRequest(r), prior'[r] \in {prior[r], NoRow, row},
               r \in current' => UNCHANGED prior, current' \subseteq current
        PROVE  OneInv'
    <2>1. \A q \in Requests : There(prior'[q], note')
      BY <1>k, <1>s DEF OnlyRequest
    <2>2. CASE UNCHANGED row
      <3>1. \A n \in Notes : Destined(n) /\ row'.status # "deleted" => row'.note = n
        BY <2>2 DEF OneInv, OneAim
      <3>2. \A q \in Requests, n \in Notes : q \in current' /\ Destined(n) => prior'[q].note = n
        BY <1>k DEF OneInv, RollbackAims, OnlyRequest
      <3> QED BY <1>k, <1>s, <2>1, <2>2, <3>1, <3>2, OneOutside
    <2>3. CASE DropRow
      <3>1. row'.status = "deleted" /\ row'.note = None /\ current' = {}
        BY <2>3 DEF DropRow, NoRow
      <3>2. There(row', note')
        BY <3>1 DEF There
      <3> QED BY <1>k, <2>1, <3>1, <3>2, OneOutside
    <2> QED BY <1>k, <2>2, <2>3
  \* The row is written, for this request.
  <1>w. ASSUME UNCHANGED <<pc, mem, landed>>, current' \subseteq {r}, OnlyRequest(r),
               prior'[r] \in {prior[r], NoRow, row}, There(row', note'),
               r \in current' => prior'[r] = row /\ Exists,
               \A n \in Notes : Destined(n) => row'.note = n
        PROVE  OneInv'
    <2>1. \A q \in Requests : There(prior'[q], note')
      BY <1>w, <1>s DEF OnlyRequest
    <2>2. \A x \in Deliveries : x \notin current'
      BY <1>w, ActorsAssumption
    <2>3. \A q \in Requests, n \in Notes : q \in current' /\ Destined(n) => prior'[q].note = n
      BY <1>w DEF OneInv, OneAim, Exists, Gone
    <2> QED BY <1>w, <2>1, <2>2, <2>3, OneOutside
  <1>1. CASE PutText(r) \/ Unlink(r) \/ InvokeFails(r)
    <2>1. OnlyRequest(r) /\ UNCHANGED <<prior, row, current, pc, mem, landed>>
      BY <1>1, <1>c DEF PutText, Unlink, InvokeFails, EnvUnchanged, RowUnchanged
    <2> QED BY <1>k, <2>1
  <1>2. CASE DiscardEmptyRow(r) \/ DeleteRow(r)
    BY <1>2, <1>b, <1>k DEF DiscardEmptyRow, DeleteRow, DropRow, EnvUnchanged
  <1>3. CASE Invoke(r)
    <2>1. PICK d \in Deliveries : Queue(d, "api")
      BY <1>3 DEF Invoke
    <2>2. pc[d] = "idle" /\ pc'[d] = "queued" /\ mem'[d].copy = NoRow /\ Only(d)
      <3>1. pc[d] = "idle" /\ pc'[d] = "queued" /\ Only(d)
        BY <1>0, <2>1, EmptyValues, Moves
      <3>2. mem'[d].copy = NoRow
        BY <1>0, <2>1 DEF Queue, NoMemory, DeliveryTypes
      <3> QED BY <3>1, <3>2
    <2>3. d \notin current
      BY <2>2 DEF PromiseInv, DeliveriesAgree, CopyAgrees, Running, Stages
    <2>4. \A x \in Deliveries : \/ pc'[x] = pc[x] /\ mem'[x] = mem[x]
                                \/ /\ pc'[x] = "queued" /\ mem'[x].copy = NoRow
                                   /\ x \notin current'
      BY <1>3, <2>2, <2>3 DEF Invoke, Only
    <2> QED BY <1>3, <1>b, <1>k, <2>4 DEF Invoke
  <1>4. CASE Rollback(r)
    <2>1. CASE r \in current /\ row' = prior[r] /\ current' = {}
      BY <1>4, <1>a, <1>b, <1>s, <1>w, <2>1 DEF Rollback, EnvUnchanged
    <2>2. CASE r \notin current /\ RowUnchanged
      BY <1>4, <1>b, <1>k, <2>2 DEF Rollback, EnvUnchanged, RowUnchanged
    <2> QED BY <1>4, <2>1, <2>2 DEF Rollback
  <1>5. CASE CutParagraph(r)
    <2>1. \A n \in Notes : landed'[n] # NoWords => landed[n] # NoWords
      BY <1>5 DEF CutParagraph, TypeOK, NoteTypes
    <2> QED BY <1>5, <1>c, <1>k, <2>1 DEF CutParagraph, RowUnchanged
  <1>6. CASE IngestText(r)
    <2>1. row.note = None /\ row.status # "deleted" /\ current = {}
      BY <1>6, <1>u DEF IngestText, GoneIsBare, Exists, Gone
    <2>2. PICK n \in Destinations :
             row' = [NewRow EXCEPT !.status = "transcribed", !.raw = TRUE, !.note = n]
      BY <1>6 DEF IngestText
    <2>3. row'.note = n
      BY <2>2 DEF NewRow, NoRow
    <2>4. There(row', note')
      BY <1>6, <2>3 DEF IngestText, EnvUnchanged, Destinations, There
    <2>5. \A m \in Notes : ~Destined(m)
      BY <2>1, NobodyDestined
    <2>6. OnlyRequest(r) /\ UNCHANGED <<pc, mem, landed, prior, current>>
      BY <1>6, <1>c DEF IngestText, EnvUnchanged
    <2> QED BY <1>w, <2>1, <2>4, <2>5, <2>6
  <1>7. ASSUME NEW new \in Row, Reset(r, new), There(new, note'),
               \A n \in Notes : Destined(n) => new.note = n
        PROVE  OneInv'
    <2>1. row'.note = new.note
      BY <1>7, NoteFields DEF Reset
    <2>2. There(row', note')
      BY <1>7, <2>1 DEF There
    <2> QED BY <1>7, <1>c, <1>w, <2>1, <2>2 DEF Reset
  <1>8. Exists => \A n \in Notes : Destined(n) => row.note = n
    BY DEF OneInv, OneAim, Exists, Gone
  <1>9. CASE RetryCapture(r)
    <2> DEFINE new == [row EXCEPT !.status = IF @ = "failed" THEN ResumeStatusFor(row) ELSE @]
    <2>1. new \in Row /\ new.note = row.note
      <3>1. (IF row.status = "failed" THEN ResumeStatusFor(row) ELSE row.status) \in Statuses
        BY <1>0, RowFields DEF ResumeStatusFor, Statuses, Pending
      <3> QED BY <1>0, <3>1, RowFields, NoteFields
    <2>2. There(new, note')
      BY <1>s, <2>1 DEF There
    <2>3. Reset(r, new) /\ Exists
      BY <1>9 DEF RetryCapture, Reset
    <2> HIDE DEF new
    <2> QED BY <1>7, <1>8, <2>1, <2>2, <2>3
  <1>10. CASE SetCaptureTarget(r)
    <2>1. PICK n \in Notes :
             /\ \/ note[n] = "active" /\ UNCHANGED note
                \/ n = OwnNote /\ note' = [note EXCEPT ![n] = "active"]
             /\ Reset(r, [row EXCEPT !.note = n, !.status = ResumeStatusFor(row)])
      BY <1>10 DEF SetCaptureTarget
    <2>2. note'[n] = "active"
      BY <2>1 DEF TypeOK, NoteTypes
    <2> DEFINE new == [row EXCEPT !.note = n, !.status = ResumeStatusFor(row)]
    <2>3. new \in Row /\ new.note = n
      BY <1>0 DEF Row, ResumeStatusFor, Pending
    <2>4. There(new, note')
      BY <2>2, <2>3 DEF There
    <2>5. Reset(r, new) /\ row.note = None /\ row.status # "deleted"
      BY <1>10, <2>1 DEF SetCaptureTarget, Reset, Exists, Gone
    <2>6. \A m \in Notes : ~Destined(m)
      BY <2>5, NobodyDestined
    <2> HIDE DEF new
    <2> QED BY <1>7, <2>3, <2>4, <2>5, <2>6
  <1>11. CASE RetranscribeCapture(r)
    <2> DEFINE new == [row EXCEPT !.raw = FALSE, !.routed = FALSE, !.clean = FALSE,
                            !.lang = "none", !.held = FALSE, !.leased = FALSE,
                            !.done = FALSE, !.status = "transcribing", !.asked = @ + 1]
    <2>1. new \in Row /\ new.note = row.note
      <3>1. row.asked \in 0 .. MaxAgain /\ row.asked < MaxAgain /\ MaxAgain \in Nat
        BY <1>0, <1>11, RowFields, BoundsAssumption DEF RetranscribeCapture
      <3>2. row.asked + 1 \in 0 .. MaxAgain
        BY <3>1
      <3>r. row \in Row
        BY <1>0
      <3>3. new \in Row
        BY <3>r, <3>2 DEF Row, Pending
      <3>4. new.note = row.note
        BY <1>0 DEF Row
      <3> QED BY <3>3, <3>4
    <2>2. There(new, note')
      BY <1>s, <2>1 DEF There
    <2>3. Reset(r, new) /\ Exists
      BY <1>11 DEF RetranscribeCapture, Reset
    <2> HIDE DEF new
    <2> QED BY <1>7, <1>8, <2>1, <2>2, <2>3
  <1>12. CASE DeleteCapture(r)
    <2>1. r \notin current
      BY <1>12, <1>a DEF DeleteCapture
    <2> QED BY <1>12, <1>c, <1>k, <2>1 DEF DeleteCapture, EnvUnchanged, RowUnchanged
  <1>13. CASE RequestDies(r)
    BY <1>13, <1>b, <1>k DEF RequestDies
  <1> QED
    BY <1>1, <1>2, <1>3, <1>4, <1>5, <1>6, <1>9, <1>10, <1>11, <1>12, <1>13
       DEF Handle, Operation

\* The clients, the reconcile task, the notes and the clock.
LEMMA OneEnvironment ==
    ASSUME TypeOK, PromiseInv, OneInv, NotesKept, BeginCapture \/ Environment
    PROVE  OneInv'
  <1>0. DeliveryTypes /\ row \in Row /\ NoRow \in Row /\ prior \in [Requests -> Row]
    BY EmptyValues DEF TypeOK, RequestTypes, RowTypes
  <1>p. UNCHANGED prior
    BY DEF Environment, Clock, BeginCapture, UploadLands, PeaksLand, Redeliver, Reap, Age,
           LeaseEnds, LinkEnds, AudioExpires, ArchiveNote, RestoreNote, PurgeNote
  <1>s. There(row, note') /\ \A q \in Requests : There(prior'[q], note')
    BY <1>0, <1>p, StaysThere DEF OneInv, RowsThere
  <1>k. ASSUME \A x \in Deliveries : \/ pc'[x] = pc[x] /\ mem'[x] = mem[x]
                                     \/ /\ pc'[x] = "queued" /\ mem'[x].copy = NoRow
                                        /\ x \notin current',
               UNCHANGED landed, row'.note = row.note, row'.status # "deleted" => row.status # "deleted",
               current' \subseteq current
        PROVE  OneInv'
    <2>1. There(row', note')
      BY <1>k, <1>s DEF There
    <2>2. \A n \in Notes : Destined(n) /\ row'.status # "deleted" => row'.note = n
      BY <1>k DEF OneInv, OneAim
    <2>3. \A q \in Requests, n \in Notes : q \in current' /\ Destined(n) => prior'[q].note = n
      BY <1>k, <1>p DEF OneInv, RollbackAims
    <2> QED BY <1>k, <1>s, <2>1, <2>2, <2>3, OneOutside
  <1>q. ASSUME NEW d \in Deliveries, NEW by, Queue(d, by), UNCHANGED <<landed, row, current>>
        PROVE  OneInv'
    <2>1. pc[d] = "idle" /\ pc'[d] = "queued" /\ Only(d)
      BY <1>0, <1>q, EmptyValues, Moves
    <2>2. mem'[d].copy = NoRow
      BY <1>0, <1>q DEF Queue, NoMemory, DeliveryTypes
    <2>3. d \notin current
      BY <2>1 DEF PromiseInv, DeliveriesAgree, CopyAgrees, Running, Stages
    <2>4. \A x \in Deliveries : \/ pc'[x] = pc[x] /\ mem'[x] = mem[x]
                                \/ /\ pc'[x] = "queued" /\ mem'[x].copy = NoRow
                                   /\ x \notin current'
      BY <1>q, <2>1, <2>2, <2>3 DEF Only
    <2> QED BY <1>k, <1>q, <2>4
  <1>1. CASE BeginCapture
    <2>1. row.note = None /\ row.status # "deleted" /\ current = {}
      BY <1>1 DEF BeginCapture, PromiseInv, GoneIsBare, Exists, Gone
    <2>2. PICK n \in Destinations :
             row' = [NewRow EXCEPT !.status = "uploaded", !.audio = TRUE, !.note = n,
                                   !.peaks = PeaksClaimed]
      BY <1>1 DEF BeginCapture
    <2>3. row'.note = n
      BY <2>2 DEF NewRow, NoRow
    <2>4. There(row', note')
      BY <1>1, <2>3 DEF BeginCapture, EnvUnchanged, Destinations, There
    <2>5. \A m \in Notes : ~Destined(m)
      BY <2>1, NobodyDestined
    <2>6. UNCHANGED <<pc, mem, landed, current>>
      BY <1>1 DEF BeginCapture, EnvUnchanged
    <2> QED BY <1>s, <2>1, <2>4, <2>5, <2>6, OneOutside
  <1>2. CASE UploadLands
    BY <1>2, <1>q DEF UploadLands, RowUnchanged
  <1>3. CASE Redeliver
    BY <1>3, <1>q DEF Redeliver, RowUnchanged
  <1>4. CASE Reap
    <2>1. CASE row' = [row EXCEPT !.status = "failed", !.fresh = TRUE] /\ current' = {}
               /\ UNCHANGED <<pc, mem>>
      <3>1. row'.note = row.note /\ row.status # "deleted"
        BY <1>0, <1>4, <2>1, NoteFields DEF Reap, IsPending, Pending
      <3> QED BY <1>4, <1>k, <2>1, <3>1 DEF Reap
    <2> QED BY <1>4, <1>q, <2>1 DEF Reap, RowUnchanged
  <1>5. CASE Age \/ LeaseEnds
    <2>1. \/ row' = [row EXCEPT !.fresh = FALSE]
          \/ row' = [row EXCEPT !.leased = FALSE]
      BY <1>5 DEF Age, LeaseEnds
    <2>2. row'.note = row.note /\ row'.status = row.status
      BY <1>0, <2>1 DEF Row
    <2>3. UNCHANGED <<pc, mem, landed, current>>
      BY <1>5 DEF Age, LeaseEnds, EnvUnchanged
    <2> QED BY <1>k, <2>2, <2>3
  <1>6. CASE UNCHANGED <<row, current, pc, mem, landed>>
    BY <1>k, <1>6
  <1>7. ASSUME NEW n \in Notes, PurgeNote(n)
        PROVE  FALSE
    <2>1. note[n] = "archived" /\ note'[n] = "absent"
      BY <1>7 DEF PurgeNote, TypeOK, NoteTypes
    <2> QED BY <2>1 DEF NotesKept
  <1> QED
    BY <1>1, <1>2, <1>3, <1>4, <1>5, <1>6, <1>7
       DEF Environment, Clock, PeaksLand, LinkEnds, AudioExpires, ArchiveNote, RestoreNote,
           RowUnchanged, EnvUnchanged

\* Every step that purges no note keeps the invariant.
LEMMA OneNext ==
    ASSUME TypeOK, PromiseInv, OneInv, NotesKept, [Next]_vars
    PROVE  OneInv'
  <1>1. CASE UNCHANGED vars
    BY <1>1 DEF vars, OneInv, OneAim, RollbackAims, RowsThere, Fits, Destined, Aiming, There, IsTerminal
  <1>2. CASE \E d \in Deliveries : Run(d) \/ Fault(d) \/ Crash(d)
    BY <1>2, OneRun
  <1>3. CASE \E r \in Requests : Handle(r) \/ Operation(r) \/ InvokeFails(r) \/ RequestDies(r)
    BY <1>3, OneRequest
  <1>4. CASE BeginCapture \/ Environment
    BY <1>4, OneEnvironment
  <1> QED BY <1>1, <1>2, <1>3, <1>4 DEF Next

\* At first nothing has landed and nobody is on the way.
LEMMA OneInit == Init => OneInv
  <1> SUFFICES ASSUME Init PROVE OneInv
    OBVIOUS
  <1>1. /\ row = NoRow /\ current = {} /\ NoRow.note = None
        /\ \A n \in Notes : landed[n] = NoWords
        /\ \A d \in Deliveries : pc[d] = "idle" /\ mem[d].copy = NoRow
        /\ \A r \in Requests : prior[r] = NoRow
    BY EmptyValues, NoteFields DEF Init, NoMemory
  <1> QED BY <1>1 DEF OneInv, OneAim, RollbackAims, RowsThere, Fits, Destined, Aiming, There

\* One recording dictates into one note as long as no note is purged: for any
\* number of deliveries that route it apart, of retries, of destinations chosen
\* and of transcriptions asked for again, and whatever goes to the trash.
THEOREM OneParagraphAlways ==
    Spec /\ [][NotesKept]_note => []OneParagraph
  <1>1. OneInv => OneParagraph
    BY DEF OneInv, OneAim, OneParagraph, Destined
  <1>2. UNCHANGED note => NotesKept
    BY DEF NotesKept
  <1>3. TypeOK /\ PromiseInv /\ OneInv /\ [Next]_vars /\ [NotesKept]_note =>
            TypeOK' /\ PromiseInv' /\ OneInv'
    BY <1>2, TypeNext, PromiseNext, OneNext
  <1>4. Init => TypeOK /\ PromiseInv /\ OneInv
    BY TypeInit, PromiseInit, OneInit
  <1> QED BY <1>1, <1>3, <1>4, PTL DEF Spec

-----------------------------------------------------------------------------
(***************************************************************************)
(* What a filed recording says, for every number of requests, notes and    *)
(* retries and every bound, where the worker's invocations come one after  *)
(* another: its paragraph is of the transcription last asked for, and in   *)
(* the language its note asks for.                                         *)
(***************************************************************************)

\* One invocation at a time: a duplicate comes when the first has ended.
InTurn == \A d, e \in Deliveries : d = e

\* What a text answers: the request a copy of the row was made for, in the
\* language that copy has on record.
Of(k, t) == t # NoWords => t.asked = k.asked /\ (k.audio => t.lang = k.lang)
Spoken(k) == k.audio /\ k.note \in OtherLanguage => k.lang = "other"

\* The keys of a copy name texts made for it, and come in their order.
Keyed(k, o) ==
    /\ k.raw => Of(k, o.raw)
    /\ k.routed => Of(k, o.routed)
    /\ k.clean => Of(k, o.clean) /\ Spoken(k) /\ k.note # None
    /\ ~k.raw => ~k.routed /\ ~k.clean
    /\ ~k.audio => k.asked = 0

\* The paragraph is there, and is what was asked for.
Fulfilled(k, l) ==
    /\ k.note # None /\ l[k.note] # NoWords
    /\ l[k.note].asked = k.asked
    /\ k.audio /\ k.note \in OtherLanguage => l[k.note].lang = "other"
Kept(k, l) == k.status = "appended" => Fulfilled(k, l)

\* A row that may be put back.
Prior(r) ==
    /\ Keyed(prior[r], obj) /\ Kept(prior[r], landed) /\ prior[r].audio = row.audio
    /\ row.raw => prior[r].routed = row.routed

RowSays ==
    row.status # "deleted" =>
        /\ Keyed(row, obj) /\ Kept(row, landed)
        /\ row.status = "unborn" => obj.raw = NoWords
        /\ \A r \in Requests : /\ r \in current => Prior(r)
                               /\ rpc[r] = "putText" => ~row.audio

\* Between a write of the row and the next, an invocation has it to itself.
Alone == {"hear", "ask", "tidy", "claim", "land", "check", "complete", "unclaim"}

\* What an invocation has in hand, stage by stage.
InHand(d) ==
    /\ pc[d] = "queued" => mem[d].text = NoWords
    /\ pc[d] \in Stages \ {"peaks"} =>
           /\ Keyed(mem[d].copy, obj) /\ Of(mem[d].copy, mem[d].text)
           /\ mem[d].copy.audio = row.audio
    /\ pc[d] \in {"transcribe", "hear"} => ~mem[d].copy.raw
    /\ pc[d] \in {"route", "ask", "destination", "strip", "clean", "tidy", "append", "claim"} =>
           mem[d].copy.raw
    /\ pc[d] = "write" => IsTerminal(mem[d].copy) \/ mem[d].copy.raw
    /\ pc[d] \in {"strip", "clean", "tidy", "append", "claim", "land", "check"} =>
           Spoken(mem[d].copy)
    /\ pc[d] = "strip" => ~mem[d].copy.routed /\ ~mem[d].copy.clean
    /\ pc[d] \in {"claim", "land", "check", "complete"} =>
           mem[d].dest = mem[d].copy.note /\ mem[d].copy.note # None
    /\ pc[d] \in {"land", "check"} => mem[d].text # NoWords
    /\ pc[d] = "complete" => Fulfilled(mem[d].copy, landed)

\* How that stands to the row.
Abreast(d) ==
    /\ row.status = "unborn" => pc[d] \notin Stages \cup {"finished"}
    /\ pc[d] \in Alone =>
           current = {d} /\ row.fresh /\ IsPending(row) /\ row = mem[d].copy
    /\ pc[d] = "write" => mem[d].copy.status \in (Terminal \ {"appended"}) \cup Pending
    /\ pc[d] \in {"finished", "peaks"} /\ d \in current => row = mem[d].copy
    /\ pc[d] \in {"destination", "strip"} /\ ~mem[d].copy.routed =>
           ~row.routed /\ \A r \in Requests : r \in current => ~prior[r].routed

Says(d) == row.status # "deleted" => InHand(d) /\ Abreast(d)

SaysInv == RowSays /\ \A d \in Deliveries : Says(d)

-----------------------------------------------------------------------------
(* Copies, texts and objects.                                              *)

\* Copies with the same destination and keys.
Alike(k, c) ==
    /\ k.audio = c.audio /\ k.raw = c.raw /\ k.lang = c.lang /\ k.routed = c.routed
    /\ k.clean = c.clean /\ k.note = c.note /\ k.asked = c.asked

\* The changes an action makes to the rest of a copy.
LEMMA AlikeFields ==
    ASSUME NEW c \in Row
    PROVE  /\ \A s : Alike([c EXCEPT !.status = s], c)
           /\ \A s : Alike([c EXCEPT !.fresh = s], c)
           /\ \A s, t : Alike([c EXCEPT !.status = s, !.fresh = t], c)
           /\ \A s, t : Alike([c EXCEPT !.status = s, !.done = t], c)
           /\ \A s, t : Alike([c EXCEPT !.peaks = s, !.fresh = t], c)
           /\ \A s, t : Alike([c EXCEPT !.held = s, !.leased = t], c)
           /\ \A s : Alike([c EXCEPT !.leased = s], c)
  BY DEF Row, Alike

\* Such a copy says the same.
LEMMA AlikeSays ==
    ASSUME NEW k, NEW c, Alike(k, c)
    PROVE  /\ \A o : Keyed(k, o) <=> Keyed(c, o)
           /\ \A t : Of(k, t) <=> Of(c, t)
           /\ \A l : Fulfilled(k, l) <=> Fulfilled(c, l)
           /\ Spoken(k) <=> Spoken(c)
  BY DEF Alike, Keyed, Of, Fulfilled, Spoken

\* The texts alone count.
LEMMA SameTexts ==
    ASSUME NEW o, NEW p, p.raw = o.raw, p.routed = o.routed, p.clean = o.clean
    PROVE  \A k : Keyed(k, p) <=> Keyed(k, o)
  BY DEF Keyed

\* Marking the audio, or removing it, leaves the texts.
LEMMA AudioLeavesTexts ==
    ASSUME NEW o \in Objects
    PROVE  \A x, y : /\ [o EXCEPT !.processed = x].raw = o.raw
                     /\ [o EXCEPT !.processed = x].routed = o.routed
                     /\ [o EXCEPT !.processed = x].clean = o.clean
                     /\ [o EXCEPT !.audio = x, !.processed = y].raw = o.raw
                     /\ [o EXCEPT !.audio = x, !.processed = y].routed = o.routed
                     /\ [o EXCEPT !.audio = x, !.processed = y].clean = o.clean
  BY DEF Objects

\* The text a stage works from was made for the copy.
LEMMA SourceSays ==
    ASSUME NEW d \in Deliveries, Keyed(mem[d].copy, obj), Of(mem[d].copy, mem[d].text),
           mem[d].copy.raw
    PROVE  Of(mem[d].copy, Source(d))
  BY DEF Keyed, Source

-----------------------------------------------------------------------------
(* The steps of an invocation.                                             *)

\* At rest there is nothing in hand.
LEMMA AtRest ==
    ASSUME NEW d \in Deliveries, pc'[d] \in {"idle", "queued", "failed", "conceded"},
           pc'[d] = "queued" => mem'[d].text = NoWords
    PROVE  Says(d)'
  BY DEF Says, InHand, Abreast, Stages, Alone

\* A step that leaves the row alone.
LEMMA SaysOn ==
    ASSUME InTurn, SaysInv, NEW d \in Deliveries, UNCHANGED <<row, rpc, prior>>,
           current' \subseteq current \cup {d}, Says(d)',
           Keyed(row, obj) /\ row.status # "deleted" => Keyed(row, obj'),
           row.status = "unborn" => obj'.raw = obj.raw,
           Kept(row, landed) /\ row.status # "deleted" => Kept(row, landed'),
           \A r \in Requests : r \in current /\ row.status # "deleted" =>
               /\ Keyed(prior[r], obj) => Keyed(prior[r], obj')
               /\ Kept(prior[r], landed) => Kept(prior[r], landed')
    PROVE  SaysInv'
  <1>1. \A x \in Deliveries : x = d
    BY DEF InTurn
  <1>2. RowSays'
    <2>1. \A r \in Requests : r \in current' => r \in current
      BY ActorsAssumption
    <2> QED BY <2>1 DEF SaysInv, RowSays, Prior
  <1> QED BY <1>1, <1>2 DEF SaysInv

\* One that writes the row.
LEMMA SaysWrites ==
    ASSUME InTurn, SaysInv, NEW d \in Deliveries, UNCHANGED <<rpc, prior>>,
           current' \subseteq {d}, Says(d)', row.status \notin Gone, row'.status # "unborn",
           row'.audio = row.audio, Keyed(row', obj'), Kept(row', landed')
    PROVE  SaysInv'
  <1>1. \A x \in Deliveries : x = d
    BY DEF InTurn
  <1>2. RowSays'
    <2>1. \A r \in Requests : r \notin current'
      BY ActorsAssumption
    <2> QED BY <2>1 DEF SaysInv, RowSays, Gone
  <1> QED BY <1>1, <1>2 DEF SaysInv

\* A write of the row from a copy, won or conceded.
LEMMA SaysPersist ==
    ASSUME TypeOK, PromiseInv, InTurn, SaysInv, NEW d \in Deliveries, NEW new \in Row,
           NEW p \in {"hear", "ask", "tidy", "claim", "finished", "destination"},
           Persist(d, new, p), row.status # "deleted",
           Keyed(new, obj), Of(new, mem[d].text), new.audio = row.audio,
           new.status \notin {"appended", "unborn"},
           p # "finished" => new.status \in Pending,
           p = "hear" => ~new.raw,
           p \in {"ask", "tidy", "claim", "destination"} => new.raw,
           p \in {"tidy", "claim"} => Spoken(new),
           p = "claim" => mem[d].dest = new.note /\ new.note # None
    PROVE  SaysInv'
  <1>0. /\ DeliveryTypes /\ row \in Row /\ mem[d].copy \in Row
        /\ mem \in [Deliveries -> Memory] /\ pc \in [Deliveries -> Running \cup {"idle", "queued"}]
    BY MemoryFields DEF TypeOK, RowTypes, DeliveryTypes
  <1>n. UNCHANGED <<obj, landed, rpc, prior>>
    BY DEF Persist
  <1>1. CASE PutCapture(d, [new EXCEPT !.fresh = TRUE]) /\ Remember(d, row') /\ Goto(d, p)
    <2>1. /\ row' = [new EXCEPT !.fresh = TRUE] /\ current' = {d} /\ d \in current
          /\ mem'[d].copy = row' /\ mem'[d].dest = mem[d].dest /\ mem'[d].text = mem[d].text
          /\ pc'[d] = p
      BY <1>0, <1>1 DEF PutCapture, Remember, Goto, Memory
    <2>2. Alike(row', new) /\ row'.status = new.status /\ row'.fresh = TRUE
      <3>0. Alike([new EXCEPT !.fresh = TRUE], new)
        BY AlikeFields
      <3>1. Alike(row', new)
        BY <2>1, <3>0
      <3>2. row'.status = new.status /\ row'.fresh = TRUE
        BY <2>1 DEF Row
      <3> QED BY <3>1, <3>2
    <2>3. row.status \notin Gone
      BY <2>1 DEF PromiseInv, GoneIsBare, Exists
    <2>4. Keyed(row', obj') /\ Of(row', mem'[d].text) /\ (Spoken(new) => Spoken(row'))
      BY <1>n, <2>1, <2>2, AlikeSays
    <2>5. InHand(d)'
      BY <1>n, <2>1, <2>2, <2>4 DEF InHand, Alike
    <2>6. \A r \in Requests : r \notin current'
      BY <2>1, ActorsAssumption
    <2>7. Abreast(d)'
      BY <2>1, <2>2, <2>6 DEF Abreast, Alone, IsPending
    <2> QED BY <1>n, <2>1, <2>2, <2>3, <2>4, <2>5, <2>7, SaysWrites DEF Says, Kept, Alike
  <1>2. CASE Concede(d)
    <2>1. UNCHANGED row /\ current' \subseteq current \cup {d} /\ pc'[d] \in {"conceded", "failed"}
      BY <1>0, <1>2, Moves, EmptyValues DEF Concede, At
    <2>2. Says(d)'
      BY <2>1, AtRest
    <2> QED BY <1>n, <2>1, <2>2, SaysOn
  <1> QED BY <1>1, <1>2 DEF Persist

\* An invocation's step, one leaf for each action.
LEMMA SaysRun ==
    ASSUME TypeOK, TypeOK', PromiseInv, OneInv, InTurn, SaysInv, NEW d \in Deliveries,
           Run(d) \/ Fault(d) \/ Crash(d)
    PROVE  SaysInv'
  <1> DEFINE c == mem[d].copy
  <1>0. /\ DeliveryTypes /\ row \in Row /\ c \in Row /\ Source(d) \in Text /\ NoWords \in Text
        /\ mem \in [Deliveries -> Memory] /\ pc \in [Deliveries -> Running \cup {"idle", "queued"}]
        /\ mem[d] \in Memory /\ mem[d].text \in Text /\ c.note \in Notes \cup {None}
        /\ row.note \in Notes \cup {None} /\ NoRow \in Row /\ obj \in Objects
        /\ c.status \in Statuses
    BY MemoryFields, SourceIsText, EmptyValues, RowFields DEF TypeOK, RowTypes, DeliveryTypes
  <1>o. UNCHANGED <<rpc, prior>>
    BY <1>0, OwnStep
  <1>d. CASE row.status = "deleted"
    <2>1. row'.status = "deleted"
      BY <1>d, PromiseRun, OneWay
    <2> QED BY <2>1 DEF SaysInv, RowSays, Says
  <1> SUFFICES ASSUME row.status # "deleted" PROVE SaysInv'
    BY <1>d
  <1>a. /\ Keyed(row, obj) /\ Kept(row, landed) /\ InHand(d) /\ Abreast(d)
        /\ \A r \in Requests : r \in current => Prior(r)
    BY DEF SaysInv, RowSays, Says
  <1>s. pc[d] \in Stages \ {"peaks"} =>
            /\ Keyed(c, obj) /\ Of(c, mem[d].text) /\ c.audio = row.audio /\ row.status # "unborn"
    BY <1>a DEF InHand, Abreast
  <1>b. pc[d] \in Alone =>
            /\ current = {d} /\ row.fresh /\ IsPending(row) /\ row = c
            /\ \A r \in Requests : r \notin current
    BY <1>a, ActorsAssumption DEF Abreast
  <1>c. d \in current => row.status \notin Gone
    BY DEF PromiseInv, GoneIsBare, Exists
  <1>f. Fits(d) /\ There(c, note)
    BY DEF OneInv, Fits
  <1>m. NoMemory.copy = NoRow /\ NoMemory.text = NoWords /\ Of(c, NoWords) /\ Of(row, NoWords)
    BY DEF NoMemory, Of
  <1>e. End(d) \/ Again(d) => mem'[d].text = NoWords /\ pc'[d] \in {"idle", "queued"}
    BY <1>0, <1>m DEF End, Again, NoMemory, Goto
  <1>l. \A k, p : Leave(d, k, p) =>
            pc'[d] = p /\ mem'[d].copy = k /\ mem'[d].text = NoWords
    BY <1>0 DEF Leave, Bare, NoMemory, Goto
  <1>x. \A k, t, p : Answer(d, k, t, p) =>
            /\ pc'[d] = p /\ mem'[d].copy = k /\ mem'[d].text = t
            /\ mem'[d].dest = mem[d].dest
    BY <1>0 DEF Answer, Goto, Memory
  <1>p. MarkAudioProcessed(d) => obj'.raw = obj.raw /\ obj'.routed = obj.routed /\ obj'.clean = obj.clean
    BY <1>0, AudioLeavesTexts DEF MarkAudioProcessed
  <1> HIDE DEF c
  \* The row, the paragraphs and the texts stay.
  <1>t. ASSUME UNCHANGED <<row, landed>>, current' \subseteq current \cup {d}, Says(d)',
               obj'.raw = obj.raw /\ obj'.routed = obj.routed /\ obj'.clean = obj.clean
        PROVE  SaysInv'
    <2>1. \A k : Keyed(k, obj') <=> Keyed(k, obj)
      BY <1>t, SameTexts
    <2> QED BY <1>o, <1>t, <2>1, SaysOn
  <1>r. ASSUME UNCHANGED <<row, landed>>, current' \subseteq current \cup {d},
               obj'.raw = obj.raw /\ obj'.routed = obj.routed /\ obj'.clean = obj.clean,
               pc'[d] \in {"idle", "queued", "failed", "conceded"},
               pc'[d] = "queued" => mem'[d].text = NoWords
        PROVE  SaysInv'
    BY <1>r, <1>t, AtRest
  <1>v. ASSUME NEW s \in Terminal \ {"appended"}, Verdict(d, s), pc[d] \in Stages \ {"peaks"},
               UNCHANGED <<row, current, landed, obj>>
        PROVE  SaysInv'
    <2> DEFINE k == [c EXCEPT !.status = s]
    <2>1. mem'[d].copy = k /\ pc'[d] = "write" /\ mem'[d].text = NoWords
      BY <1>v, <1>l DEF Verdict, c
    <2>2. Alike(k, c)
      BY <1>0, AlikeFields
    <2>3. k.status = s
      BY <1>0 DEF Row
    <2>4. Keyed(k, obj') /\ Of(k, NoWords) /\ k.audio = c.audio
      BY <1>s, <1>v, <2>2, AlikeSays DEF Of, Alike
    <2> HIDE DEF k
    <2>5. InHand(d)'
      BY <1>s, <1>v, <2>1, <2>3, <2>4 DEF InHand, IsTerminal
    <2>6. Abreast(d)'
      BY <1>s, <1>v, <2>1, <2>3 DEF Abreast, Alone
    <2> QED BY <1>t, <1>v, <2>5, <2>6 DEF Says
  <1>1. CASE StartRun(d)
    <2>1. CASE Remember(d, row) /\ Goto(d, FirstStage(row)) /\ current' = current \cup {d}
               /\ UNCHANGED obj /\ Exists
      <3>1. /\ mem'[d].copy = row /\ pc'[d] = FirstStage(row) /\ mem'[d].text = NoWords
        BY <1>0, <1>1, <1>a, <2>1 DEF Remember, Goto, Memory, StartRun, InHand
      <3>2. InHand(d)'
        BY <1>1, <1>a, <1>m, <2>1, <3>1 DEF InHand, StartRun, FirstStage, Keyed
      <3>3. Abreast(d)'
        <4>1. ~row.routed /\ row.raw => \A r \in Requests : r \in current' => ~prior'[r].routed
          BY <1>a, <1>o, <2>1, ActorsAssumption DEF Prior
        <4> QED BY <1>1, <2>1, <3>1, <4>1
                DEF Abreast, Alone, StartRun, FirstStage, Exists, Gone
      <3> QED BY <1>1, <1>t, <2>1, <3>2, <3>3 DEF StartRun, Says
    <2>2. CASE End(d) /\ UNCHANGED current
               /\ (UNCHANGED obj \/ obj' = [obj EXCEPT !.audio = FALSE, !.processed = FALSE])
      <3>0. obj' = [obj EXCEPT !.audio = FALSE, !.processed = FALSE] =>
                obj'.raw = obj.raw /\ obj'.routed = obj.routed /\ obj'.clean = obj.clean
        BY <1>0, AudioLeavesTexts
      <3>1. obj'.raw = obj.raw /\ obj'.routed = obj.routed /\ obj'.clean = obj.clean
        BY <2>2, <3>0
      <3> QED BY <1>1, <1>e, <1>r, <2>2, <3>1 DEF StartRun
    <2>3. CASE Goto(d, "failed") /\ UNCHANGED <<mem, current, obj>>
      <3>1. pc'[d] = "failed"
        BY <1>0, <2>3 DEF Goto
      <3> QED BY <1>1, <1>r, <2>3, <3>1 DEF StartRun
    <2> QED BY <1>1, <2>1, <2>2, <2>3 DEF StartRun
  <1>2. CASE RejectOversized(d)
    <2>0. obj'.raw = obj.raw /\ obj'.routed = obj.routed /\ obj'.clean = obj.clean
      BY <1>0, <1>2, AudioLeavesTexts DEF RejectOversized
    <2>1. CASE /\ Remember(d, [row EXCEPT !.status = "failed"]) /\ Goto(d, "write")
               /\ current' = current \cup {d} /\ Exists
      <3> DEFINE k == [row EXCEPT !.status = "failed"]
      <3>1. mem'[d].copy = k /\ pc'[d] = "write" /\ mem'[d].text = NoWords
        BY <1>0, <1>2, <1>a, <2>1 DEF Remember, Goto, Memory, RejectOversized, InHand
      <3>2. Alike(k, row)
        BY <1>0, AlikeFields
      <3>3. k.status = "failed"
        BY <1>0 DEF Row
      <3>4. Keyed(k, obj') /\ Of(k, NoWords) /\ k.audio = row.audio
        <4>1. Keyed(row, obj')
          BY <1>a, <2>0, SameTexts
        <4> QED BY <3>2, <4>1, AlikeSays DEF Of, Alike
      <3> HIDE DEF k
      <3>5. InHand(d)'
        BY <1>2, <3>1, <3>3, <3>4 DEF InHand, IsTerminal, Terminal, RejectOversized
      <3>6. Abreast(d)'
        BY <1>2, <2>1, <3>1, <3>3 DEF Abreast, Alone, RejectOversized, Exists, Gone, Terminal
      <3> QED BY <1>2, <1>t, <2>0, <2>1, <3>5, <3>6 DEF RejectOversized, Says
    <2>2. CASE End(d) /\ UNCHANGED current
      BY <1>2, <1>e, <1>r, <2>0, <2>2 DEF RejectOversized
    <2> QED BY <1>2, <2>1, <2>2 DEF RejectOversized
  <1>3. CASE Transcribe(d) \/ Route(d) \/ Clean(d) \/ Append(d)
    <2>1. PICK x \in Pending, p \in {"hear", "ask", "tidy", "claim"} :
             /\ Persist(d, [c EXCEPT !.status = x], p)
             /\ pc[d] \in {"transcribe", "route", "clean", "append"}
             /\ p = "hear" => pc[d] = "transcribe"
             /\ p # "hear" => pc[d] \in {"route", "clean", "append"}
             /\ p \in {"tidy", "claim"} => pc[d] \in {"clean", "append"}
      BY <1>3 DEF Transcribe, Route, Clean, Append, SetStatus, Pending, c
    <2> DEFINE new == [c EXCEPT !.status = x]
    <2>2. Alike(new, c)
      BY <1>0, AlikeFields
    <2>3. new \in Row /\ new.status = x
      BY <1>0 DEF Row
    <2>4. pc[d] \in Stages \ {"peaks"}
      BY <2>1 DEF Stages
    <2>5. Keyed(new, obj) /\ Of(new, mem[d].text) /\ new.audio = row.audio
      BY <1>s, <2>2, <2>4, AlikeSays DEF Alike
    <2>6. /\ p = "hear" => ~new.raw
          /\ p \in {"ask", "tidy", "claim"} => new.raw
          /\ p \in {"tidy", "claim"} => Spoken(new)
          /\ p = "claim" => mem[d].dest = new.note /\ new.note # None
      <3>1. Spoken(new) <=> Spoken(c)
        BY <2>2, AlikeSays
      <3> QED BY <1>a, <1>f, <2>1, <2>2, <3>1 DEF InHand, Fits, Alike, c
    <2> HIDE DEF new
    <2>7. Persist(d, new, p) /\ x \notin {"appended", "unborn"} /\ p # "destination"
      BY <2>1 DEF new, Pending
    <2> QED BY <2>3, <2>5, <2>6, <2>7, SaysPersist
  <1>4. CASE Write(d)
    <2>1. PICK p \in {"finished", "destination"} :
             Persist(d, c, p) /\ (p = "destination" => ~IsTerminal(c))
      BY <1>4 DEF Write, c
    <2>2. /\ c.status \notin {"appended", "unborn"} /\ (IsTerminal(c) \/ c.raw)
          /\ p = "destination" => c.status \in Pending
      BY <1>4, <1>a, <2>1 DEF Write, InHand, Abreast, IsTerminal, Terminal, Pending, c
    <2>3. Keyed(c, obj) /\ Of(c, mem[d].text) /\ c.audio = row.audio
      BY <1>4, <1>s DEF Write, Stages
    <2> QED BY <1>0, <2>1, <2>2, <2>3, SaysPersist
  <1>5. CASE Hear(d)
    <2> DEFINE lang == TranscriptionLanguage(d)
               words == [asked |-> c.asked, lang |-> lang, as |-> None]
               heard == [c EXCEPT !.raw = TRUE, !.lang = lang, !.status = "transcribed"]
               silent == [heard EXCEPT !.status = "no_content"]
    <2>0. pc[d] = "hear" /\ pc[d] \in Stages \ {"peaks"} /\ pc[d] \in Alone
      BY <1>5 DEF Hear, Stages, Alone
    <2>1. /\ row = c /\ IsPending(row) /\ ~c.raw /\ ~c.routed /\ ~c.clean
          /\ Keyed(c, obj) /\ c.audio = row.audio
      BY <1>a, <1>b, <1>s, <2>0 DEF InHand, Keyed, c
    <2>2. /\ \A k \in {heard, silent} :
                /\ k.audio = c.audio /\ k.raw = TRUE /\ k.lang = lang /\ k.routed = c.routed
                /\ k.clean = c.clean /\ k.note = c.note /\ k.asked = c.asked
          /\ heard.status = "transcribed" /\ silent.status = "no_content"
      BY <1>0 DEF Row
    <2>3. words.asked = c.asked /\ words.lang = lang
      OBVIOUS
    <2> HIDE DEF heard, silent, words, lang
    <2>4. ASSUME NEW k \in {heard, silent}, NEW t \in {words, NoWords}, obj'.raw = words,
                 NEW p \in {"route", "write"}, mem'[d].copy = k, mem'[d].text = t, pc'[d] = p
          PROVE  SaysInv'
      <3>1. Keyed(row, obj')
        BY <2>1 DEF Keyed
      <3>2. Of(k, words) /\ Of(k, t)
        BY <2>2, <2>3, <2>4 DEF Of
      <3>3. Keyed(k, obj')
        BY <2>1, <2>2, <2>4, <3>2 DEF Keyed
      <3>4. InHand(d)'
        BY <1>5, <2>1, <2>2, <2>4, <3>2, <3>3 DEF InHand, Hear
      <3>5. Abreast(d)'
        BY <1>5, <2>1, <2>2, <2>4 DEF Abreast, Alone, Hear, Terminal, Pending, IsPending
      <3>6. row.status # "unborn"
        BY <2>1 DEF IsPending, Pending
      <3> QED BY <1>5, <1>b, <1>o, <2>0, <3>1, <3>4, <3>5, <3>6, SaysOn DEF Hear, Says, Alone
    <2>5. ASSUME NEW p \in {"route", "write"}, Goto(d, p),
                 mem' = [mem EXCEPT ![d] = Looked(d, [@ EXCEPT !.copy = heard, !.text = words])]
          PROVE  mem'[d].copy = heard /\ mem'[d].text = words /\ pc'[d] = p
      <3>1. /\ Looked(d, [mem[d] EXCEPT !.copy = heard, !.text = words]).copy = heard
            /\ Looked(d, [mem[d] EXCEPT !.copy = heard, !.text = words]).text = words
        BY <1>0 DEF Looked, Memory
      <3> QED BY <1>0, <2>5, <3>1 DEF Goto
    <2>6. obj' = [obj EXCEPT !.raw = words] => obj'.raw = words
      BY <1>0 DEF Objects
    <2>7. CASE /\ obj' = [obj EXCEPT !.raw = words]
               /\ mem' = [mem EXCEPT ![d] = Looked(d, [@ EXCEPT !.copy = heard, !.text = words])]
               /\ Goto(d, IF c.note = None THEN "route" ELSE "write")
      BY <2>4, <2>5, <2>6, <2>7
    <2>8. CASE obj' = [obj EXCEPT !.raw = words] /\ Leave(d, silent, "write")
      BY <1>l, <2>4, <2>6, <2>8
    <2>9. \A status \in {"no_content", "failed"} : Verdict(d, status) /\ UNCHANGED obj => SaysInv'
      BY <1>5, <1>v DEF Hear, Terminal, Stages
    <2> QED BY <1>5, <2>7, <2>8, <2>9 DEF Hear, c, heard, silent, words, lang
  <1>6. CASE AskRouter(d)
    <2> DEFINE k == [c EXCEPT !.routed = TRUE]
               text == IF mem[d].text # NoWords THEN mem[d].text ELSE obj.raw
               parked == [k EXCEPT !.status = "needs_target"]
    <2>0. pc[d] = "ask" /\ pc[d] \in Alone
      BY <1>6 DEF AskRouter, Alone
    <2>1. /\ row = c /\ IsPending(row) /\ c.raw /\ ~c.clean /\ c.note = None
          /\ Keyed(c, obj) /\ Of(c, text) /\ c.audio = row.audio
      BY <1>a, <1>b, <1>f, <1>s, <2>0 DEF Stages, InHand, Keyed, Fits, c
    <2>2. /\ \A n \in Notes :
               LET filed == [k EXCEPT !.note = n, !.status = "transcribed"] IN
               /\ filed.audio = c.audio /\ filed.raw = c.raw /\ filed.lang = c.lang
               /\ filed.clean = c.clean /\ filed.asked = c.asked
               /\ filed.status = "transcribed"
          /\ parked.audio = c.audio /\ parked.raw = c.raw /\ parked.lang = c.lang
          /\ parked.clean = c.clean /\ parked.asked = c.asked
          /\ parked.status = "needs_target"
      BY <1>0 DEF Row
    <2> HIDE DEF k, text, parked
    <2>3. ASSUME NEW new, new.audio = c.audio, new.raw = c.raw, new.lang = c.lang,
                 new.clean = c.clean, new.asked = c.asked,
                 new.status \in {"transcribed", "needs_target"},
                 NEW t \in {text, NoWords}, obj' = [obj EXCEPT !.routed = text],
                 mem'[d].copy = new, mem'[d].text = t, pc'[d] = "write"
          PROVE  SaysInv'
      <3>1. obj'.raw = obj.raw /\ obj'.routed = text /\ obj'.clean = obj.clean
        BY <1>0, <2>3 DEF Objects
      <3>2. Keyed(row, obj')
        BY <2>1, <3>1 DEF Keyed
      <3>3. Of(new, text) /\ Of(new, t) /\ Of(new, obj.raw)
        BY <2>1, <2>3 DEF Of, Keyed
      <3>4. Keyed(new, obj')
        BY <2>1, <2>3, <3>1, <3>3 DEF Keyed
      <3>5. InHand(d)'
        BY <1>6, <2>1, <2>3, <3>3, <3>4 DEF InHand, AskRouter
      <3>6. Abreast(d)'
        BY <1>6, <2>1, <2>3 DEF Abreast, Alone, AskRouter, Terminal, Pending, IsPending
      <3> QED BY <1>6, <1>b, <1>o, <2>0, <3>1, <3>2, <3>5, <3>6, SaysOn DEF AskRouter, Says
    <2>4. CASE Verdict(d, "failed") /\ UNCHANGED obj
      BY <1>6, <1>v, <2>0, <2>4 DEF AskRouter, Terminal, Stages
    <2>5. ASSUME NEW n \in Notes, obj' = [obj EXCEPT !.routed = text], Goto(d, "write"),
                 mem' = [mem EXCEPT ![d].copy = [k EXCEPT !.note = n, !.status = "transcribed"],
                                    ![d].text = text, ![d].dest = n, ![d].seen = "active"]
          PROVE  SaysInv'
      <3> DEFINE new == [k EXCEPT !.note = n, !.status = "transcribed"]
      <3>1. mem'[d].copy = new /\ mem'[d].text = text /\ pc'[d] = "write"
        BY <1>0, <2>5 DEF Goto, Memory
      <3>2. /\ new.audio = c.audio /\ new.raw = c.raw /\ new.lang = c.lang
            /\ new.clean = c.clean /\ new.asked = c.asked /\ new.status = "transcribed"
        BY <2>2
      <3> HIDE DEF new
      <3> QED BY <2>3, <2>5, <3>1, <3>2
    <2>6. CASE /\ Goto(d, "write") /\ obj' = [obj EXCEPT !.routed = text]
               /\ mem' = [mem EXCEPT ![d] = Bare(d, parked)]
      <3>1. Leave(d, parked, "write")
        BY <2>6 DEF Leave
      <3> QED BY <1>l, <2>2, <2>3, <2>6, <3>1
    <2> QED BY <1>6, <2>4, <2>5, <2>6, NotesAssumption DEF AskRouter, c, k, text, parked
  <1>7. CASE Destination(d)
    <2>0. pc[d] = "destination" /\ pc[d] \in Stages \ {"peaks"}
      BY <1>7 DEF Destination, Stages
    <2>1. /\ c.note # None /\ note[c.note] # "absent" /\ mem[d].seen # "absent"
          /\ c.raw /\ Keyed(c, obj) /\ Of(c, mem[d].text) /\ c.audio = row.audio
          /\ row.status # "unborn"
      BY <1>0, <1>a, <1>f, <1>s, <2>0 DEF Fits, There, InHand, Memory, c
    <2>2. CASE Verdict(d, "failed")
      BY <1>7, <1>v, <2>0, <2>2 DEF Destination, Terminal
    <2> DEFINE m == [mem[d] EXCEPT !.dest = c.note, !.seen = "active"]
               again == [c EXCEPT !.raw = FALSE, !.routed = FALSE]
    <2>3. CASE /\ WantsNoteLanguage(c)
               /\ mem' = [mem EXCEPT ![d] = [m EXCEPT !.copy = again]]
               /\ Goto(d, "transcribe")
      <3>1. mem'[d].copy = again /\ mem'[d].text = mem[d].text /\ pc'[d] = "transcribe"
        BY <1>0, <2>3 DEF Goto, Memory
      <3>2. /\ ~again.raw /\ ~again.routed /\ again.clean = c.clean /\ again.audio = c.audio
            /\ again.asked = c.asked /\ again.lang = c.lang
        BY <1>0 DEF Row
      <3> HIDE DEF again, m
      <3>3. Keyed(again, obj) /\ Of(again, mem[d].text)
        BY <2>1, <2>3, <3>2 DEF Keyed, Of, WantsNoteLanguage
      <3>4. InHand(d)'
        BY <1>7, <2>1, <3>1, <3>2, <3>3 DEF InHand, Destination
      <3>5. Abreast(d)'
        BY <1>7, <2>1, <3>1 DEF Abreast, Alone, Destination
      <3> QED BY <1>7, <1>t, <3>4, <3>5 DEF Destination, Says
    <2>4. CASE /\ ~WantsNoteLanguage(c) /\ mem' = [mem EXCEPT ![d] = m]
               /\ Goto(d, IF c.clean THEN "append" ELSE IF c.routed THEN "clean" ELSE "strip")
      <3>1. /\ mem'[d].copy = c /\ mem'[d].text = mem[d].text
            /\ pc'[d] \in {"append", "clean", "strip"}
            /\ pc'[d] = "strip" => ~c.routed /\ ~c.clean
        BY <1>0, <2>4 DEF Goto, Memory, c
      <3> HIDE DEF m
      <3>2. Spoken(c)
        BY <2>1, <2>4 DEF Keyed, Spoken, WantsNoteLanguage
      <3>3. InHand(d)'
        BY <1>7, <2>1, <3>1, <3>2 DEF InHand, Destination
      <3>4. ~c.routed => ~row.routed /\ \A r \in Requests : r \in current => ~prior[r].routed
        BY <1>a, <2>0 DEF Abreast, c
      <3>5. Abreast(d)'
        BY <1>7, <1>o, <2>1, <3>1, <3>4 DEF Abreast, Alone, Destination
      <3> QED BY <1>7, <1>t, <3>3, <3>5 DEF Destination, Says
    <2> QED BY <1>7, <2>1, <2>2, <2>3, <2>4 DEF Destination, FreesCapture, c
  <1>8. CASE Strip(d)
    <2>0. pc[d] = "strip" /\ pc[d] \in Stages \ {"peaks"}
      BY <1>8 DEF Strip, Stages
    <2>1. /\ Keyed(c, obj) /\ Of(c, mem[d].text) /\ c.audio = row.audio /\ row.status # "unborn"
          /\ c.raw /\ Spoken(c) /\ ~c.routed /\ ~c.clean
          /\ ~row.routed /\ \A r \in Requests : r \in current => ~prior[r].routed
      BY <1>a, <1>s, <2>0 DEF InHand, Abreast, c
    <2>2. Of(c, Source(d))
      BY <2>1, SourceSays DEF c
    <2>3. CASE Verdict(d, "failed") /\ UNCHANGED obj
      BY <1>8, <1>v, <2>0, <2>3 DEF Strip, Terminal
    <2>4. CASE Answer(d, c, Source(d), "clean") /\ UNCHANGED obj
      <3>1. mem'[d].copy = c /\ mem'[d].text = Source(d) /\ pc'[d] = "clean"
        BY <1>x, <2>4
      <3>2. InHand(d)'
        BY <1>8, <2>1, <2>2, <2>4, <3>1 DEF InHand, Strip
      <3>3. Abreast(d)'
        BY <1>8, <2>1, <3>1 DEF Abreast, Alone, Strip
      <3> QED BY <1>8, <1>t, <2>4, <3>2, <3>3 DEF Strip, Says
    <2> DEFINE k == [c EXCEPT !.routed = TRUE]
    <2>5. CASE obj' = [obj EXCEPT !.routed = Source(d)] /\ Answer(d, k, Source(d), "clean")
      <3>1. mem'[d].copy = k /\ mem'[d].text = Source(d) /\ pc'[d] = "clean"
        BY <1>x, <2>5
      <3>2. /\ k.audio = c.audio /\ k.raw = c.raw /\ k.lang = c.lang /\ k.clean = c.clean
            /\ k.note = c.note /\ k.asked = c.asked
        BY <1>0 DEF Row
      <3> HIDE DEF k
      <3>3. obj'.raw = obj.raw /\ obj'.routed = Source(d) /\ obj'.clean = obj.clean
        BY <1>0, <2>5 DEF Objects
      <3>4. Of(k, Source(d)) /\ Keyed(k, obj') /\ Spoken(k)
        BY <2>1, <2>2, <3>2, <3>3 DEF Of, Keyed, Spoken
      <3>5. InHand(d)'
        BY <1>8, <2>1, <3>1, <3>2, <3>4 DEF InHand, Strip
      <3>6. Abreast(d)'
        BY <1>8, <2>1, <3>1 DEF Abreast, Alone, Strip
      <3>7. \A j : ~j.routed /\ Keyed(j, obj) => Keyed(j, obj')
        BY <3>3 DEF Keyed
      <3> QED BY <1>8, <1>o, <2>1, <3>3, <3>5, <3>6, <3>7, SaysOn DEF Strip, Says
    <2> QED BY <1>8, <2>3, <2>4, <2>5 DEF Strip, c
  <1>9. CASE Tidy(d)
    <2>0. pc[d] = "tidy" /\ pc[d] \in Stages \ {"peaks"} /\ pc[d] \in Alone /\ Source(d) \in Words
      BY <1>0, <1>9 DEF Tidy, Stages, Alone, Text
    <2>1. /\ Keyed(c, obj) /\ Of(c, mem[d].text) /\ c.audio = row.audio /\ row = c
          /\ c.raw /\ Spoken(c) /\ c.note # None /\ IsPending(row)
      BY <1>a, <1>b, <1>f, <1>s, <2>0 DEF InHand, Fits, c
    <2>2. Of(c, Source(d))
      BY <2>1, SourceSays DEF c
    <2>3. \A s \in {"no_content", "failed"} : Verdict(d, s) /\ UNCHANGED obj => SaysInv'
      BY <1>9, <1>v, <2>0 DEF Tidy, Terminal
    <2> DEFINE k == [c EXCEPT !.clean = TRUE, !.status = "cleaned"]
    <2>4. /\ k.audio = c.audio /\ k.raw = c.raw /\ k.lang = c.lang /\ k.routed = c.routed
          /\ k.note = c.note /\ k.asked = c.asked
      BY <1>0 DEF Row
    <2>5. ASSUME NEW a \in Answers, obj' = [obj EXCEPT !.clean = [Source(d) EXCEPT !.as = a]],
                 Answer(d, k, [Source(d) EXCEPT !.as = a], "append")
          PROVE  SaysInv'
      <3> DEFINE words == [Source(d) EXCEPT !.as = a]
      <3>1. mem'[d].copy = k /\ mem'[d].text = words /\ pc'[d] = "append"
        BY <1>x, <2>5
      <3>2. words.asked = Source(d).asked /\ words.lang = Source(d).lang /\ Source(d) # NoWords
        BY <1>9, <2>0 DEF Words, Tidy
      <3>3. obj'.raw = obj.raw /\ obj'.routed = obj.routed /\ obj'.clean = words
        BY <1>0, <2>5 DEF Objects
      <3> HIDE DEF words, k
      <3>4. Of(c, words) /\ Of(k, words)
        BY <2>2, <2>4, <3>2 DEF Of
      <3>5. Keyed(row, obj') /\ Keyed(k, obj') /\ Spoken(k)
        BY <2>1, <2>4, <3>3, <3>4 DEF Keyed, Spoken, Of
      <3>6. InHand(d)'
        BY <1>9, <2>1, <2>4, <3>1, <3>4, <3>5 DEF InHand, Tidy
      <3>7. Abreast(d)'
        BY <1>9, <2>1, <3>1 DEF Abreast, Alone, Tidy, IsPending, Pending
      <3> QED BY <1>9, <1>b, <1>o, <2>0, <3>3, <3>5, <3>6, <3>7, SaysOn DEF Tidy, Says
    <2> QED BY <1>9, <2>3, <2>5 DEF Tidy, c
  <1>10. CASE ClaimCaptureAppend(d)
    <2>0. pc[d] = "claim" /\ pc[d] \in Stages \ {"peaks"} /\ pc[d] \in Alone
      BY <1>10 DEF ClaimCaptureAppend, Stages, Alone
    <2>1. /\ Keyed(c, obj) /\ Of(c, mem[d].text) /\ row = c /\ c.raw /\ Spoken(c) /\ IsPending(row)
          /\ mem[d].dest = c.note /\ c.note # None /\ current = {d} /\ row.fresh
      BY <1>a, <1>b, <1>s, <2>0 DEF InHand, c
    <2>2. Of(c, Source(d)) /\ Source(d) # NoWords
      BY <1>10, <2>1, SourceSays DEF c, ClaimCaptureAppend
    <2>3. row.status \notin Gone \cup {"appended"}
      BY <2>1 DEF IsPending, Pending, Gone
    <2> DEFINE k == [row EXCEPT !.held = TRUE, !.leased = TRUE]
    <2>4. CASE row' = k /\ current' = {d} /\ Answer(d, row', Source(d), "land")
      <3>1. mem'[d].copy = row' /\ mem'[d].text = Source(d) /\ pc'[d] = "land"
            /\ mem'[d].dest = mem[d].dest
        BY <1>x, <2>4
      <3>2. Alike(k, row)
        BY <1>0, AlikeFields
      <3>3. k.status = row.status /\ k.fresh = row.fresh
        BY <1>0 DEF Row
      <3> HIDE DEF k
      <3>4. Keyed(k, obj) /\ Of(k, Source(d)) /\ Spoken(k) /\ k.note = c.note /\ k.audio = row.audio
        BY <2>1, <2>2, <3>2, AlikeSays DEF Alike
      <3>5. InHand(d)'
        BY <1>10, <2>1, <2>2, <2>4, <3>1, <3>4 DEF InHand, ClaimCaptureAppend
      <3>6. Abreast(d)'
        BY <2>1, <2>3, <2>4, <3>1, <3>3 DEF Abreast, Alone, IsPending, Gone
      <3>7. Keyed(row', obj') /\ Kept(row', landed') /\ row'.audio = row.audio
        BY <1>10, <2>3, <2>4, <3>3, <3>4 DEF Kept, ClaimCaptureAppend
      <3> QED BY <1>o, <2>3, <2>4, <3>3, <3>5, <3>6, <3>7, SaysWrites DEF Says, Gone
    <2>5. CASE UNCHANGED row /\ current' = current \cup {d} /\ Leave(d, row, "finished")
      <3>1. mem'[d].copy = row /\ pc'[d] = "finished"
        BY <1>l, <2>5
      <3>2. InHand(d)' /\ Abreast(d)'
        BY <2>3, <2>5, <3>1 DEF InHand, Abreast, Alone, Stages, Gone
      <3> QED BY <1>10, <1>t, <2>5, <3>2 DEF ClaimCaptureAppend, Says
    <2>6. CASE UNCHANGED row /\ current' = current \cup {d} /\ Answer(d, row, Source(d), "check")
      <3>1. mem'[d].copy = row /\ mem'[d].text = Source(d) /\ pc'[d] = "check"
            /\ mem'[d].dest = mem[d].dest
        BY <1>x, <2>6
      <3>2. InHand(d)'
        BY <1>10, <2>1, <2>2, <2>6, <3>1 DEF InHand, ClaimCaptureAppend
      <3>3. Abreast(d)'
        BY <2>1, <2>3, <2>6, <3>1 DEF Abreast, Alone, IsPending, Gone
      <3> QED BY <1>10, <1>t, <2>6, <3>2, <3>3 DEF ClaimCaptureAppend, Says
    <2> QED BY <1>10, <2>4, <2>5, <2>6 DEF ClaimCaptureAppend
  <1>11. CASE Land(d)
    <2>0. pc[d] = "land" /\ pc[d] \in Stages \ {"peaks"} /\ pc[d] \in Alone
      BY <1>11 DEF Land, Stages, Alone
    <2>1. /\ Keyed(c, obj) /\ Of(c, mem[d].text) /\ row = c /\ Spoken(c) /\ IsPending(row)
          /\ mem[d].dest = c.note /\ c.note \in Notes /\ c.note # None /\ mem[d].text # NoWords
          /\ current = {d} /\ row.fresh
      BY <1>0, <1>a, <1>b, <1>s, <2>0 DEF InHand, c
    <2>2. row.status \notin Gone \cup {"appended"}
      BY <2>1 DEF IsPending, Pending, Gone
    <2>3. CASE landed' = [landed EXCEPT ![mem[d].dest] = mem[d].text] /\ Answer(d, c, NoWords, "complete")
      <3>1. mem'[d].copy = c /\ mem'[d].text = NoWords /\ pc'[d] = "complete"
            /\ mem'[d].dest = mem[d].dest
        BY <1>x, <2>3
      <3>2. landed'[c.note] = mem[d].text
        BY <2>1, <2>3 DEF TypeOK, NoteTypes
      <3>3. Fulfilled(c, landed')
        BY <2>1, <3>2 DEF Fulfilled, Of, Spoken
      <3>4. InHand(d)'
        BY <1>11, <1>m, <2>1, <3>1, <3>3 DEF InHand, Land
      <3>5. Abreast(d)'
        BY <1>11, <2>1, <2>2, <3>1 DEF Abreast, Alone, Land, IsPending, Gone
      <3>6. Kept(row, landed') /\ \A r \in Requests : r \notin current
        BY <1>b, <2>0, <2>2 DEF Kept
      <3> QED BY <1>11, <1>o, <3>4, <3>5, <3>6, SaysOn DEF Land, Says
    <2>4. CASE /\ mem' = [mem EXCEPT ![d].seen = "archived"] \/ UNCHANGED mem
               /\ Goto(d, "unclaim") /\ UNCHANGED landed
      <3>1. mem'[d].copy = c /\ mem'[d].text = mem[d].text /\ pc'[d] = "unclaim"
        BY <1>0, <2>4 DEF Goto, Memory, c
      <3>2. InHand(d)'
        BY <1>11, <2>1, <3>1 DEF InHand, Land
      <3>3. Abreast(d)'
        BY <1>11, <2>1, <2>2, <3>1 DEF Abreast, Alone, Land, IsPending, Gone
      <3> QED BY <1>11, <1>t, <2>4, <3>2, <3>3 DEF Land, Says
    <2> QED BY <1>11, <2>3, <2>4 DEF Land, c
  <1>12. CASE ReleaseAppendClaim(d)
    <2>0. pc[d] = "unclaim" /\ pc[d] \in Stages \ {"peaks"} /\ pc[d] \in Alone
      BY <1>12 DEF ReleaseAppendClaim, Stages, Alone
    <2>1. Keyed(c, obj) /\ row = c /\ IsPending(row) /\ d \in current
      BY <1>a, <1>b, <1>s, <2>0 DEF InHand, c
    <2>2. row.status \notin Gone \cup {"appended"}
      BY <2>1 DEF IsPending, Pending, Gone
    <2> DEFINE free == [c EXCEPT !.held = FALSE, !.leased = FALSE]
               failed == [free EXCEPT !.status = "failed"]
    <2>3. /\ row' = free /\ current' = {d}
          /\ Leave(d, failed, "write") \/ Leave(d, free, "failed")
      BY <1>12, <2>1 DEF ReleaseAppendClaim, PutCapture, c
    <2>4. Alike(free, c) /\ Alike(failed, c)
      <3>1. Alike(free, c)
        BY <1>0, AlikeFields
      <3>2. free \in Row
        BY <1>0, RowChanges
      <3> HIDE DEF free
      <3>3. Alike(failed, free)
        BY <3>2, AlikeFields
      <3> QED BY <3>1, <3>3 DEF Alike
    <2>5. free.status = c.status /\ failed.status = "failed"
      BY <1>0 DEF Row
    <2> HIDE DEF free, failed
    <2>6. /\ Keyed(free, obj) /\ Keyed(failed, obj) /\ Of(failed, NoWords)
          /\ free.audio = c.audio /\ failed.audio = c.audio
      BY <2>1, <2>4, AlikeSays DEF Alike, Of
    <2>7. Says(d)'
      <3>1. CASE Leave(d, failed, "write")
        <4>1. mem'[d].copy = failed /\ mem'[d].text = NoWords /\ pc'[d] = "write"
          BY <1>l, <3>1
        <4>2. InHand(d)'
          BY <1>12, <2>1, <2>3, <2>5, <2>6, <4>1
             DEF InHand, ReleaseAppendClaim, IsTerminal, Terminal
        <4>3. Abreast(d)'
          BY <2>1, <2>2, <2>3, <2>5, <4>1 DEF Abreast, Alone, Terminal, Gone
        <4> QED BY <4>2, <4>3 DEF Says
      <3>2. CASE Leave(d, free, "failed")
        BY <1>l, <3>2, AtRest
      <3> QED BY <2>3, <3>1, <3>2
    <2>8. Kept(row', landed') /\ Keyed(row', obj')
      BY <1>12, <2>1, <2>2, <2>3, <2>5, <2>6 DEF Kept, ReleaseAppendClaim
    <2> QED BY <1>o, <2>1, <2>2, <2>3, <2>5, <2>6, <2>7, <2>8, SaysWrites DEF Gone
  <1>13. CASE CheckNote(d)
    <2>0. pc[d] = "check" /\ pc[d] \in Stages \ {"peaks"} /\ pc[d] \in Alone
      BY <1>13 DEF CheckNote, Stages, Alone
    <2>1. /\ Keyed(c, obj) /\ Of(c, mem[d].text) /\ row = c /\ Spoken(c) /\ IsPending(row)
          /\ mem[d].dest = c.note /\ c.note # None /\ mem[d].text # NoWords
          /\ current = {d} /\ row.fresh /\ row.status # "unborn"
      BY <1>a, <1>b, <1>s, <2>0 DEF InHand, c
    <2>2. CASE landed[mem[d].dest] = mem[d].text /\ Answer(d, c, NoWords, "complete")
      <3>1. mem'[d].copy = c /\ mem'[d].text = NoWords /\ pc'[d] = "complete"
            /\ mem'[d].dest = mem[d].dest
        BY <1>x, <2>2
      <3>2. Fulfilled(c, landed)
        BY <2>1, <2>2 DEF Fulfilled, Of, Spoken
      <3>3. InHand(d)'
        BY <1>13, <1>m, <2>1, <3>1, <3>2 DEF InHand, CheckNote
      <3>4. Abreast(d)'
        BY <1>13, <2>1, <3>1 DEF Abreast, Alone, CheckNote, IsPending
      <3> QED BY <1>13, <1>t, <3>3, <3>4 DEF CheckNote, Says
    <2>3. CASE Leave(d, c, "failed")
      BY <1>13, <1>l, <1>r, <2>3 DEF CheckNote
    <2> QED BY <1>13, <2>2, <2>3 DEF CheckNote, c
  <1>14. CASE CompleteCaptureAppend(d)
    <2>0. pc[d] = "complete" /\ pc[d] \in Stages \ {"peaks"} /\ pc[d] \in Alone
      BY <1>14 DEF CompleteCaptureAppend, Stages, Alone
    <2>1. /\ Keyed(row, obj) /\ row = c /\ IsPending(row) /\ Fulfilled(row, landed)
          /\ row.status # "unborn"
      BY <1>a, <1>b, <1>s, <2>0 DEF InHand, c
    <2> DEFINE k == [row EXCEPT !.status = "appended", !.done = TRUE]
    <2>2. CASE row' = k /\ current' = {d} /\ Leave(d, row', "finished")
      <3>1. mem'[d].copy = row' /\ pc'[d] = "finished"
        BY <1>l, <2>2
      <3>2. Alike(k, row)
        BY <1>0, AlikeFields
      <3>3. k.status = "appended"
        BY <1>0 DEF Row
      <3> HIDE DEF k
      <3>4. Keyed(row', obj') /\ Kept(row', landed') /\ row'.audio = row.audio
        BY <1>14, <2>1, <2>2, <3>2, AlikeSays DEF Kept, CompleteCaptureAppend, Alike
      <3>5. InHand(d)' /\ Abreast(d)'
        BY <2>2, <3>1, <3>3 DEF InHand, Abreast, Alone, Stages
      <3>6. row.status \notin Gone
        BY <2>1 DEF IsPending, Pending, Gone
      <3> QED BY <1>o, <2>2, <3>3, <3>4, <3>5, <3>6, SaysWrites DEF Says
    <2>3. CASE UNCHANGED row /\ current' = current \cup {d} /\ Leave(d, row, "finished")
      <3>1. mem'[d].copy = row /\ pc'[d] = "finished"
        BY <1>l, <2>3
      <3>2. InHand(d)' /\ Abreast(d)'
        BY <2>1, <2>3, <3>1 DEF InHand, Abreast, Alone, Stages
      <3> QED BY <1>14, <1>t, <2>3, <3>2 DEF CompleteCaptureAppend, Says
    <2>4. CASE UNCHANGED <<row, current>> /\ Leave(d, c, "failed")
      BY <1>14, <1>l, <1>r, <2>4 DEF CompleteCaptureAppend
    <2> QED BY <1>14, <2>2, <2>3, <2>4 DEF CompleteCaptureAppend, c
  <1>15. CASE Finish(d)
    <2>1. obj'.raw = obj.raw /\ obj'.routed = obj.routed /\ obj'.clean = obj.clean
      BY <1>15, <1>p DEF Finish
    <2>2. CASE Goto(d, "peaks") /\ UNCHANGED <<mem, current>>
      <3>1. pc'[d] = "peaks" /\ mem'[d] = mem[d] /\ pc[d] = "finished"
        BY <1>0, <1>15, <2>2 DEF Goto, Finish
      <3>2. InHand(d)'
        BY <3>1 DEF InHand, Stages
      <3>3. Abreast(d)'
        BY <1>15, <1>a, <2>2, <3>1 DEF Abreast, Alone, Stages, Finish
      <3> QED BY <1>15, <1>t, <2>1, <2>2, <3>2, <3>3 DEF Finish, Says
    <2>3. CASE End(d) /\ Release(d)
      BY <1>15, <1>e, <1>r, <2>1, <2>3 DEF Finish, Release
    <2> QED BY <1>15, <2>2, <2>3 DEF Finish
  <1>16. CASE VerifyPeaks(d)
    <2> DEFINE k == [c EXCEPT !.peaks = FALSE, !.fresh = TRUE]
    <2>1. CASE d \in current /\ row' = k /\ current' = {} /\ End(d)
      <3>1. row = c /\ row.status \notin Gone
        BY <1>16, <1>a, <1>c, <2>1 DEF Abreast, VerifyPeaks, c
      <3>2. Alike(k, c)
        BY <1>0, AlikeFields
      <3>3. k.status = c.status
        BY <1>0 DEF Row
      <3> HIDE DEF k
      <3>4. Keyed(row', obj') /\ Kept(row', landed') /\ row'.audio = row.audio
        BY <1>16, <1>a, <2>1, <3>1, <3>2, <3>3, AlikeSays DEF Kept, VerifyPeaks, Alike
      <3>5. Says(d)'
        BY <1>e, <2>1, AtRest
      <3> QED BY <1>o, <2>1, <3>1, <3>3, <3>4, <3>5, SaysWrites DEF Gone
    <2>2. CASE UNCHANGED row /\ Release(d) /\ End(d)
      BY <1>16, <1>e, <1>r, <2>2 DEF VerifyPeaks, Release
    <2>3. CASE UNCHANGED <<row, current>> /\ Remember(d, row) /\ Goto(d, "failed")
      <3>1. pc'[d] = "failed"
        BY <1>0, <2>3 DEF Goto
      <3> QED BY <1>16, <1>r, <2>3, <3>1 DEF VerifyPeaks
    <2> QED BY <1>16, <2>1, <2>2, <2>3 DEF VerifyPeaks, c
  <1>17. CASE Conceded(d)
    BY <1>17, <1>e, <1>p, <1>r DEF Conceded, Release
  <1>18. CASE Failed(d)
    <2>1. obj'.raw = obj.raw /\ obj'.routed = obj.routed /\ obj'.clean = obj.clean
      BY <1>18, <1>p DEF Failed
    <2>2. pc'[d] \in {"idle", "queued"} /\ mem'[d].text = NoWords
      BY <1>18, <1>e DEF Failed
    <2> DEFINE k == [row EXCEPT !.status = "failed", !.fresh = TRUE]
    <2>3. CASE IsPending(row) /\ row' = k /\ current' = {}
      <3>1. Alike(k, row)
        BY <1>0, AlikeFields
      <3>2. k.status = "failed"
        BY <1>0 DEF Row
      <3> HIDE DEF k
      <3>3. Keyed(row', obj)
        BY <1>a, <2>3, <3>1, AlikeSays
      <3>4. Keyed(row', obj') /\ Kept(row', landed') /\ row'.audio = row.audio
        BY <2>1, <2>3, <3>1, <3>2, <3>3, SameTexts DEF Kept, Alike
      <3>5. Says(d)'
        BY <2>2, AtRest
      <3>6. row.status \notin Gone
        BY <2>3 DEF IsPending, Pending, Gone
      <3> QED BY <1>o, <2>3, <3>2, <3>4, <3>5, <3>6, SaysWrites
    <2>4. CASE UNCHANGED row /\ Release(d)
      BY <1>18, <1>r, <2>1, <2>2, <2>4 DEF Failed, Release
    <2> QED BY <1>18, <2>3, <2>4 DEF Failed
  <1>19. CASE MissingObject(d)
    <2>1. pc'[d] = "failed"
      BY <1>19, <1>l DEF MissingObject
    <2> QED BY <1>19, <1>r, <2>1 DEF MissingObject
  <1>20. CASE Fault(d)
    <2>1. CASE pc[d] = "land" /\ Goto(d, "unclaim") /\ UNCHANGED mem
      <3>0. pc[d] \in Stages \ {"peaks"} /\ pc[d] \in Alone
        BY <2>1 DEF Stages, Alone
      <3>1. /\ Keyed(c, obj) /\ Of(c, mem[d].text) /\ row = c /\ IsPending(row)
            /\ current = {d} /\ row.fresh /\ row.status # "unborn"
        BY <1>b, <1>s, <3>0
      <3>2. mem'[d].copy = c /\ mem'[d].text = mem[d].text /\ pc'[d] = "unclaim"
        BY <1>0, <2>1 DEF Goto, c
      <3>3. InHand(d)'
        BY <1>20, <3>1, <3>2 DEF InHand, Fault
      <3>4. Abreast(d)'
        BY <1>20, <3>1, <3>2 DEF Abreast, Alone, Fault, IsPending
      <3> QED BY <1>20, <1>t, <3>3, <3>4 DEF Fault, Says
    <2>2. CASE Leave(d, c, "failed")
      <3>1. pc'[d] = "failed"
        BY <1>l, <2>2
      <3> QED BY <1>20, <1>r, <3>1 DEF Fault
    <2> QED BY <1>20, <2>1, <2>2 DEF Fault, c
  <1>21. CASE Crash(d)
    BY <1>21, <1>e, <1>r DEF Crash, Release
  <1> QED
    BY <1>1, <1>2, <1>3, <1>4, <1>5, <1>6, <1>7, <1>8, <1>9, <1>10, <1>11, <1>12, <1>13,
       <1>14, <1>15, <1>16, <1>17, <1>18, <1>19, <1>20, <1>21 DEF Run

-----------------------------------------------------------------------------
(* The steps that are no invocation's.                                     *)

\* What a reader may be in the middle of while a step goes on elsewhere.
Onlooker(x) ==
    \/ pc'[x] = pc[x] /\ mem'[x] = mem[x]
    \/ pc'[x] = "queued" /\ mem'[x].text = NoWords

\* One that leaves the row alone.
LEMMA SaysOutside ==
    ASSUME SaysInv, UNCHANGED <<row, landed>>, \A x \in Deliveries : Onlooker(x),
           current' \subseteq current, \A x \in Deliveries : x \in current => x \in current',
           \A q \in Requests : /\ rpc'[q] = "putText" => rpc[q] = "putText"
                               /\ q \in current' => prior'[q] = prior[q],
           row.status = "unborn" => obj'.raw = obj.raw,
           \A k : k.audio = row.audio /\ Keyed(k, obj) => Keyed(k, obj')
    PROVE  SaysInv'
  <1>1. RowSays'
    BY DEF SaysInv, RowSays, Prior
  <1>2. ASSUME NEW x \in Deliveries, row.status # "deleted" PROVE InHand(x)' /\ Abreast(x)'
    <2>1. InHand(x) /\ Abreast(x)
      BY <1>2 DEF SaysInv, Says
    <2>2. CASE pc'[x] = pc[x] /\ mem'[x] = mem[x]
      <3>1. pc[x] \in Alone => current' = current
        BY <1>2, <2>1 DEF Abreast
      <3>2. InHand(x)'
        BY <2>1, <2>2 DEF InHand, IsTerminal
      <3>3. Abreast(x)'
        BY <2>1, <2>2, <3>1 DEF Abreast, IsPending
      <3> QED BY <3>2, <3>3
    <2>3. CASE pc'[x] = "queued" /\ mem'[x].text = NoWords
      BY <2>3 DEF InHand, Abreast, Stages, Alone
    <2> QED BY <1>2, <2>2, <2>3 DEF Onlooker
  <1> QED BY <1>1, <1>2 DEF SaysInv, Says

\* One that writes the row, where no invocation has it to itself.
LEMMA SaysRewritten ==
    ASSUME SaysInv, UNCHANGED <<pc, mem, obj, landed>>, row.status # "deleted",
           row'.status = "unborn" => row.status = "unborn", row'.audio = row.audio,
           Keyed(row', obj), Kept(row', landed),
           \A x \in Deliveries : x \notin current' /\ pc[x] \notin Alone,
           \A q \in Requests : rpc'[q] = "putText" => rpc[q] = "putText",
           \A q \in Requests : q \in current' => Prior(q)' /\ (~row.routed => ~prior'[q].routed),
           ~row.routed /\ (\A q \in Requests : q \in current => ~prior[q].routed) => ~row'.routed
    PROVE  SaysInv'
  <1>1. RowSays'
    BY DEF SaysInv, RowSays
  <1>2. ASSUME NEW x \in Deliveries PROVE InHand(x)' /\ Abreast(x)'
    <2>1. InHand(x) /\ Abreast(x)
      BY DEF SaysInv, Says
    <2>2. InHand(x)'
      BY <2>1 DEF InHand, IsTerminal
    <2>3. Abreast(x)'
      BY <2>1 DEF Abreast
    <2> QED BY <2>2, <2>3
  <1> QED BY <1>1, <1>2 DEF SaysInv, Says

\* One that takes the recording in.
LEMMA SaysBegins ==
    ASSUME SaysInv, UNCHANGED <<pc, mem, obj, landed, current>>, current = {},
           row.status = "unborn", row'.status \in Pending, Keyed(row', obj),
           \A q \in Requests : rpc'[q] = "putText" => ~row'.audio
    PROVE  SaysInv'
  <1>1. RowSays'
    BY DEF SaysInv, RowSays, Kept, Pending
  <1>2. ASSUME NEW x \in Deliveries PROVE InHand(x)' /\ Abreast(x)'
    <2>1. InHand(x) /\ Abreast(x)
      BY DEF SaysInv, Says
    <2>2. pc[x] \notin Stages \cup {"finished"}
      BY <2>1 DEF Abreast
    <2> QED BY <2>1, <2>2 DEF InHand, Abreast, Alone, Stages, Pending
  <1> QED BY <1>1, <1>2 DEF SaysInv, Says

\* A row that is gone says nothing.
LEMMA SaysNothing == row'.status = "deleted" => SaysInv'
  BY DEF SaysInv, RowSays, Says

\* An invocation that is asked for.
LEMMA SaysQueued ==
    ASSUME DeliveryTypes, NEW d \in Deliveries, NEW by, Queue(d, by)
    PROVE  \A x \in Deliveries : Onlooker(x)
  <1>1. pc'[d] = "queued" /\ mem'[d].text = NoWords
    BY DEF DeliveryTypes, Queue, Goto, NoMemory
  <1>2. \A x \in Deliveries \ {d} : pc'[x] = pc[x] /\ mem'[x] = mem[x]
    BY DEF DeliveryTypes, Queue, Goto
  <1> QED BY <1>1, <1>2 DEF Onlooker

\* A request's step.
LEMMA SaysRequest ==
    ASSUME TypeOK, PromiseInv, HeldInv, OneInv, SaysInv, ~MayBeDeleted, NEW r \in Requests,
           Handle(r) \/ Operation(r) \/ InvokeFails(r) \/ RequestDies(r)
    PROVE  SaysInv'
  <1>0. /\ rpc \in [Requests -> RequestPC] /\ prior \in [Requests -> Row]
        /\ row \in Row /\ prior[r] \in Row /\ DeliveryTypes /\ NoRow \in Row /\ obj \in Objects
    BY EmptyValues DEF TypeOK, RequestTypes, RowTypes
  <1>b. Answered(r) => /\ rpc'[r] = "idle" /\ prior'[r] = NoRow
                       /\ \A q \in Requests \ {r} : rpc'[q] = rpc[q] /\ prior'[q] = prior[q]
    BY <1>0 DEF Answered
  <1>c. \A p : rpc' = [rpc EXCEPT ![r] = p] =>
            rpc'[r] = p /\ \A q \in Requests \ {r} : rpc'[q] = rpc[q]
    BY <1>0
  <1>d. CASE row.status = "deleted"
    <2>1. row'.status = "deleted"
      BY <1>d, PromiseRequest, OneWay
    <2> QED BY <2>1, SaysNothing
  <1> SUFFICES ASSUME row.status # "deleted" PROVE SaysInv'
    BY <1>d
  <1>a. /\ Keyed(row, obj) /\ Kept(row, landed)
        /\ row.status = "unborn" => obj.raw = NoWords
        /\ r \in current => Prior(r)
        /\ rpc[r] = "putText" => ~row.audio
    BY DEF SaysInv, RowSays
  <1>p. /\ rpc[r] # "idle" => row.status # "unborn"
        /\ r \in current => ResetStands(r)
        /\ rpc[r] \notin {"cut", "unlink", "drop"}
    BY DEF PromiseInv, RequestsStand, HeldInv, NobodyDeletes
  \* A row at rest, or stuck, is nobody's.
  <1>n. row.status \notin Pending \/ ~row.fresh \/ r \in current => \A x \in Deliveries : pc[x] \notin Alone
    <2>1. \A x \in Deliveries : pc[x] \in Alone => current = {x} /\ row.fresh /\ IsPending(row)
      BY DEF SaysInv, Says, Abreast
    <2> QED BY <2>1, ActorsAssumption DEF IsPending
  <1>k. ASSUME UNCHANGED <<pc, mem, row, current, landed>>,
               obj'.raw = obj.raw /\ obj'.routed = obj.routed /\ obj'.clean = obj.clean,
               NEW p \in {"invoke", "discard", "rollback", "idle", "cut"}, rpc' = [rpc EXCEPT ![r] = p],
               \A q \in Requests : q \in current => prior'[q] = prior[q]
        PROVE  SaysInv'
    <2>1. \A q \in Requests : rpc'[q] = "putText" => rpc[q] = "putText"
      BY <1>c, <1>k
    <2>2. \A k : Keyed(k, obj') <=> Keyed(k, obj)
      BY <1>k, SameTexts
    <2>3. \A x \in Deliveries : Onlooker(x)
      BY <1>k DEF Onlooker
    <2> QED BY <1>k, <2>1, <2>2, <2>3, SaysOutside
  <1>1. CASE PutText(r)
    <2>1. CASE obj' = [obj EXCEPT !.raw = [asked |-> 0, lang |-> "default", as |-> None]]
               /\ rpc' = [rpc EXCEPT ![r] = "invoke"]
      <3>1. ~row.audio /\ row.status # "unborn"
        BY <1>1, <1>a, <1>p DEF PutText
      <3>2. /\ obj'.raw.asked = 0 /\ obj'.routed = obj.routed /\ obj'.clean = obj.clean
        BY <1>0, <2>1 DEF Objects
      <3>3. \A k : k.audio = row.audio /\ Keyed(k, obj) => Keyed(k, obj')
        BY <3>1, <3>2 DEF Keyed, Of
      <3>4. \A q \in Requests : rpc'[q] = "putText" => rpc[q] = "putText"
        BY <1>c, <2>1
      <3>5. \A x \in Deliveries : Onlooker(x)
        BY <1>1 DEF Onlooker, PutText
      <3> QED BY <1>1, <3>1, <3>3, <3>4, <3>5, SaysOutside DEF PutText, RowUnchanged
    <2>2. CASE rpc' = [rpc EXCEPT ![r] = "discard"] /\ UNCHANGED obj
      BY <1>1, <1>k, <2>2 DEF PutText, RowUnchanged
    <2> QED BY <1>1, <2>1, <2>2 DEF PutText
  <1>2. CASE DiscardEmptyRow(r) \/ DeleteRow(r)
    <2>1. row'.status = "deleted"
      BY <1>2 DEF DiscardEmptyRow, DeleteRow, DropRow, NoRow
    <2> QED BY <2>1, SaysNothing
  <1>3. CASE Invoke(r)
    <2>1. \A x \in Deliveries : Onlooker(x)
      BY <1>0, <1>3, SaysQueued DEF Invoke
    <2>2. /\ \A q \in Requests : rpc'[q] = "putText" => rpc[q] = "putText"
          /\ \A q \in Requests : q \in current' => prior'[q] = prior[q]
      BY <1>3, <1>b DEF Invoke
    <2> QED BY <1>3, <2>1, <2>2, ActorsAssumption, SaysOutside DEF Invoke
  <1>4. CASE InvokeFails(r)
    <2>1. PICK p \in {"idle", "rollback"} : rpc' = [rpc EXCEPT ![r] = p]
      BY <1>4 DEF InvokeFails
    <2> QED BY <1>4, <1>k, <2>1 DEF InvokeFails, RowUnchanged
  <1>5. CASE Rollback(r)
    <2>1. /\ \A q \in Requests : rpc'[q] = "putText" => rpc[q] = "putText"
          /\ \A q \in Requests \ {r} : prior'[q] = prior[q]
      BY <1>5, <1>b DEF Rollback
    <2>2. CASE r \in current /\ row' = prior[r] /\ current' = {}
      <3>1. /\ Prior(r) /\ row'.status # "unborn" /\ \A x \in Deliveries : pc[x] \notin Alone
        BY <1>a, <1>n, <1>p, <2>2 DEF ResetStands, Gone
      <3> QED BY <1>5, <2>1, <2>2, <3>1, SaysRewritten DEF Rollback, EnvUnchanged, Prior
    <2>3. CASE r \notin current /\ RowUnchanged
      <3>1. \A x \in Deliveries : Onlooker(x)
        BY <1>5 DEF Onlooker, Rollback, EnvUnchanged
      <3> QED BY <1>5, <2>1, <2>3, <3>1, SaysOutside DEF Rollback, EnvUnchanged, RowUnchanged
    <2> QED BY <1>5, <2>2, <2>3 DEF Rollback
  <1>6. CASE CutParagraph(r) \/ Unlink(r)
    BY <1>6, <1>p DEF CutParagraph, Unlink
  <1>7. CASE IngestText(r)
    <2>1. row.status = "unborn" /\ current = {}
      BY <1>7 DEF IngestText, PromiseInv, GoneIsBare, Exists, Gone
    <2>2. PICK n \in Destinations :
             row' = [NewRow EXCEPT !.status = "transcribed", !.raw = TRUE, !.note = n]
      BY <1>7 DEF IngestText
    <2>3. /\ row'.status = "transcribed" /\ ~row'.audio /\ row'.asked = 0
          /\ ~row'.routed /\ ~row'.clean
      BY <2>2 DEF NewRow, NoRow
    <2>4. Keyed(row', obj)
      BY <1>a, <2>1, <2>3 DEF Keyed, Of
    <2> QED BY <1>7, <2>1, <2>3, <2>4, SaysBegins DEF IngestText, EnvUnchanged, Pending
  <1>8. ASSUME NEW new \in Row, Reset(r, new), Idle(row), new.audio = row.audio,
               new.status \in Pending, Keyed(new, obj), new.routed => row.routed,
               new.raw => new.routed = row.routed
        PROVE  SaysInv'
    <2> DEFINE k == [new EXCEPT !.fresh = TRUE]
    <2>1. /\ row' = k /\ current' = {r} /\ prior'[r] = row /\ Exists
          /\ \A q \in Requests : rpc'[q] = "putText" => rpc[q] = "putText"
          /\ UNCHANGED <<pc, mem, obj, landed>>
      BY <1>0, <1>8, <1>c DEF Reset
    <2>2. Alike(k, new)
      BY AlikeFields
    <2>3. k.status = new.status
      BY DEF Row
    <2> HIDE DEF k
    <2>4. Keyed(k, obj)
      BY <1>8, <2>2, AlikeSays
    <2>5. Kept(row', landed) /\ row'.status \notin Gone
      BY <1>8, <2>1, <2>3 DEF Kept, Pending, Gone
    <2>6. Prior(r)'
      BY <1>8, <1>a, <2>1, <2>2 DEF Prior, Alike
    <2>7. \A x \in Deliveries : x \notin current' /\ pc[x] \notin Alone
      BY <1>8, <1>n, <2>1, ActorsAssumption
         DEF Idle, IsTerminal, IsPending, CaptureStuck, Terminal, Pending
    <2>8. \A q \in Requests : q \in current' => Prior(q)' /\ (~row.routed => ~prior'[q].routed)
      BY <2>1, <2>6
    <2> QED BY <1>8, <2>1, <2>2, <2>4, <2>5, <2>7, <2>8, SaysRewritten DEF Alike, Gone
  <1>9. CASE RetryCapture(r)
    <2> DEFINE s == IF row.status = "failed" THEN ResumeStatusFor(row) ELSE row.status
               new == [row EXCEPT !.status = s]
    <2>1. Reset(r, new) /\ Idle(row)
      BY <1>9 DEF RetryCapture, Idle, IsTerminal, Terminal
    <2>2. s \in Pending
      BY <1>9 DEF RetryCapture, ResumeStatusFor, Pending, IsPending
    <2>3. new \in Row /\ new.status \in Pending
      BY <1>0, <2>2, RowFields DEF Row, Statuses
    <2>4. Alike(new, row)
      BY <1>0, AlikeFields
    <2> HIDE DEF new
    <2>5. Keyed(new, obj)
      BY <1>a, <2>4, AlikeSays
    <2> QED BY <1>8, <2>1, <2>3, <2>4, <2>5 DEF Alike
  <1>10. CASE SetCaptureTarget(r)
    <2>1. PICK n \in Notes :
             Reset(r, [row EXCEPT !.note = n, !.status = ResumeStatusFor(row)])
      BY <1>10 DEF SetCaptureTarget
    <2> DEFINE new == [row EXCEPT !.note = n, !.status = ResumeStatusFor(row)]
    <2>2. ResumeStatusFor(row) \in Pending
      BY DEF ResumeStatusFor, Pending
    <2>3. new \in Row
      BY <1>0, <2>2, RowChanges DEF Statuses
    <2>4. /\ new.status \in Pending /\ new.audio = row.audio /\ new.raw = row.raw
          /\ new.lang = row.lang /\ new.routed = row.routed /\ new.clean = row.clean
          /\ new.asked = row.asked
      BY <1>0, <2>2 DEF Row
    <2>5. ~row.clean /\ Idle(row)
      BY <1>10, <1>a DEF SetCaptureTarget, Keyed
    <2> HIDE DEF new
    <2>6. Keyed(new, obj)
      BY <1>a, <2>4, <2>5 DEF Keyed, Of
    <2>7. Reset(r, new)
      BY <2>1 DEF new
    <2> QED BY <1>8, <2>3, <2>4, <2>5, <2>6, <2>7
  <1>11. CASE RetranscribeCapture(r)
    <2> DEFINE new == [row EXCEPT !.raw = FALSE, !.routed = FALSE, !.clean = FALSE,
                            !.lang = "none", !.held = FALSE, !.leased = FALSE,
                            !.done = FALSE, !.status = "transcribing", !.asked = @ + 1]
    <2>1. Reset(r, new) /\ Idle(row) /\ row.audio /\ row.asked < MaxAgain
      BY <1>11 DEF RetranscribeCapture
    <2>2. row.asked + 1 \in 0 .. MaxAgain
      BY <1>0, <2>1, BoundsAssumption DEF Row
    <2>r. row \in Row
      BY <1>0
    <2>3. new \in Row
      BY <2>r, <2>2 DEF Row, Pending
    <2>4. /\ new.status = "transcribing" /\ new.audio = row.audio /\ ~new.raw /\ ~new.routed
          /\ ~new.clean
      BY <1>0 DEF Row
    <2> HIDE DEF new
    <2>5. Keyed(new, obj)
      BY <2>1, <2>4 DEF Keyed
    <2> QED BY <1>8, <2>1, <2>3, <2>4, <2>5 DEF Pending
  <1>12. CASE RequestDies(r)
    <2>1. \A x \in Deliveries : Onlooker(x)
      BY <1>12 DEF Onlooker, RequestDies
    <2>2. /\ \A q \in Requests : rpc'[q] = "putText" => rpc[q] = "putText"
          /\ \A q \in Requests : q \in current' => prior'[q] = prior[q]
      BY <1>12, <1>b DEF RequestDies
    <2> QED BY <1>12, <2>1, <2>2, ActorsAssumption, SaysOutside DEF RequestDies
  <1> QED
    BY <1>1, <1>2, <1>3, <1>4, <1>5, <1>6, <1>7, <1>9, <1>10, <1>11, <1>12
       DEF Handle, Operation, DeleteCapture

\* The rest: an upload, a second delivery, the reconcile task, the clock, the
\* trash and the lifecycle rule.
LEMMA SaysEnvironment ==
    ASSUME TypeOK, PromiseInv, SaysInv, NotesKept, BeginCapture \/ Environment
    PROVE  SaysInv'
  <1>0. row \in Row /\ DeliveryTypes /\ obj \in Objects
    BY DEF TypeOK, RowTypes
  <1>d. CASE row.status = "deleted"
    <2>1. row'.status = "deleted"
      BY <1>d, PromiseEnvironment, OneWay
    <2> QED BY <2>1, SaysNothing
  <1> SUFFICES ASSUME row.status # "deleted" PROVE SaysInv'
    BY <1>d
  <1>a. Keyed(row, obj) /\ Kept(row, landed)
    BY DEF SaysInv, RowSays
  <1>n. ~row.fresh => \A x \in Deliveries : pc[x] \notin Alone
    BY DEF SaysInv, Says, Abreast
  \* Nothing but the queue moves, and the texts stay.
  <1>k. ASSUME UNCHANGED <<row, current, landed, rpc, prior>>,
               obj'.raw = obj.raw /\ obj'.routed = obj.routed /\ obj'.clean = obj.clean,
               \/ UNCHANGED <<pc, mem>>
               \/ \E d \in Deliveries, by \in {"upload", "oversize", "api", "reap"} : Queue(d, by)
        PROVE  SaysInv'
    <2>1. \A x \in Deliveries : Onlooker(x)
      BY <1>0, <1>k, SaysQueued DEF Onlooker
    <2>2. \A k : Keyed(k, obj') <=> Keyed(k, obj)
      BY <1>k, SameTexts
    <2> QED BY <1>k, <2>1, <2>2, SaysOutside
  <1>1. CASE BeginCapture
    <2>1. row.status = "unborn" /\ current = {} /\ \A q \in Requests : rpc[q] = "idle"
      BY <1>1 DEF BeginCapture, PromiseInv, GoneIsBare, RequestsStand, Exists, Gone
    <2>2. PICK n \in Destinations :
             row' = [NewRow EXCEPT !.status = "uploaded", !.audio = TRUE, !.note = n,
                                   !.peaks = PeaksClaimed]
      BY <1>1 DEF BeginCapture
    <2>3. /\ row'.status = "uploaded" /\ row'.audio = TRUE /\ ~row'.raw /\ ~row'.routed
          /\ ~row'.clean
      BY <2>2 DEF NewRow, NoRow
    <2>4. Keyed(row', obj)
      BY <2>3 DEF Keyed
    <2> QED BY <1>1, <2>1, <2>3, <2>4, SaysBegins DEF BeginCapture, EnvUnchanged, Pending
  <1>2. CASE UploadLands
    <2>1. obj'.raw = obj.raw /\ obj'.routed = obj.routed /\ obj'.clean = obj.clean
      BY <1>0, <1>2 DEF UploadLands, Objects
    <2>2. \E d \in Deliveries, by \in {"upload", "oversize", "api", "reap"} : Queue(d, by)
      BY <1>2 DEF UploadLands
    <2> QED BY <1>2, <1>k, <2>1, <2>2 DEF UploadLands, RowUnchanged
  <1>3. CASE Redeliver
    <2>1. \E d \in Deliveries, by \in {"upload", "oversize", "api", "reap"} : Queue(d, by)
      BY <1>3 DEF Redeliver
    <2> QED BY <1>3, <1>k, <2>1 DEF Redeliver, RowUnchanged
  \* The row is written for nobody.
  <1>w. ASSUME NEW new, row' = new, Alike(new, row), new.status \in {row.status, "failed"},
               new.status # "failed" \/ row.status = "failed" \/ row.status \in Pending,
               current' = {}, UNCHANGED <<pc, mem, obj, landed, rpc>>,
               \A x \in Deliveries : pc[x] \notin Alone
        PROVE  SaysInv'
    <2>1. Keyed(row', obj) /\ Kept(row', landed)
      BY <1>a, <1>w, AlikeSays DEF Kept
    <2>2. /\ row'.status = "unborn" => row.status = "unborn"
          /\ row'.audio = row.audio /\ row'.routed = row.routed
      BY <1>w DEF Alike
    <2> QED BY <1>w, <2>1, <2>2, SaysRewritten
  <1>4. CASE Reap
    <2> DEFINE new == [row EXCEPT !.status = "failed", !.fresh = TRUE]
    <2>1. CASE row' = new /\ current' = {} /\ UNCHANGED <<pc, mem>>
      <3>1. Alike(new, row)
        BY <1>0, AlikeFields
      <3>2. new.status = "failed"
        BY <1>0 DEF Row
      <3>3. row.status \in Pending /\ ~row.fresh
        BY <1>4 DEF Reap, IsPending, CaptureStuck
      <3> HIDE DEF new
      <3> QED BY <1>4, <1>n, <1>w, <2>1, <3>1, <3>2, <3>3 DEF Reap
    <2>2. CASE RowUnchanged /\ \E d \in Deliveries : Queue(d, "reap")
      BY <1>4, <1>k, <2>2 DEF Reap, RowUnchanged
    <2> QED BY <1>4, <2>1, <2>2 DEF Reap
  <1>5. CASE Age \/ LeaseEnds
    <2>1. Quiet /\ UNCHANGED <<current, pc, mem, obj, landed, rpc>>
      BY <1>5 DEF Age, LeaseEnds, EnvUnchanged
    <2>2. current' = {} /\ \A x \in Deliveries : pc[x] \notin Alone
      <3>1. \A x \in Deliveries : x \notin current /\ pc[x] \notin Alone
        BY <2>1 DEF Quiet, PromiseInv, DeliveriesAgree, CopyAgrees, Running, Stages, Alone
      <3>2. \A q \in Requests : q \notin current
        BY <2>1 DEF Quiet, PromiseInv, RequestsStand, ResetStands
      <3>3. current \subseteq Deliveries \cup Requests
        BY DEF TypeOK, RowTypes
      <3> QED BY <2>1, <3>1, <3>2, <3>3
    <2>3. CASE row' = [row EXCEPT !.fresh = FALSE]
      <3> DEFINE new == [row EXCEPT !.fresh = FALSE]
      <3>1. Alike(new, row)
        BY <1>0, AlikeFields
      <3>2. new.status = row.status
        BY <1>0 DEF Row
      <3>3. row' = new
        BY <2>3
      <3> HIDE DEF new
      <3> QED BY <1>w, <2>1, <2>2, <3>1, <3>2, <3>3
    <2>4. CASE row' = [row EXCEPT !.leased = FALSE]
      <3> DEFINE new == [row EXCEPT !.leased = FALSE]
      <3>1. Alike(new, row)
        BY <1>0, AlikeFields
      <3>2. new.status = row.status
        BY <1>0 DEF Row
      <3>3. row' = new
        BY <2>4
      <3> HIDE DEF new
      <3> QED BY <1>w, <2>1, <2>2, <3>1, <3>2, <3>3
    <2> QED BY <1>5, <2>3, <2>4 DEF Age, LeaseEnds
  <1>6. CASE PeaksLand \/ LinkEnds \/ AudioExpires
    <2>1. obj'.raw = obj.raw /\ obj'.routed = obj.routed /\ obj'.clean = obj.clean
      BY <1>0, <1>6 DEF PeaksLand, LinkEnds, AudioExpires, Objects
    <2> QED BY <1>6, <1>k, <2>1 DEF PeaksLand, LinkEnds, AudioExpires, RowUnchanged, EnvUnchanged
  <1>7. ASSUME NEW n \in Notes, ArchiveNote(n) \/ RestoreNote(n)
        PROVE  SaysInv'
    BY <1>7, <1>k DEF ArchiveNote, RestoreNote, RowUnchanged
  <1>8. ASSUME NEW n \in Notes, PurgeNote(n)
        PROVE  FALSE
    <2>1. note[n] = "archived" /\ note'[n] = "absent"
      BY <1>8 DEF PurgeNote, TypeOK, NoteTypes
    <2> QED BY <2>1 DEF NotesKept
  <1> QED
    BY <1>1, <1>2, <1>3, <1>4, <1>5, <1>6, <1>7, <1>8 DEF Environment, Clock

-----------------------------------------------------------------------------
(* What a filed recording says.                                            *)

\* Every step that deletes and purges nothing keeps the invariant.
LEMMA SaysNext ==
    ASSUME InTurn, ~MayBeDeleted, TypeOK, TypeOK', PromiseInv, HeldInv, OneInv, SaysInv,
           NotesKept, [Next]_vars
    PROVE  SaysInv'
  <1>1. CASE UNCHANGED vars
    <2>1. \A x \in Deliveries : Onlooker(x)
      BY <1>1 DEF vars, Onlooker
    <2> QED BY <1>1, <2>1, SaysOutside DEF vars
  <1>2. CASE \E d \in Deliveries : Run(d) \/ Fault(d) \/ Crash(d)
    BY <1>2, SaysRun
  <1>3. CASE \E r \in Requests : Handle(r) \/ Operation(r) \/ InvokeFails(r) \/ RequestDies(r)
    BY <1>3, SaysRequest
  <1>4. CASE BeginCapture \/ Environment
    BY <1>4, SaysEnvironment
  <1> QED BY <1>1, <1>2, <1>3, <1>4 DEF Next

\* Before the recording nothing has been said.
LEMMA SaysInit == Init => SaysInv
  <1> SUFFICES ASSUME Init PROVE SaysInv
    OBVIOUS
  <1>1. /\ row = NoRow /\ current = {} /\ obj = NoObjects
        /\ \A d \in Deliveries : pc[d] = "idle"
        /\ \A r \in Requests : rpc[r] = "idle"
    BY DEF Init
  <1>2. /\ row.status = "unborn" /\ ~row.raw /\ ~row.routed /\ ~row.clean /\ row.asked = 0
        /\ obj.raw = NoWords
    BY <1>1 DEF NoRow, NoObjects
  <1>3. RowSays
    BY <1>1, <1>2 DEF RowSays, Keyed, Kept
  <1>4. \A d \in Deliveries : InHand(d) /\ Abreast(d)
    BY <1>1 DEF InHand, Abreast, Stages, Alone
  <1> QED BY <1>3, <1>4 DEF SaysInv, Says

\* All the invariants of the pipeline together, where invocations come one
\* after another, the recording is not deleted and no note is purged.
LEMMA AllHold ==
    ASSUME InTurn, ~MayBeDeleted
    PROVE  Spec /\ [][NotesKept]_note => []SaysInv
  <1>1. UNCHANGED note => NotesKept
    BY DEF NotesKept
  <1>2. TypeOK /\ PromiseInv /\ HeldInv /\ OneInv /\ SaysInv /\ [Next]_vars /\ [NotesKept]_note =>
            TypeOK' /\ PromiseInv' /\ HeldInv' /\ OneInv' /\ SaysInv'
    BY <1>1, TypeNext, PromiseNext, HeldNext, OneNext, SaysNext
  <1>3. Init => TypeOK /\ PromiseInv /\ HeldInv /\ OneInv /\ SaysInv
    BY TypeInit, PromiseInit, HeldInit, OneInit, SaysInit
  <1> QED BY <1>2, <1>3, PTL DEF Spec

\* A capture that says appended has its paragraph in its note, and it is of the
\* transcription last asked for: whatever dies in between and is run again,
\* whatever a person retries, chooses or has transcribed again, however often.
THEOREM FiledIsWhatWasAskedAlways ==
    ASSUME InTurn, ~MayBeDeleted
    PROVE  Spec /\ [][NotesKept]_note => []FiledIsWhatWasAsked
  <1>1. SaysInv => FiledIsWhatWasAsked
    BY DEF SaysInv, RowSays, Kept, Fulfilled, FiledIsWhatWasAsked
  <1> QED BY <1>1, AllHold, PTL

\* Under the same conditions a recording filed into a note that asks for a
\* language was heard in it, however late the note was chosen.
THEOREM LanguageIsHonoured ==
    ASSUME InTurn, ~MayBeDeleted
    PROVE  Spec /\ [][NotesKept]_note => []LanguageHonoured
  <1>1. SaysInv => LanguageHonoured
    BY DEF SaysInv, RowSays, Kept, Fulfilled, LanguageHonoured
  <1> QED BY <1>1, AllHold, PTL

-----------------------------------------------------------------------------
(***************************************************************************)
(* What a capture has achieved is there, and stays: first for every value  *)
(* of the constants, that no write from an older copy undoes the cleaned   *)
(* text or the completed append of one request.                            *)
(***************************************************************************)

\* What a copy has in common with the row it is current with, or with the copy
\* it was made from: the claim and the request are the same, and it names the
\* cleaned text if that one does.
Heir(k, c) ==
    /\ k.held = c.held /\ k.done = c.done /\ k.leased = c.leased /\ k.asked = c.asked
    /\ c.clean => k.clean

\* Whoever may write the row knows what it has achieved.
InSync ==
    /\ \A d \in Deliveries : d \in current => Heir(mem[d].copy, row)
    /\ \A r \in Requests : r \in current /\ prior[r].asked = row.asked => Heir(prior[r], row)

\* What has been achieved for one request is kept by this step.
Advance ==
    Exists /\ row'.status \notin Gone /\ row'.asked = row.asked =>
        /\ row.clean => row'.clean
        /\ row.done => row'.done

\* The changes an action makes to a copy leave it an heir of what it was.
LEMMA HeirFields ==
    ASSUME NEW c \in Row
    PROVE  /\ \A s : Heir([c EXCEPT !.status = s], c)
           /\ \A s : Heir([c EXCEPT !.fresh = s], c)
           /\ \A s, t : Heir([c EXCEPT !.status = s, !.fresh = t], c)
           /\ \A s, t : Heir([c EXCEPT !.peaks = s, !.fresh = t], c)
           /\ \A s, t : Heir([c EXCEPT !.raw = s, !.routed = t], c)
           /\ \A s : Heir([c EXCEPT !.clean = TRUE, !.status = s], c)
           /\ \A s, n : Heir([c EXCEPT !.note = n, !.status = s], c)
           /\ \A s : Heir([c EXCEPT !.routed = s], c)
           /\ \A s, l : Heir([c EXCEPT !.raw = TRUE, !.lang = l, !.status = s], c)
           /\ Heir(c, c)
  BY DEF Row, Heir

\* An heir of an heir is one.
LEMMA HeirOfHeir ==
    ASSUME NEW k, NEW c, NEW b, Heir(k, c), Heir(c, b)
    PROVE  Heir(k, b)
  BY DEF Heir

\* Where each of the ways an invocation goes on leaves it.
LEMMA Hands ==
    ASSUME DeliveryTypes, NEW d \in Deliveries
    PROVE  /\ \A p : Goto(d, p) => pc'[d] = p
           /\ \A c, t, p : Answer(d, c, t, p) =>
                  /\ pc'[d] = p /\ mem'[d].copy = c /\ mem'[d].text = t
                  /\ mem'[d].dest = mem[d].dest
           /\ \A c, p : Leave(d, c, p) =>
                  pc'[d] = p /\ mem'[d].copy = c /\ mem'[d].text = NoWords
           /\ \A c : Remember(d, c) =>
                  /\ mem'[d].copy = c /\ mem'[d].text = mem[d].text
                  /\ mem'[d].dest = mem[d].dest
           /\ \A s : Verdict(d, s) =>
                  /\ pc'[d] = "write" /\ mem'[d].copy = [mem[d].copy EXCEPT !.status = s]
                  /\ mem'[d].text = NoWords
           /\ \A by : Queue(d, by) =>
                  pc'[d] = "queued" /\ mem'[d].copy = NoRow /\ mem'[d].text = NoWords
           /\ End(d) => pc'[d] = "idle" /\ mem'[d].copy = NoRow /\ mem'[d].text = NoWords
           /\ Again(d) => pc'[d] \in {"idle", "queued"} /\ mem'[d].copy = NoRow
                          /\ mem'[d].text = NoWords
  <1>1. /\ mem \in [Deliveries -> Memory] /\ pc \in [Deliveries -> Running \cup {"idle", "queued"}]
        /\ NoMemory.copy = NoRow /\ NoMemory.text = NoWords
    BY DEF DeliveryTypes, NoMemory
  <1>2. \A p : Goto(d, p) => pc'[d] = p
    BY <1>1 DEF Goto
  <1>3. \A c, t, p : Answer(d, c, t, p) =>
            /\ pc'[d] = p /\ mem'[d].copy = c /\ mem'[d].text = t /\ mem'[d].dest = mem[d].dest
    BY <1>1 DEF Answer, Goto, Memory
  <1>4. \A c, p : Leave(d, c, p) => pc'[d] = p /\ mem'[d].copy = c /\ mem'[d].text = NoWords
    BY <1>1 DEF Leave, Goto, Bare, NoMemory
  <1>5. \A c : Remember(d, c) =>
            /\ mem'[d].copy = c /\ mem'[d].text = mem[d].text /\ mem'[d].dest = mem[d].dest
    BY <1>1 DEF Remember, Memory
  <1>6. \A s : Verdict(d, s) =>
            /\ pc'[d] = "write" /\ mem'[d].copy = [mem[d].copy EXCEPT !.status = s]
            /\ mem'[d].text = NoWords
    BY <1>4 DEF Verdict
  <1>7. \A by : Queue(d, by) =>
            pc'[d] = "queued" /\ mem'[d].copy = NoRow /\ mem'[d].text = NoWords
    BY <1>1 DEF Queue, Goto, NoMemory
  <1>8. End(d) => pc'[d] = "idle" /\ mem'[d].copy = NoRow /\ mem'[d].text = NoWords
    BY <1>1 DEF End, Goto
  <1>9. Again(d) => pc'[d] \in {"idle", "queued"} /\ mem'[d].copy = NoRow
                    /\ mem'[d].text = NoWords
    BY <1>1, <1>8 DEF Again, Goto, NoMemory
  <1> QED BY <1>2, <1>3, <1>4, <1>5, <1>6, <1>7, <1>8, <1>9

\* A step of an invocation that leaves the row alone.
LEMMA SyncLooksOn ==
    ASSUME InSync, NEW d \in Deliveries, Only(d), UNCHANGED <<row, prior>>,
           current' \subseteq current \cup {d},
           d \in current' => Heir(mem'[d].copy, row)
    PROVE  InSync' /\ Advance
  <1>1. InSync'
    BY ActorsAssumption DEF InSync, Only
  <1> QED BY <1>1 DEF Advance

\* One that writes the row.
LEMMA SyncWrites ==
    ASSUME InSync, NEW d \in Deliveries, Only(d), UNCHANGED prior,
           current' \subseteq {d}, d \in current' => Heir(mem'[d].copy, row'),
           row.clean => row'.clean, row.done => row'.done
    PROVE  InSync' /\ Advance
  <1>1. InSync'
    BY ActorsAssumption DEF InSync
  <1> QED BY <1>1 DEF Advance

\* A write from a copy, won or conceded.
LEMMA SyncPersist ==
    ASSUME TypeOK, InSync, NEW d \in Deliveries, Only(d), NEW new \in Row, NEW p,
           Persist(d, new, p), Heir(new, mem[d].copy)
    PROVE  InSync' /\ Advance
  <1>0. DeliveryTypes /\ UNCHANGED prior
    BY DEF TypeOK, Persist
  <1>1. CASE PutCapture(d, [new EXCEPT !.fresh = TRUE]) /\ Remember(d, row')
    <2>1. row' = [new EXCEPT !.fresh = TRUE] /\ current' = {d} /\ d \in current
      BY <1>1 DEF PutCapture
    <2>2. mem'[d].copy = row'
      BY <1>0, <1>1, Hands
    <2>3. Heir(row', new)
      <3>1. Heir([new EXCEPT !.fresh = TRUE], new)
        BY HeirFields
      <3> QED BY <2>1, <3>1
    <2>4. Heir(row', row)
      BY <2>1, <2>3, HeirOfHeir DEF InSync
    <2>5. Heir(row', row')
      BY DEF Heir
    <2> QED BY <1>0, <2>1, <2>2, <2>4, <2>5, SyncWrites DEF Heir
  <1>2. CASE Concede(d)
    <2>1. CASE Exists /\ current' = current \cup {d} /\ Leave(d, row, "conceded")
      <3>1. mem'[d].copy = row /\ Heir(row, row)
        BY <1>0, <2>1, Hands DEF Heir
      <3> QED BY <1>0, <1>2, <2>1, <3>1, SyncLooksOn DEF Concede
    <2>2. CASE UNCHANGED current
      BY <1>0, <1>2, <2>2, SyncLooksOn DEF Concede
    <2> QED BY <1>2, <2>1, <2>2 DEF Concede
  <1> QED BY <1>1, <1>2 DEF Persist

\* What a step of an invocation keeps: one leaf for each action.
LEMMA SyncRun ==
    ASSUME TypeOK, PromiseInv, InSync, NEW d \in Deliveries, Run(d) \/ Fault(d) \/ Crash(d)
    PROVE  InSync' /\ Advance
  <1> DEFINE c == mem[d].copy
  <1>0. /\ DeliveryTypes /\ row \in Row /\ c \in Row /\ mem \in [Deliveries -> Memory]
    BY MemoryFields DEF TypeOK, RowTypes, DeliveryTypes
  <1>o. Only(d) /\ UNCHANGED prior
    BY <1>0, OwnStep
  <1>s. Heir(row, row) /\ Heir(c, c)
    BY DEF Heir
  <1>c. d \in current => Heir(c, row)
    BY DEF InSync
  <1> HIDE DEF c
  <1>k. ASSUME UNCHANGED row, current' \subseteq current \cup {d},
               \/ d \notin current' \/ Heir(mem'[d].copy, row)
               \/ d \in current /\ Heir(mem'[d].copy, c)
        PROVE  InSync' /\ Advance
    <2>1. d \in current' => Heir(mem'[d].copy, row)
      BY <1>c, <1>k, <1>s, HeirOfHeir
    <2> QED BY <1>k, <1>o, <2>1, SyncLooksOn
  <1>w. ASSUME current' \subseteq {d}, d \in current' => mem'[d].copy = row',
               row.clean => row'.clean, row.done => row'.done
        PROVE  InSync' /\ Advance
    <2>1. Heir(row', row')
      BY DEF Heir
    <2> QED BY <1>w, <1>o, <2>1, SyncWrites
  <1>v. ASSUME NEW s, Verdict(d, s), UNCHANGED <<row, current>>
        PROVE  InSync' /\ Advance
    <2>1. Heir(mem'[d].copy, c)
      <3>1. mem'[d].copy = [c EXCEPT !.status = s]
        BY <1>0, <1>v, Hands DEF c
      <3> QED BY <1>0, <3>1, HeirFields
    <2> QED BY <1>k, <1>v, <2>1
  <1>r. d \in current => pc[d] \in Running
    BY DEF PromiseInv, DeliveriesAgree, CopyAgrees
  <1>1. CASE StartRun(d)
    <2>1. d \notin current
      BY <1>1, <1>r DEF StartRun, Running, Stages
    <2>2. Remember(d, row) => Heir(mem'[d].copy, row)
      BY <1>0, <1>s, Hands
    <2> QED BY <1>1, <1>k, <2>1, <2>2 DEF StartRun
  <1>2. CASE RejectOversized(d)
    <2>1. d \notin current
      BY <1>2, <1>r DEF RejectOversized, Running, Stages
    <2>2. Remember(d, [row EXCEPT !.status = "failed"]) => Heir(mem'[d].copy, row)
      <3>1. Heir([row EXCEPT !.status = "failed"], row)
        BY <1>0, HeirFields
      <3> QED BY <1>0, <3>1, Hands
    <2> QED BY <1>2, <1>k, <2>1, <2>2 DEF RejectOversized
  <1>3. CASE Transcribe(d) \/ Route(d) \/ Clean(d) \/ Append(d)
    <2>1. PICK x \in Statuses : \E p : Persist(d, [c EXCEPT !.status = x], p)
      BY <1>3 DEF Transcribe, Route, Clean, Append, SetStatus, Statuses, Pending, c
    <2>2. [c EXCEPT !.status = x] \in Row /\ Heir([c EXCEPT !.status = x], c)
      BY <1>0, RowFields, HeirFields
    <2> QED BY <1>o, <2>1, <2>2, SyncPersist DEF c
  <1>4. CASE Write(d)
    <2>1. \E p : Persist(d, c, p)
      BY <1>4 DEF Write, c
    <2> QED BY <1>0, <1>o, <1>s, <2>1, SyncPersist DEF c
  <1>5. CASE Hear(d)
    <2> DEFINE lang == TranscriptionLanguage(d)
               words == [asked |-> c.asked, lang |-> lang, as |-> None]
               heard == [c EXCEPT !.raw = TRUE, !.lang = lang, !.status = "transcribed"]
               silent == [heard EXCEPT !.status = "no_content"]
    <2>1. Heir(heard, c) /\ Heir(silent, c)
      <3>1. lang \in Languages
        BY DEF TranscriptionLanguage, LanguageOf, Languages
      <3>2. heard \in Row
        BY <1>0, <3>1, RowChanges DEF Statuses, Pending
      <3>3. Heir(heard, c)
        BY <1>0, HeirFields
      <3>4. Heir(silent, heard)
        BY <3>2, HeirFields
      <3> QED BY <3>3, <3>4, HeirOfHeir
    <2>2. ASSUME mem' = [mem EXCEPT ![d] = Looked(d, [@ EXCEPT !.copy = heard, !.text = words])]
          PROVE  mem'[d].copy = heard
      <3>1. Looked(d, [mem[d] EXCEPT !.copy = heard, !.text = words]).copy = heard
        BY <1>0 DEF Looked, Memory
      <3> QED BY <1>0, <2>2, <3>1
    <2>3. Leave(d, silent, "write") => mem'[d].copy = silent
      BY <1>0, Hands
    <2>4. UNCHANGED <<row, current>>
      BY <1>5 DEF Hear
    <2> HIDE DEF heard, silent, words
    <2>5. CASE mem'[d].copy = heard \/ mem'[d].copy = silent
      BY <1>k, <2>1, <2>4, <2>5
    <2>6. CASE \E status \in {"no_content", "failed"} : Verdict(d, status)
      BY <1>v, <2>4, <2>6
    <2> QED BY <1>5, <2>2, <2>3, <2>5, <2>6 DEF Hear, c, heard, silent, words, lang
  <1>6. CASE AskRouter(d)
    <2> DEFINE k == [c EXCEPT !.routed = TRUE]
    <2>1. /\ k \in Row /\ Heir(k, c) /\ UNCHANGED <<row, current>>
      BY <1>0, <1>6, RowFields, HeirFields DEF AskRouter
    <2> HIDE DEF k
    <2>2. ASSUME NEW n, NEW t,
                 mem' = [mem EXCEPT ![d].copy = [k EXCEPT !.note = n, !.status = "transcribed"],
                                    ![d].text = t, ![d].dest = n, ![d].seen = "active"]
          PROVE  InSync' /\ Advance
      <3>1. mem'[d].copy = [k EXCEPT !.note = n, !.status = "transcribed"]
        BY <1>0, <2>2 DEF Memory
      <3>2. Heir([k EXCEPT !.note = n, !.status = "transcribed"], k)
        BY <2>1, HeirFields
      <3> QED BY <1>k, <2>1, <3>1, <3>2, HeirOfHeir
    <2>3. CASE /\ Goto(d, "write")
               /\ mem' = [mem EXCEPT ![d] = Bare(d, [k EXCEPT !.status = "needs_target"])]
      <3>1. mem'[d].copy = [k EXCEPT !.status = "needs_target"]
        BY <1>0, <2>3, Hands DEF Leave
      <3>2. Heir([k EXCEPT !.status = "needs_target"], k)
        BY <2>1, HeirFields
      <3> QED BY <1>k, <2>1, <3>1, <3>2, HeirOfHeir
    <2>4. CASE Verdict(d, "failed")
      BY <1>v, <2>1, <2>4
    <2> QED BY <1>6, <2>2, <2>3, <2>4 DEF AskRouter, c, k
  <1>7. CASE Destination(d)
    <2>1. UNCHANGED <<row, current>>
      BY <1>7 DEF Destination
    <2>2. CASE Leave(d, [c EXCEPT !.note = None, !.status = "needs_target"], "write")
      <3>1. mem'[d].copy = [c EXCEPT !.note = None, !.status = "needs_target"]
        BY <1>0, <2>2, Hands
      <3>2. Heir([c EXCEPT !.note = None, !.status = "needs_target"], c)
        BY <1>0, HeirFields
      <3> QED BY <1>k, <2>1, <3>1, <3>2
    <2>3. CASE Verdict(d, "failed")
      BY <1>v, <2>1, <2>3
    <2>4. ASSUME NEW m, mem' = [mem EXCEPT ![d] = m],
                 m.copy = c \/ m.copy = [c EXCEPT !.raw = FALSE, !.routed = FALSE]
          PROVE  InSync' /\ Advance
      <3>1. Heir([c EXCEPT !.raw = FALSE, !.routed = FALSE], c)
        BY <1>0, HeirFields
      <3>2. mem'[d].copy = m.copy
        BY <1>0, <2>4
      <3> QED BY <1>k, <1>s, <2>1, <2>4, <3>1, <3>2
    <2>5. LET m == [mem[d] EXCEPT !.dest = c.note, !.seen = "active"]
          IN  /\ m.copy = c
              /\ \A k : [m EXCEPT !.copy = k].copy = k
      BY <1>0 DEF DeliveryTypes, Memory, c
    <2> QED BY <1>7, <2>2, <2>3, <2>4, <2>5 DEF Destination, c
  <1>8. CASE Strip(d) \/ Tidy(d)
    <2>1. UNCHANGED <<row, current>>
      BY <1>8 DEF Strip, Tidy
    <2>2. ASSUME NEW k, NEW t, NEW p, Answer(d, k, t, p), Heir(k, c)
          PROVE  InSync' /\ Advance
      BY <1>0, <1>k, <2>1, <2>2, Hands
    <2>3. /\ Heir([c EXCEPT !.routed = TRUE], c)
          /\ Heir([c EXCEPT !.clean = TRUE, !.status = "cleaned"], c)
      BY <1>0, HeirFields
    <2> QED BY <1>8, <1>s, <1>v, <2>1, <2>2, <2>3 DEF Strip, Tidy, c
  <1>9. CASE ClaimCaptureAppend(d)
    <2>1. CASE /\ row' = [row EXCEPT !.held = TRUE, !.leased = TRUE]
               /\ current' = {d} /\ Answer(d, row', Source(d), "land")
      <3>1. row'.clean = row.clean /\ row'.done = row.done
        BY <1>0, <2>1 DEF Row
      <3> QED BY <1>0, <1>w, <2>1, <3>1, Hands
    <2>2. CASE /\ UNCHANGED row /\ current' = current \cup {d}
               /\ Leave(d, row, "finished") \/ Answer(d, row, Source(d), "check")
      BY <1>0, <1>k, <1>s, <2>2, Hands
    <2> QED BY <1>9, <2>1, <2>2 DEF ClaimCaptureAppend
  <1>10. CASE CompleteCaptureAppend(d)
    <2>1. CASE /\ row' = [row EXCEPT !.status = "appended", !.done = TRUE]
               /\ current' = {d} /\ Leave(d, row', "finished")
      <3>1. row'.clean = row.clean /\ row'.done = TRUE
        BY <1>0, <2>1 DEF Row
      <3> QED BY <1>0, <1>w, <2>1, <3>1, Hands
    <2>2. CASE UNCHANGED row /\ current' = current \cup {d} /\ Leave(d, row, "finished")
      BY <1>0, <1>k, <1>s, <2>2, Hands
    <2>3. CASE UNCHANGED <<row, current>> /\ Leave(d, mem[d].copy, "failed")
      BY <1>0, <1>k, <1>s, <2>3, Hands DEF c
    <2> QED BY <1>10, <2>1, <2>2, <2>3 DEF CompleteCaptureAppend
  <1>11. CASE Land(d) \/ CheckNote(d) \/ MissingObject(d)
    <2>1. mem'[d].copy = c
      BY <1>0, <1>11 DEF Land, CheckNote, MissingObject, Answer, Leave, Bare, NoMemory,
                         DeliveryTypes, Memory, c
    <2> QED BY <1>11, <1>k, <1>s, <2>1 DEF Land, CheckNote, MissingObject
  <1>12. CASE ReleaseAppendClaim(d)
    <2> DEFINE free == [c EXCEPT !.held = FALSE, !.leased = FALSE]
    <2>1. free \in Row /\ free.clean = c.clean /\ free.done = c.done
      BY <1>0 DEF Row
    <2>2. \A k \in {c, free} : Heir([k EXCEPT !.status = "failed"], k) /\ Heir(k, k)
      BY <1>0, <2>1, HeirFields
    <2>3. ASSUME NEW k \in {c, free},
                 \/ Leave(d, [k EXCEPT !.status = "failed"], "write")
                 \/ Leave(d, k, "failed")
          PROVE  Heir(mem'[d].copy, k)
      <3>1. mem'[d].copy \in {k, [k EXCEPT !.status = "failed"]}
        BY <1>0, <2>3, Hands
      <3> QED BY <2>2, <3>1
    <2> HIDE DEF free
    <2>4. CASE PutCapture(d, free) /\ Heir(mem'[d].copy, free)
      <3>1. row' = free /\ current' = {d} /\ d \in current
        BY <2>4 DEF PutCapture
      <3> QED BY <1>c, <1>o, <2>1, <2>4, <3>1, SyncWrites DEF Heir
    <2>5. CASE d \notin current /\ UNCHANGED <<row, current>>
      BY <1>k, <2>5
    <2> QED BY <1>12, <2>3, <2>4, <2>5 DEF ReleaseAppendClaim, c, free
  <1>13. CASE Finish(d) \/ Conceded(d)
    <2>1. CASE UNCHANGED <<mem, current>>
      BY <1>13, <1>k, <1>s, <2>1 DEF Finish, Conceded, c
    <2>2. CASE Release(d)
      BY <1>13, <1>k, <2>2 DEF Finish, Conceded, Release
    <2> QED BY <1>13, <2>1, <2>2 DEF Finish, Conceded
  <1>14. CASE VerifyPeaks(d)
    <2>1. CASE d \in current /\ row' = [c EXCEPT !.peaks = FALSE, !.fresh = TRUE] /\ current' = {}
      <3>1. Heir([c EXCEPT !.peaks = FALSE, !.fresh = TRUE], c)
        BY <1>0, HeirFields
      <3>2. Heir(row', row)
        BY <1>c, <2>1, <3>1, HeirOfHeir
      <3> QED BY <1>w, <2>1, <3>2 DEF Heir
    <2>2. CASE d \notin current /\ UNCHANGED row /\ (Release(d) \/ UNCHANGED current)
      BY <1>k, <2>2 DEF Release
    <2> QED BY <1>14, <2>1, <2>2 DEF VerifyPeaks, c
  <1>15. CASE Failed(d)
    <2>1. CASE row' = [row EXCEPT !.status = "failed", !.fresh = TRUE] /\ current' = {}
      <3>1. row'.clean = row.clean /\ row'.done = row.done
        BY <1>0, <2>1 DEF Row
      <3> QED BY <1>w, <2>1, <3>1
    <2>2. CASE UNCHANGED row /\ Release(d)
      BY <1>k, <2>2 DEF Release
    <2> QED BY <1>15, <2>1, <2>2 DEF Failed
  <1>16. CASE Fault(d)
    <2>1. mem'[d].copy = c
      BY <1>0, <1>16, Hands DEF Fault, c
    <2> QED BY <1>16, <1>k, <1>s, <2>1 DEF Fault
  <1>17. CASE Crash(d)
    BY <1>17, <1>k DEF Crash, Release
  <1> QED
    BY <1>1, <1>2, <1>3, <1>4, <1>5, <1>6, <1>7, <1>8, <1>9, <1>10, <1>11, <1>12, <1>13,
       <1>14, <1>15, <1>16, <1>17 DEF Run

\* A step that is no invocation's and leaves the row alone.
LEMMA SyncOutside ==
    ASSUME PromiseInv, InSync, UNCHANGED row, current' \subseteq current,
           \A x \in Deliveries : mem'[x] = mem[x] \/ pc[x] \notin Running,
           \A q \in Requests : q \in current' => prior'[q] = prior[q]
    PROVE  InSync' /\ Advance
  <1>1. \A x \in Deliveries : x \in current => pc[x] \in Running
    BY DEF PromiseInv, DeliveriesAgree, CopyAgrees
  <1>2. InSync'
    BY <1>1 DEF InSync
  <1> QED BY <1>2 DEF Advance

\* A request that is set about a row.
LEMMA SyncReset ==
    ASSUME TypeOK, InSync, NEW r \in Requests, NEW new \in Row, Reset(r, new),
           new.asked # row.asked \/ (Heir(new, row) /\ new.clean = row.clean)
    PROVE  InSync' /\ Advance
  <1>0. prior \in [Requests -> Row]
    BY DEF TypeOK, RequestTypes
  <1>1. /\ row' = [new EXCEPT !.fresh = TRUE] /\ current' = {r} /\ prior'[r] = row
    BY <1>0 DEF Reset
  <1>2. Heir(row', new)
    <2>1. Heir([new EXCEPT !.fresh = TRUE], new)
      BY HeirFields
    <2> QED BY <1>1, <2>1
  <1>3. row'.asked # row.asked \/ Heir(row', row)
    BY <1>2, HeirOfHeir DEF Heir
  <1>4. row'.asked = row.asked => Heir(prior'[r], row')
    <2>1. row'.clean = new.clean /\ row'.asked = new.asked
      BY <1>1 DEF Row
    <2> QED BY <1>1, <1>3, <2>1 DEF Heir
  <1>5. InSync'
    BY <1>1, <1>4, ActorsAssumption DEF InSync
  <1> QED BY <1>3, <1>5 DEF Advance, Heir

\* What a step of a request keeps.
LEMMA SyncRequest ==
    ASSUME TypeOK, PromiseInv, InSync, NEW r \in Requests,
           Handle(r) \/ Operation(r) \/ InvokeFails(r) \/ RequestDies(r)
    PROVE  InSync' /\ Advance
  <1>0. /\ rpc \in [Requests -> RequestPC] /\ prior \in [Requests -> Row]
        /\ row \in Row /\ row.status \in Statuses /\ DeliveryTypes /\ row.asked \in 0 .. MaxAgain
    BY RowFields DEF TypeOK, RequestTypes, RowTypes
  <1>a. r \in current => rpc[r] \in {"invoke", "rollback"}
    BY DEF PromiseInv, RequestsStand, ResetStands
  <1>o. ASSUME NEW p, rpc' = [rpc EXCEPT ![r] = p], prior' = [prior EXCEPT ![r] = NoRow] \/ UNCHANGED prior
        PROVE  \A q \in Requests \ {r} : prior'[q] = prior[q]
    BY <1>0, <1>o
  <1>1. CASE PutText(r) \/ InvokeFails(r) \/ CutParagraph(r) \/ Unlink(r)
    BY <1>1, SyncOutside
       DEF PutText, InvokeFails, CutParagraph, Unlink, RowUnchanged, EnvUnchanged
  <1>2. CASE DiscardEmptyRow(r) \/ DeleteRow(r)
    <2>1. row'.status \in Gone /\ current' = {}
      BY <1>2 DEF DiscardEmptyRow, DeleteRow, DropRow, NoRow, Gone
    <2> QED BY <2>1 DEF InSync, Advance
  <1>3. CASE IngestText(r)
    <2>1. current = {} /\ UNCHANGED current /\ ~Exists
      BY <1>3 DEF IngestText, PromiseInv, GoneIsBare, Exists, Gone
    <2> QED BY <2>1 DEF InSync, Advance
  <1>4. CASE Invoke(r)
    <2>1. PICK d \in Deliveries : Queue(d, "api")
      BY <1>4 DEF Invoke
    <2>2. Only(d) /\ pc[d] = "idle"
      BY <1>0, <2>1, Moves, EmptyValues
    <2>3. \A x \in Deliveries : mem'[x] = mem[x] \/ pc[x] \notin Running
      BY <2>2 DEF Only, Running, Stages
    <2>4. \A q \in Requests : q \in current' => prior'[q] = prior[q]
      BY <1>0, <1>4 DEF Invoke, Answered
    <2> QED BY <1>4, <2>3, <2>4, SyncOutside DEF Invoke
  <1>5. CASE RequestDies(r)
    <2>1. \A q \in Requests : q \in current' => prior'[q] = prior[q]
      BY <1>0, <1>5 DEF RequestDies, Answered
    <2> QED BY <1>5, <2>1, SyncOutside DEF RequestDies
  <1>6. CASE Rollback(r)
    <2>1. CASE r \in current /\ row' = prior[r] /\ current' = {}
      <3>1. InSync'
        BY <2>1 DEF InSync
      <3> QED BY <2>1, <3>1 DEF InSync, Advance, Heir
    <2>2. CASE r \notin current /\ RowUnchanged
      <3>1. \A q \in Requests : q \in current' => prior'[q] = prior[q]
        BY <1>0, <1>6, <2>2 DEF Rollback, Answered, RowUnchanged
      <3> QED BY <1>6, <2>2, <3>1, SyncOutside DEF Rollback, RowUnchanged, EnvUnchanged
    <2> QED BY <1>6, <2>1, <2>2 DEF Rollback
  <1>7. CASE RetryCapture(r)
    <2> DEFINE s == IF row.status = "failed" THEN ResumeStatusFor(row) ELSE row.status
               new == [row EXCEPT !.status = s]
    <2>1. Reset(r, new)
      BY <1>0, <1>7 DEF RetryCapture, Row
    <2>2. s \in Statuses
      BY <1>0 DEF ResumeStatusFor, Statuses, Pending
    <2>3. new \in Row /\ Heir(new, row) /\ new.clean = row.clean
      <3>1. Heir(new, row)
        BY <1>0, HeirFields
      <3> QED BY <1>0, <2>2, <3>1, RowFields DEF Row
    <2> HIDE DEF new
    <2> QED BY <2>1, <2>3, SyncReset
  <1>8. CASE SetCaptureTarget(r)
    <2>1. PICK n \in Notes : Reset(r, [row EXCEPT !.note = n, !.status = ResumeStatusFor(row)])
      BY <1>8 DEF SetCaptureTarget
    <2> DEFINE new == [row EXCEPT !.note = n, !.status = ResumeStatusFor(row)]
    <2>2. ResumeStatusFor(row) \in Statuses
      BY DEF ResumeStatusFor, Statuses, Pending
    <2>3. new \in Row /\ Heir(new, row) /\ new.clean = row.clean
      <3>1. Heir(new, row)
        BY <1>0, HeirFields
      <3>2. new \in Row
        BY <1>0, <2>2, RowChanges
      <3> QED BY <1>0, <3>1, <3>2 DEF Row
    <2>4. Reset(r, new)
      BY <2>1
    <2> HIDE DEF new
    <2> QED BY <2>3, <2>4, SyncReset
  <1>9. CASE RetranscribeCapture(r)
    <2> DEFINE new == [row EXCEPT !.raw = FALSE, !.routed = FALSE, !.clean = FALSE,
                                  !.lang = "none", !.held = FALSE, !.leased = FALSE,
                                  !.done = FALSE, !.status = "transcribing", !.asked = @ + 1]
    <2>1. Reset(r, new) /\ row.asked < MaxAgain
      BY <1>9 DEF RetranscribeCapture
    <2>2. new \in Row /\ new.asked # row.asked
      <3>1. row.asked + 1 \in 0 .. MaxAgain /\ row.asked + 1 # row.asked
        BY <1>0, <2>1, BoundsAssumption
      <3>2. new.asked = row.asked + 1 /\ new \in Row
        BY <1>0, <3>1 DEF Row, Pending
      <3> QED BY <3>1, <3>2
    <2> HIDE DEF new
    <2> QED BY <2>1, <2>2, SyncReset
  <1>10. CASE DeleteCapture(r)
    <2>1. \A q \in Requests : q \in current' => prior'[q] = prior[q]
      BY <1>0, <1>a, <1>10 DEF DeleteCapture, RowUnchanged
    <2> QED BY <1>10, <2>1, SyncOutside DEF DeleteCapture, RowUnchanged, EnvUnchanged
  <1> QED
    BY <1>1, <1>2, <1>3, <1>4, <1>5, <1>6, <1>7, <1>8, <1>9, <1>10 DEF Handle, Operation

\* And of everything else.
LEMMA SyncEnvironment ==
    ASSUME TypeOK, PromiseInv, InSync, BeginCapture \/ Environment \/ UNCHANGED vars
    PROVE  InSync' /\ Advance
  <1>0. DeliveryTypes /\ row \in Row
    BY DEF TypeOK, RowTypes
  <1>q. ASSUME NEW d \in Deliveries, NEW by, Queue(d, by)
        PROVE  \A x \in Deliveries : mem'[x] = mem[x] \/ pc[x] \notin Running
    <2>1. Only(d) /\ pc[d] = "idle"
      BY <1>0, <1>q, Moves, EmptyValues
    <2> QED BY <2>1 DEF Only, Running, Stages
  <1>1. CASE BeginCapture
    <2>1. current = {} /\ UNCHANGED current /\ ~Exists
      BY <1>1 DEF BeginCapture, PromiseInv, GoneIsBare, Exists, Gone
    <2> QED BY <2>1 DEF InSync, Advance
  <1>2. CASE UploadLands \/ Redeliver
    <2>1. \A x \in Deliveries : mem'[x] = mem[x] \/ pc[x] \notin Running
      BY <1>2, <1>q DEF UploadLands, Redeliver
    <2> QED BY <1>2, <2>1, SyncOutside DEF UploadLands, Redeliver, RowUnchanged
  <1>3. CASE Reap
    <2>1. CASE row' = [row EXCEPT !.status = "failed", !.fresh = TRUE] /\ current' = {}
      <3>1. row'.clean = row.clean /\ row'.done = row.done
        BY <1>0, <2>1 DEF Row
      <3> QED BY <2>1, <3>1 DEF InSync, Advance
    <2>2. CASE (\E d \in Deliveries : Queue(d, "reap")) /\ RowUnchanged
      <3>1. \A x \in Deliveries : mem'[x] = mem[x] \/ pc[x] \notin Running
        BY <1>q, <2>2
      <3> QED BY <1>3, <2>2, <3>1, SyncOutside DEF Reap, RowUnchanged
    <2> QED BY <1>3, <2>1, <2>2 DEF Reap
  <1>4. CASE Age
    <2>1. Heir(row', row) /\ Heir(row, row') /\ UNCHANGED <<mem, prior, current>>
      <3>1. UNCHANGED <<mem, prior, current>>
        BY <1>4 DEF Age, EnvUnchanged
      <3>2. row' = [row EXCEPT !.fresh = FALSE]
        BY <1>4 DEF Age
      <3> QED BY <1>0, <3>1, <3>2 DEF Heir, Row
    <2>2. \A k : Heir(k, row) <=> Heir(k, row')
      BY <2>1 DEF Heir
    <2>3. InSync'
      BY <2>1, <2>2 DEF InSync, Heir
    <2> QED BY <2>1, <2>3 DEF Advance, Heir
  <1>5. CASE LeaseEnds
    <2>1. current = {} /\ UNCHANGED current
      <3>1. \A d \in Deliveries : d \notin current
        BY <1>5 DEF LeaseEnds, Quiet, PromiseInv, DeliveriesAgree, CopyAgrees
      <3>2. \A r \in Requests : r \notin current
        BY <1>5 DEF LeaseEnds, Quiet, PromiseInv, RequestsStand, ResetStands
      <3> QED BY <1>5, <3>1, <3>2 DEF LeaseEnds, TypeOK, RowTypes
    <2>2. row'.clean = row.clean /\ row'.done = row.done
      BY <1>0, <1>5 DEF LeaseEnds, Row
    <2> QED BY <2>1, <2>2 DEF InSync, Advance
  <1>6. CASE PeaksLand \/ LinkEnds \/ AudioExpires \/ UNCHANGED vars
    BY <1>6, SyncOutside DEF PeaksLand, LinkEnds, AudioExpires, EnvUnchanged, RowUnchanged, vars
  <1>7. ASSUME NEW n \in Notes, ArchiveNote(n) \/ RestoreNote(n) \/ PurgeNote(n)
        PROVE  InSync' /\ Advance
    <2>1. CASE RowUnchanged
      BY <1>7, <2>1, SyncOutside DEF ArchiveNote, RestoreNote, PurgeNote, RowUnchanged
    <2>2. CASE DropRow
      <3>1. row'.status \in Gone /\ current' = {}
        BY <2>2 DEF DropRow, NoRow, Gone
      <3> QED BY <3>1 DEF InSync, Advance
    <2> QED BY <1>7, <2>1, <2>2 DEF ArchiveNote, RestoreNote, PurgeNote
  <1> QED BY <1>1, <1>2, <1>3, <1>4, <1>5, <1>6, <1>7 DEF Environment, Clock

\* Every step keeps the invariant, and keeps what has been achieved.
LEMMA SyncNext ==
    ASSUME TypeOK, PromiseInv, InSync, [Next]_vars
    PROVE  InSync' /\ Advance
  <1>1. CASE \E d \in Deliveries : Run(d) \/ Fault(d) \/ Crash(d)
    BY <1>1, SyncRun
  <1>2. CASE \E r \in Requests : Handle(r) \/ Operation(r) \/ InvokeFails(r) \/ RequestDies(r)
    BY <1>2, SyncRequest
  <1>3. CASE BeginCapture \/ Environment \/ UNCHANGED vars
    BY <1>3, SyncEnvironment
  <1> QED BY <1>1, <1>2, <1>3 DEF Next

\* At first nobody holds a copy.
LEMMA SyncInit == Init => InSync
  BY DEF Init, InSync

\* What has been achieved for one request is not undone, for any number of
\* invocations, requests and notes, and any faults, deletions and purges:
\* neither the cleaned text nor the completed append is lost to a write from
\* an older copy.
THEOREM ProgressIsKeptAlways == Spec => ProgressIsKept
  <1>1. TypeOK /\ PromiseInv /\ InSync /\ [Next]_vars =>
            TypeOK' /\ PromiseInv' /\ InSync' /\ [Advance]_vars
    BY TypeNext, PromiseNext, SyncNext
  <1>2. Init => TypeOK /\ PromiseInv /\ InSync
    BY TypeInit, PromiseInit, SyncInit
  <1> QED BY <1>1, <1>2, PTL DEF Spec, ProgressIsKept, Advance

-----------------------------------------------------------------------------
(* Next, that a key on the row names an object.  A row is put back and     *)
(* written from copies however old, so it holds of every copy.             *)

\* Each key a copy has names a text that is there.
Named(k, o) ==
    /\ k.raw => o.raw # NoWords
    /\ k.routed => o.routed # NoWords
    /\ k.clean => o.clean # NoWords

\* It is so of the row, of every copy of it, and of every row that may be put back.
AllNamed ==
    row.status # "deleted" =>
        /\ Named(row, obj)
        /\ \A d \in Deliveries : Named(mem[d].copy, obj)
        /\ \A r \in Requests : Named(prior[r], obj)

\* No text that is there goes.
TextsStay ==
    /\ obj'.raw = NoWords => obj.raw = NoWords
    /\ obj'.routed = NoWords => obj.routed = NoWords
    /\ obj'.clean = NoWords => obj.clean = NoWords

\* What is named stays so, and a copy with another field changed names the same.
LEMMA NamedStays ==
    ASSUME TextsStay
    PROVE  \A k : Named(k, obj) => Named(k, obj')
  BY DEF TextsStay, Named

\* The changes an action makes to a copy that name nothing new.
LEMMA NamedFields ==
    ASSUME NEW c \in Row, NEW o, Named(c, o)
    PROVE  /\ \A s : Named([c EXCEPT !.status = s], o)
           /\ \A s : Named([c EXCEPT !.fresh = s], o)
           /\ \A s, t : Named([c EXCEPT !.status = s, !.fresh = t], o)
           /\ \A s, t : Named([c EXCEPT !.status = s, !.done = t], o)
           /\ \A s, t : Named([c EXCEPT !.peaks = s, !.fresh = t], o)
           /\ \A s, t : Named([c EXCEPT !.held = s, !.leased = t], o)
           /\ \A s : Named([c EXCEPT !.leased = s], o)
           /\ \A s, n : Named([c EXCEPT !.note = n, !.status = s], o)
           /\ Named([c EXCEPT !.raw = FALSE, !.routed = FALSE], o)
  BY DEF Row, Named

\* What the empty row names.
LEMMA NamedNothing == \A o : Named(NoRow, o)
  BY DEF NoRow, Named

\* An invocation's step, in terms of the invocation that makes it.
LEMMA NamedByOne ==
    ASSUME AllNamed, row.status # "deleted", NEW d \in Deliveries, Only(d), UNCHANGED prior,
           TextsStay, Named(row', obj'), Named(mem'[d].copy, obj')
    PROVE  AllNamed'
  BY NamedStays DEF AllNamed, Only

\* The text a stage reads is there, and a cleanup of it is one.
LEMMA WordsInHand ==
    ASSUME NEW t \in Text, t # NoWords, NEW a
    PROVE  [t EXCEPT !.as = a] # NoWords
  BY DEF Text, Words, NoWords, Languages

\* What a step of an invocation keeps: one leaf for each action.
LEMMA NamedRun ==
    ASSUME TypeOK, AllNamed, row.status # "deleted", NEW d \in Deliveries,
           Run(d) \/ Fault(d) \/ Crash(d)
    PROVE  AllNamed'
  <1> DEFINE c == mem[d].copy
  <1>0. /\ DeliveryTypes /\ row \in Row /\ c \in Row /\ mem \in [Deliveries -> Memory]
        /\ obj \in Objects /\ Source(d) \in Text
    BY MemoryFields, SourceIsText DEF TypeOK, RowTypes, DeliveryTypes
  <1>o. Only(d) /\ UNCHANGED prior
    BY <1>0, OwnStep
  <1>n. Named(row, obj) /\ Named(c, obj) /\ Named(NoRow, obj)
    BY NamedNothing DEF AllNamed
  <1> HIDE DEF c
  <1>k. ASSUME UNCHANGED obj, Named(row', obj), Named(mem'[d].copy, obj)
        PROVE  AllNamed'
    BY <1>k, <1>o, NamedByOne DEF TextsStay
  <1>v. ASSUME NEW s, Verdict(d, s), UNCHANGED <<row, obj>>
        PROVE  AllNamed'
    <2>1. mem'[d].copy = [c EXCEPT !.status = s]
      BY <1>0, <1>v, Hands DEF c
    <2>2. Named([c EXCEPT !.status = s], obj)
      BY <1>0, <1>n, NamedFields
    <2> QED BY <1>k, <1>n, <1>v, <2>1, <2>2
  <1>p. ASSUME NEW new \in Row, NEW p, Persist(d, new, p), Named(new, obj)
        PROVE  AllNamed'
    <2>1. UNCHANGED obj
      BY <1>p DEF Persist
    <2>2. CASE PutCapture(d, [new EXCEPT !.fresh = TRUE]) /\ Remember(d, row')
      <3>1. row' = [new EXCEPT !.fresh = TRUE] /\ mem'[d].copy = row'
        BY <1>0, <2>2, Hands DEF PutCapture
      <3>2. Named([new EXCEPT !.fresh = TRUE], obj)
        BY <1>p, NamedFields
      <3> QED BY <1>k, <2>1, <3>1, <3>2
    <2>3. CASE Concede(d)
      <3>1. UNCHANGED row /\ mem'[d].copy \in {row, c}
        BY <1>0, <2>3, Hands DEF Concede, c
      <3> QED BY <1>k, <1>n, <2>1, <3>1
    <2> QED BY <1>p, <2>2, <2>3 DEF Persist
  \* The audio goes or is marked: the texts stay.
  <1>m. ASSUME \/ UNCHANGED obj \/ \E x, y : obj' = [obj EXCEPT !.audio = x, !.processed = y]
               \/ \E x : obj' = [obj EXCEPT !.processed = x],
               Named(row', obj), Named(mem'[d].copy, obj)
        PROVE  AllNamed'
    <2>1. obj'.raw = obj.raw /\ obj'.routed = obj.routed /\ obj'.clean = obj.clean
      BY <1>0, <1>m DEF Objects
    <2>2. TextsStay /\ \A k : Named(k, obj) => Named(k, obj')
      BY <2>1 DEF TextsStay, Named
    <2> QED BY <1>m, <1>o, <2>2, NamedByOne
  <1>1. CASE StartRun(d)
    <2>1. mem'[d].copy \in {c, row, NoRow}
      BY <1>0, <1>1, Hands DEF StartRun, c
    <2>2. UNCHANGED row
      BY <1>1 DEF StartRun
    <2>3. \/ UNCHANGED obj \/ obj' = [obj EXCEPT !.audio = FALSE, !.processed = FALSE]
      BY <1>1 DEF StartRun
    <2> QED BY <1>m, <1>n, <2>1, <2>2, <2>3
  <1>2. CASE RejectOversized(d)
    <2>1. mem'[d].copy \in {[row EXCEPT !.status = "failed"], NoRow}
      BY <1>0, <1>2, Hands DEF RejectOversized
    <2>2. UNCHANGED row /\ obj' = [obj EXCEPT !.audio = FALSE, !.processed = FALSE]
      BY <1>2 DEF RejectOversized
    <2>3. Named([row EXCEPT !.status = "failed"], obj)
      BY <1>0, <1>n, NamedFields
    <2> QED BY <1>m, <1>n, <2>1, <2>2, <2>3
  <1>3. CASE Transcribe(d) \/ Route(d) \/ Clean(d) \/ Append(d)
    <2>1. PICK x \in Statuses : \E p : Persist(d, [c EXCEPT !.status = x], p)
      BY <1>3 DEF Transcribe, Route, Clean, Append, SetStatus, Statuses, Pending, c
    <2>2. [c EXCEPT !.status = x] \in Row /\ Named([c EXCEPT !.status = x], obj)
      BY <1>0, <1>n, RowFields, NamedFields
    <2> QED BY <1>p, <2>1, <2>2
  <1>4. CASE Write(d)
    <2>1. \E p : Persist(d, c, p)
      BY <1>4 DEF Write, c
    <2> QED BY <1>0, <1>n, <1>p, <2>1
  <1>5. CASE Hear(d)
    <2> DEFINE lang == TranscriptionLanguage(d)
               words == [asked |-> c.asked, lang |-> lang, as |-> None]
               heard == [c EXCEPT !.raw = TRUE, !.lang = lang, !.status = "transcribed"]
               silent == [heard EXCEPT !.status = "no_content"]
    <2>1. words # NoWords /\ UNCHANGED row
      BY <1>5 DEF TranscriptionLanguage, LanguageOf, NoWords, Hear
    <2>2. CASE obj' = [obj EXCEPT !.raw = words] /\ mem'[d].copy \in {heard, silent}
      <3>1. /\ obj'.raw # NoWords /\ obj'.routed = obj.routed /\ obj'.clean = obj.clean
        BY <1>0, <2>1, <2>2 DEF Objects
      <3>2. Named(row', obj') /\ TextsStay
        BY <1>n, <2>1, <3>1 DEF Named, TextsStay
      <3>3. \A k \in {heard, silent} : k.routed = c.routed /\ k.clean = c.clean
        BY <1>0 DEF Row
      <3>4. Named(mem'[d].copy, obj')
        BY <1>n, <2>2, <3>1, <3>3 DEF Named
      <3> QED BY <1>o, <3>2, <3>4, NamedByOne
    <2>3. ASSUME mem' = [mem EXCEPT ![d] = Looked(d, [@ EXCEPT !.copy = heard, !.text = words])]
          PROVE  mem'[d].copy = heard
      <3>1. Looked(d, [mem[d] EXCEPT !.copy = heard, !.text = words]).copy = heard
        BY <1>0 DEF Looked, Memory
      <3> QED BY <1>0, <2>3, <3>1
    <2>4. Leave(d, silent, "write") => mem'[d].copy = silent
      BY <1>0, Hands
    <2> HIDE DEF heard, silent, words
    <2>5. CASE UNCHANGED obj /\ \E status \in {"no_content", "failed"} : Verdict(d, status)
      BY <1>v, <2>1, <2>5
    <2> QED BY <1>5, <2>2, <2>3, <2>4, <2>5 DEF Hear, c, heard, silent, words, lang
  <1>6. CASE AskRouter(d)
    <2> DEFINE k == [c EXCEPT !.routed = TRUE]
               text == IF mem[d].text # NoWords THEN mem[d].text ELSE obj.raw
    <2>1. UNCHANGED row /\ text # NoWords /\ k \in Row /\ k.raw = c.raw /\ k.clean = c.clean
      BY <1>0, <1>6 DEF AskRouter, Row
    <2> HIDE DEF k
    <2>2. ASSUME obj' = [obj EXCEPT !.routed = text], NEW x, Named(k, obj') => Named(x, obj'),
                 mem'[d].copy = x
          PROVE  AllNamed'
      <3>1. /\ obj'.routed # NoWords /\ obj'.raw = obj.raw /\ obj'.clean = obj.clean
        BY <1>0, <2>1, <2>2 DEF Objects
      <3>2. Named(row', obj') /\ TextsStay /\ Named(k, obj')
        BY <1>n, <2>1, <3>1 DEF Named, TextsStay
      <3> QED BY <1>o, <2>2, <3>2, NamedByOne
    <2>3. ASSUME obj' = [obj EXCEPT !.routed = text], NEW n, NEW t,
                 mem' = [mem EXCEPT ![d].copy = [k EXCEPT !.note = n, !.status = "transcribed"],
                                    ![d].text = t, ![d].dest = n, ![d].seen = "active"]
          PROVE  AllNamed'
      <3>1. mem'[d].copy = [k EXCEPT !.note = n, !.status = "transcribed"]
        BY <1>0, <2>3 DEF Memory
      <3>2. Named(k, obj') => Named([k EXCEPT !.note = n, !.status = "transcribed"], obj')
        BY <2>1, NamedFields
      <3> QED BY <2>2, <2>3, <3>1, <3>2
    <2>4. ASSUME obj' = [obj EXCEPT !.routed = text], Goto(d, "write"),
                 mem' = [mem EXCEPT ![d] = Bare(d, [k EXCEPT !.status = "needs_target"])]
          PROVE  AllNamed'
      <3>1. mem'[d].copy = [k EXCEPT !.status = "needs_target"]
        BY <1>0, <2>4, Hands DEF Leave
      <3>2. Named(k, obj') => Named([k EXCEPT !.status = "needs_target"], obj')
        BY <2>1, NamedFields
      <3> QED BY <2>2, <2>4, <3>1, <3>2
    <2>5. CASE Verdict(d, "failed") /\ UNCHANGED obj
      BY <1>v, <2>1, <2>5
    <2>6. \/ Verdict(d, "failed") /\ UNCHANGED obj
          \/ /\ obj' = [obj EXCEPT !.routed = text] /\ Goto(d, "write")
             /\ \/ mem' = [mem EXCEPT ![d] = Bare(d, [k EXCEPT !.status = "needs_target"])]
                \/ \E n \in Notes : mem' = [mem EXCEPT
                        ![d].copy = [k EXCEPT !.note = n, !.status = "transcribed"],
                        ![d].text = text, ![d].dest = n, ![d].seen = "active"]
      BY <1>6, NotesAssumption DEF AskRouter, c, k
    <2> QED BY <2>3, <2>4, <2>5, <2>6
  <1>7. CASE Destination(d)
    <2>1. UNCHANGED <<row, obj>>
      BY <1>7 DEF Destination
    <2>2. CASE Leave(d, [c EXCEPT !.note = None, !.status = "needs_target"], "write")
      <3>1. mem'[d].copy = [c EXCEPT !.note = None, !.status = "needs_target"]
        BY <1>0, <2>2, Hands
      <3>2. Named([c EXCEPT !.note = None, !.status = "needs_target"], obj)
        BY <1>0, <1>n, NamedFields
      <3> QED BY <1>k, <1>n, <2>1, <3>1, <3>2
    <2>3. CASE Verdict(d, "failed")
      BY <1>v, <2>1, <2>3
    <2>4. ASSUME NEW m, mem' = [mem EXCEPT ![d] = m],
                 m.copy = c \/ m.copy = [c EXCEPT !.raw = FALSE, !.routed = FALSE]
          PROVE  AllNamed'
      <3>1. Named([c EXCEPT !.raw = FALSE, !.routed = FALSE], obj)
        BY <1>0, <1>n, NamedFields
      <3>2. mem'[d].copy = m.copy
        BY <1>0, <2>4
      <3> QED BY <1>k, <1>n, <2>1, <2>4, <3>1, <3>2
    <2>5. LET m == [mem[d] EXCEPT !.dest = c.note, !.seen = "active"]
          IN  /\ m.copy = c
              /\ \A k : [m EXCEPT !.copy = k].copy = k
      BY <1>0 DEF DeliveryTypes, Memory, c
    <2> QED BY <1>7, <2>2, <2>3, <2>4, <2>5 DEF Destination, c
  <1>8. CASE Strip(d)
    <2>1. UNCHANGED row /\ Source(d) # NoWords
      BY <1>8 DEF Strip
    <2>2. CASE Answer(d, c, Source(d), "clean") /\ UNCHANGED obj
      BY <1>0, <1>k, <1>n, <2>1, <2>2, Hands
    <2>3. CASE /\ obj' = [obj EXCEPT !.routed = Source(d)]
               /\ Answer(d, [c EXCEPT !.routed = TRUE], Source(d), "clean")
      <3>1. /\ obj'.routed # NoWords /\ obj'.raw = obj.raw /\ obj'.clean = obj.clean
        BY <1>0, <2>1, <2>3 DEF Objects
      <3>2. mem'[d].copy.raw = c.raw /\ mem'[d].copy.clean = c.clean
        <4>1. mem'[d].copy = [c EXCEPT !.routed = TRUE]
          BY <1>0, <2>3, Hands
        <4> QED BY <1>0, <4>1 DEF Row
      <3>3. Named(row', obj') /\ TextsStay /\ Named(mem'[d].copy, obj')
        BY <1>n, <2>1, <3>1, <3>2 DEF Named, TextsStay
      <3> QED BY <1>o, <3>3, NamedByOne
    <2>4. CASE Verdict(d, "failed") /\ UNCHANGED obj
      BY <1>v, <2>1, <2>4
    <2> QED BY <1>8, <2>2, <2>3, <2>4 DEF Strip, c
  <1>9. CASE Tidy(d)
    <2>1. UNCHANGED row /\ Source(d) # NoWords
      BY <1>9 DEF Tidy
    <2>2. ASSUME NEW a, obj' = [obj EXCEPT !.clean = [Source(d) EXCEPT !.as = a]],
                 Answer(d, [c EXCEPT !.clean = TRUE, !.status = "cleaned"],
                        [Source(d) EXCEPT !.as = a], "append")
          PROVE  AllNamed'
      <3>1. /\ obj'.clean # NoWords /\ obj'.raw = obj.raw /\ obj'.routed = obj.routed
        BY <1>0, <2>1, <2>2, WordsInHand DEF Objects
      <3>2. mem'[d].copy.raw = c.raw /\ mem'[d].copy.routed = c.routed
        <4>1. mem'[d].copy = [c EXCEPT !.clean = TRUE, !.status = "cleaned"]
          BY <1>0, <2>2, Hands
        <4> QED BY <1>0, <4>1 DEF Row
      <3>3. Named(row', obj') /\ TextsStay /\ Named(mem'[d].copy, obj')
        BY <1>n, <2>1, <3>1, <3>2 DEF Named, TextsStay
      <3> QED BY <1>o, <3>3, NamedByOne
    <2>3. CASE (\E status \in {"no_content", "failed"} : Verdict(d, status)) /\ UNCHANGED obj
      BY <1>v, <2>1, <2>3
    <2> QED BY <1>9, <2>2, <2>3 DEF Tidy, c
  <1>10. CASE ClaimCaptureAppend(d) \/ CompleteCaptureAppend(d)
    <2>1. row' \in {row, [row EXCEPT !.held = TRUE, !.leased = TRUE],
                    [row EXCEPT !.status = "appended", !.done = TRUE]}
      BY <1>10 DEF ClaimCaptureAppend, CompleteCaptureAppend
    <2>2. Named(row', obj)
      <3>1. /\ Named([row EXCEPT !.held = TRUE, !.leased = TRUE], obj)
            /\ Named([row EXCEPT !.status = "appended", !.done = TRUE], obj)
        BY <1>0, <1>n, NamedFields
      <3> QED BY <1>n, <2>1, <3>1
    <2>3. mem'[d].copy \in {row', row, c}
      BY <1>0, <1>10, Hands DEF ClaimCaptureAppend, CompleteCaptureAppend, c
    <2> QED BY <1>10, <1>k, <1>n, <2>2, <2>3 DEF ClaimCaptureAppend, CompleteCaptureAppend
  <1>11. CASE Land(d) \/ CheckNote(d) \/ MissingObject(d)
    <2>1. mem'[d].copy = c
      BY <1>0, <1>11 DEF Land, CheckNote, MissingObject, Answer, Leave, Bare, NoMemory,
                         DeliveryTypes, Memory, c
    <2> QED BY <1>11, <1>k, <1>n, <2>1 DEF Land, CheckNote, MissingObject
  <1>12. CASE ReleaseAppendClaim(d)
    <2> DEFINE free == [c EXCEPT !.held = FALSE, !.leased = FALSE]
    <2>1. free \in Row /\ Named(free, obj)
      BY <1>0, <1>n, RowChanges, NamedFields DEF Statuses, Terminal
    <2>2. \A k \in {c, free} : Named([k EXCEPT !.status = "failed"], obj) /\ Named(k, obj)
      BY <1>0, <1>n, <2>1, NamedFields
    <2>3. ASSUME NEW k \in {c, free},
                 \/ Leave(d, [k EXCEPT !.status = "failed"], "write")
                 \/ Leave(d, k, "failed")
          PROVE  Named(mem'[d].copy, obj)
      <3>1. mem'[d].copy \in {k, [k EXCEPT !.status = "failed"]}
        BY <1>0, <2>3, Hands
      <3> QED BY <2>2, <3>1
    <2> HIDE DEF free
    <2>4. row' \in {row, free} /\ UNCHANGED obj
      BY <1>12 DEF ReleaseAppendClaim, PutCapture, c, free
    <2>5. Named(mem'[d].copy, obj)
      BY <1>12, <2>3 DEF ReleaseAppendClaim, c, free
    <2> QED BY <1>k, <1>n, <2>1, <2>4, <2>5
  <1>13. CASE Finish(d) \/ Conceded(d) \/ Failed(d)
    <2>1. mem'[d].copy \in {c, NoRow}
      BY <1>0, <1>13, Hands DEF Finish, Conceded, Failed, c
    <2>2. row' \in {row, [row EXCEPT !.status = "failed", !.fresh = TRUE]}
      BY <1>13 DEF Finish, Conceded, Failed
    <2>3. Named(row', obj)
      <3>1. Named([row EXCEPT !.status = "failed", !.fresh = TRUE], obj)
        BY <1>0, <1>n, NamedFields
      <3> QED BY <1>n, <2>2, <3>1
    <2>4. \E x : obj' = [obj EXCEPT !.processed = x]
      BY <1>13 DEF Finish, Conceded, Failed, MarkAudioProcessed
    <2> QED BY <1>m, <1>n, <2>1, <2>3, <2>4
  <1>14. CASE VerifyPeaks(d)
    <2>1. row' \in {row, [c EXCEPT !.peaks = FALSE, !.fresh = TRUE]} /\ UNCHANGED obj
      BY <1>14 DEF VerifyPeaks, c
    <2>2. Named(row', obj)
      <3>1. Named([c EXCEPT !.peaks = FALSE, !.fresh = TRUE], obj)
        BY <1>0, <1>n, NamedFields
      <3> QED BY <1>n, <2>1, <3>1
    <2>3. mem'[d].copy \in {row, NoRow}
      BY <1>0, <1>14, Hands DEF VerifyPeaks
    <2> QED BY <1>k, <1>n, <2>1, <2>2, <2>3
  <1>15. CASE Fault(d) \/ Crash(d)
    <2>1. mem'[d].copy \in {c, NoRow}
      BY <1>0, <1>15, Hands DEF Fault, Crash, c
    <2> QED BY <1>15, <1>k, <1>n, <2>1 DEF Fault, Crash
  <1> QED
    BY <1>1, <1>2, <1>3, <1>4, <1>5, <1>6, <1>7, <1>8, <1>9, <1>10, <1>11, <1>12, <1>13,
       <1>14, <1>15 DEF Run

\* A step that is no invocation's: the copies are those there were, or none.
LEMMA NamedOutside ==
    ASSUME AllNamed, row.status # "deleted", TextsStay, Named(row', obj'),
           \A x \in Deliveries : mem'[x] = mem[x] \/ mem'[x].copy = NoRow,
           \A q \in Requests : prior'[q] \in {prior[q], row, NoRow}
    PROVE  AllNamed'
  BY NamedStays, NamedNothing DEF AllNamed

\* What a step of a request keeps, where a text is not taken in nor a capture
\* deleted.
LEMMA NamedRequest ==
    ASSUME TypeOK, AllNamed, NobodyDeletes, ~MayBeDeleted, row.status # "deleted",
           NEW r \in Requests, rpc[r] # "putText", "text" \notin Arrives,
           Handle(r) \/ Operation(r) \/ InvokeFails(r) \/ RequestDies(r)
    PROVE  AllNamed'
  <1>0. /\ prior \in [Requests -> Row] /\ row \in Row /\ DeliveryTypes
        /\ Named(row, obj) /\ Named(prior[r], obj) /\ Named(NoRow, obj)
    BY NamedNothing DEF TypeOK, RequestTypes, RowTypes, AllNamed
  <1>1. rpc[r] \notin {"cut", "unlink", "drop", "putText"}
    BY DEF NobodyDeletes
  <1>2. UNCHANGED obj
    BY <1>1
       DEF Handle, Operation, InvokeFails, RequestDies, PutText, DiscardEmptyRow, Invoke,
           Rollback, CutParagraph, Unlink, DeleteRow, IngestText, RetryCapture,
           SetCaptureTarget, RetranscribeCapture, DeleteCapture, Reset
  <1>3. \A x \in Deliveries : mem'[x] = mem[x] \/ mem'[x].copy = NoRow
    <2>1. ASSUME NEW d \in Deliveries, Queue(d, "api")
          PROVE  \A x \in Deliveries : mem'[x] = mem[x] \/ mem'[x].copy = NoRow
      BY <1>0, <2>1, Moves, EmptyValues, Hands DEF Only
    <2> QED BY <1>1, <2>1
            DEF Handle, Operation, InvokeFails, RequestDies, PutText, DiscardEmptyRow, Invoke,
                Rollback, IngestText, RetryCapture, SetCaptureTarget, RetranscribeCapture,
                DeleteCapture, Reset, EnvUnchanged, CutParagraph, Unlink, DeleteRow
  <1>4. \A q \in Requests : prior'[q] \in {prior[q], row, NoRow}
    BY <1>0
       DEF Handle, Operation, InvokeFails, RequestDies, PutText, DiscardEmptyRow, Invoke,
           Rollback, CutParagraph, Unlink, DeleteRow, IngestText, RetryCapture,
           SetCaptureTarget, RetranscribeCapture, DeleteCapture, Reset, Answered, EnvUnchanged
  <1>5. Named(row', obj)
    <2>1. CASE row' \in {row, prior[r]}
      BY <1>0, <2>1
    <2>2. CASE DropRow
      BY <2>2 DEF DropRow, Named, NoRow
    <2>3. CASE RetryCapture(r) \/ SetCaptureTarget(r) \/ RetranscribeCapture(r)
      <3>1. /\ row'.raw => row.raw
            /\ row'.routed => row.routed
            /\ row'.clean => row.clean
        <4>1. CASE RetryCapture(r)
          BY <1>0, <4>1 DEF RetryCapture, Reset, Row
        <4>2. CASE SetCaptureTarget(r)
          BY <1>0, <4>2 DEF SetCaptureTarget, Reset, Row
        <4>3. CASE RetranscribeCapture(r)
          <5>1. row'.raw = FALSE /\ row'.routed = FALSE /\ row'.clean = FALSE
            BY <1>0, <4>3 DEF RetranscribeCapture, Reset, Row
          <5> QED BY <5>1
        <4> QED BY <2>3, <4>1, <4>2, <4>3
      <3> QED BY <1>0, <3>1 DEF Named
    <2> QED BY <1>1, <2>1, <2>2, <2>3
            DEF Handle, Operation, InvokeFails, RequestDies, PutText, DiscardEmptyRow, Invoke,
                CutParagraph, Unlink, DeleteRow, DeleteCapture, RowUnchanged, IngestText, Rollback
  <1> QED BY <1>2, <1>3, <1>4, <1>5, NamedOutside DEF TextsStay

\* And of everything else.
LEMMA NamedEnvironment ==
    ASSUME TypeOK, AllNamed, row.status # "deleted", BeginCapture \/ Environment \/ UNCHANGED vars
    PROVE  AllNamed'
  <1>0. DeliveryTypes /\ obj \in Objects /\ row \in Row /\ Named(row, obj)
    BY DEF TypeOK, RowTypes, AllNamed
  <1>1. UNCHANGED prior
    BY DEF Environment, Clock, BeginCapture, UploadLands, PeaksLand, Redeliver, Reap, Age,
           LeaseEnds, LinkEnds, AudioExpires, ArchiveNote, RestoreNote, PurgeNote, vars
  <1>2. CASE row'.status = "deleted"
    BY <1>2 DEF AllNamed
  <1>3. CASE row'.status # "deleted"
    <2>1. obj'.raw = obj.raw /\ obj'.routed = obj.routed /\ obj'.clean = obj.clean
      <3>1. CASE UNCHANGED obj
        BY <3>1
      <3>2. CASE UploadLands \/ PeaksLand \/ AudioExpires
        BY <1>0, <3>2 DEF UploadLands, PeaksLand, AudioExpires, Objects
      <3>3. ~DropRow
        BY <1>3 DEF DropRow, NoRow
      <3> QED BY <3>1, <3>2, <3>3
              DEF Environment, Clock, BeginCapture, Redeliver, Reap, Age,
                  LeaseEnds, LinkEnds, ArchiveNote, RestoreNote, PurgeNote, vars
    <2>2. \A x \in Deliveries : mem'[x] = mem[x] \/ mem'[x].copy = NoRow
      <3>1. CASE UNCHANGED mem
        BY <3>1
      <3>2. ASSUME NEW d \in Deliveries, NEW by, Queue(d, by)
            PROVE  \A x \in Deliveries : mem'[x] = mem[x] \/ mem'[x].copy = NoRow
        BY <1>0, <3>2, Moves, EmptyValues, Hands DEF Only
      <3> QED BY <3>1, <3>2
              DEF Environment, Clock, BeginCapture, UploadLands, PeaksLand, Redeliver, Reap, Age,
                  LeaseEnds, LinkEnds, AudioExpires, ArchiveNote, RestoreNote, PurgeNote, vars,
                  EnvUnchanged
    <2>3. Named(row', obj)
      <3>1. CASE UNCHANGED row
        BY <1>0, <3>1
      <3>2. CASE BeginCapture
        <4>1. row'.raw = FALSE /\ row'.routed = FALSE /\ row'.clean = FALSE
          BY <3>2 DEF BeginCapture, NewRow, NoRow
        <4> QED BY <4>1 DEF Named
      <3>3. CASE Age \/ LeaseEnds \/ Reap
        <4>1. row'.raw = row.raw /\ row'.routed = row.routed /\ row'.clean = row.clean
          BY <1>0, <3>3 DEF Age, LeaseEnds, Reap, Row, RowUnchanged
        <4> QED BY <1>0, <4>1 DEF Named
      <3>4. ~DropRow
        BY <1>3 DEF DropRow, NoRow
      <3> QED BY <3>1, <3>2, <3>3, <3>4
              DEF Environment, Clock, UploadLands, PeaksLand, Redeliver, LinkEnds, AudioExpires,
                  ArchiveNote, RestoreNote, PurgeNote, vars, RowUnchanged
    <2> QED BY <1>1, <2>1, <2>2, <2>3, NamedOutside DEF TextsStay, Named
  <1> QED BY <1>2, <1>3

\* Nobody takes a text in.
NoText == \A r \in Requests : rpc[r] \notin {"putText", "discard"}

\* Every step keeps the invariant.
LEMMA NamedNext ==
    ASSUME ~MayBeDeleted, "text" \notin Arrives, TypeOK, TypeOK', PromiseInv, HeldInv,
           AllNamed, NoText, [Next]_vars
    PROVE  AllNamed' /\ NoText'
  <1>0. rpc \in [Requests -> RequestPC]
    BY DEF TypeOK, RequestTypes
  <1>1. CASE \E d \in Deliveries : Run(d) \/ Fault(d) \/ Crash(d)
    <2>1. UNCHANGED rpc
      BY <1>1, OwnStep DEF TypeOK
    <2>2. row.status # "deleted" => AllNamed'
      BY <1>1, NamedRun
    <2>3. row.status = "deleted" => row'.status = "deleted"
      BY <1>1, PromiseRun, OneWay
    <2> QED BY <2>1, <2>2, <2>3 DEF NoText, AllNamed
  <1>2. ASSUME NEW r \in Requests, Handle(r) \/ Operation(r) \/ InvokeFails(r) \/ RequestDies(r)
        PROVE  AllNamed' /\ NoText'
    <2>1. rpc[r] \notin {"putText", "discard"}
      BY DEF NoText
    <2>2. \A q \in Requests : rpc'[q] = rpc[q] \/ rpc'[q] \notin {"putText", "discard"}
      BY <1>0, <1>2, <2>1
         DEF Handle, Operation, InvokeFails, RequestDies, PutText, DiscardEmptyRow, Invoke,
             Rollback, CutParagraph, Unlink, DeleteRow, IngestText, RetryCapture,
             SetCaptureTarget, RetranscribeCapture, DeleteCapture, Reset, Answered
    <2>3. row.status # "deleted" => AllNamed'
      BY <1>2, <2>1, NamedRequest DEF HeldInv
    <2>4. row.status = "deleted" => row'.status = "deleted"
      BY <1>2, PromiseRequest, OneWay
    <2> QED BY <2>2, <2>3, <2>4 DEF NoText, AllNamed
  <1>3. CASE BeginCapture \/ Environment \/ UNCHANGED vars
    <2>1. UNCHANGED rpc
      BY <1>3
         DEF Environment, Clock, BeginCapture, UploadLands, PeaksLand, Redeliver, Reap, Age,
             LeaseEnds, LinkEnds, AudioExpires, ArchiveNote, RestoreNote, PurgeNote, vars
    <2>2. row.status # "deleted" => AllNamed'
      BY <1>3, NamedEnvironment
    <2>3. row.status = "deleted" => row'.status = "deleted"
      BY <1>3, PromiseEnvironment, OneWay DEF vars
    <2> QED BY <2>1, <2>2, <2>3 DEF NoText, AllNamed
  <1> QED BY <1>1, <1>2, <1>3 DEF Next

\* At first there are no keys.
LEMMA NamedInit == Init => AllNamed /\ NoText
  <1> SUFFICES ASSUME Init PROVE AllNamed /\ NoText
    OBVIOUS
  <1>1. /\ row = NoRow /\ \A d \in Deliveries : mem[d].copy = NoRow
        /\ \A r \in Requests : prior[r] = NoRow /\ rpc[r] = "idle"
    BY DEF Init, NoMemory
  <1> QED BY <1>1, NamedNothing DEF AllNamed, NoText

\* A key on the row names an object that is there, and what has been achieved
\* is not undone: for any number of invocations, requests and notes, whatever
\* is retried, asked for again or purged, provided the capture is a recording
\* and nobody deletes it.  (A text's row goes before its object, and a deleted
\* capture's after.)
THEOREM KeysNameObjectsAlways ==
    ASSUME ~MayBeDeleted, "text" \notin Arrives
    PROVE  Spec => []KeysNameObjects
  <1>1. TypeOK /\ PromiseInv /\ HeldInv /\ AllNamed /\ NoText /\ [Next]_vars =>
            TypeOK' /\ PromiseInv' /\ HeldInv' /\ AllNamed' /\ NoText'
    BY TypeNext, PromiseNext, HeldNext, NamedNext
  <1>2. Init => TypeOK /\ PromiseInv /\ HeldInv /\ AllNamed /\ NoText
    BY TypeInit, PromiseInit, HeldInit, NamedInit
  <1>3. AllNamed => KeysNameObjects
    BY DEF AllNamed, Named, KeysNameObjects, Exists, Gone
  <1> QED BY <1>1, <1>2, <1>3, PTL DEF Spec

-----------------------------------------------------------------------------
(* Last, that a settled paragraph keeps its words.  A claim may be         *)
(* given while an earlier holder is still on its way to complete: it died, *)
(* or its lease ran out, with the paragraph in the note.  What has to hold *)
(* is that once the paragraph has landed whoever may still land it works   *)
(* from the cleaned text in S3, so that it lands the same words.           *)

\* On the way to the note with a claim, and past the write of "appending".
AtNote(d) == pc[d] \in {"land", "unclaim"}
Past == {"claim", "land", "unclaim", "check", "complete"}
HasLanded == \E n \in Notes : landed[n] # NoWords

\* Keys come in their order.
Ordered(k) == k.clean => k.raw /\ k.note # None

\* One at a time is at the note, and it holds the claim, which no completed
\* append gives away.
ClaimStands ==
    /\ row.done => row.held
    /\ \A d \in Deliveries : AtNote(d) =>
           row.held /\ row.leased /\ (d \in current => ~row.done)
    /\ \A d, e \in Deliveries : AtNote(d) /\ AtNote(e) => d = e

\* Whoever gets as far as the claim has written the row that names the
\* cleaned text.
CleanFirst ==
    /\ Ordered(row) /\ \A r \in Requests : Ordered(prior[r])
    /\ HasLanded \/ (\E d \in Deliveries : pc[d] \in Past) => row.clean

\* What an invocation has in hand.
Ready(d) ==
    /\ Ordered(mem[d].copy)
    /\ pc[d] \in {"idle", "queued"} => mem[d].text = NoWords
    /\ pc[d] \in {"route", "ask", "destination", "strip", "clean", "tidy"} => mem[d].copy.raw
    /\ pc[d] = "write" => IsTerminal(mem[d].copy) \/ mem[d].copy.raw
    /\ pc[d] = "append" => mem[d].copy.clean
    /\ pc[d] \in {"claim", "land", "check", "complete"} => mem[d].dest \in Notes
    /\ pc[d] \in {"land", "check"} => mem[d].text # NoWords
    /\ pc[d] = "complete" => landed[mem[d].dest] # NoWords

\* The paragraph is in the note and somebody may write it once more: then
\* every invocation is past the cleanup, and has the cleaned text in hand or
\* will read it.
MayLandAgain ==
    HasLanded /\ (~row.held \/ ~row.leased \/ \E d \in Deliveries : AtNote(d))
Late(d) ==
    pc[d] \in Stages \ {"peaks"} =>
        /\ mem[d].copy.clean /\ mem[d].text \in {NoWords, obj.clean}
        /\ pc[d] \notin {"transcribe", "hear", "route", "ask", "strip", "clean", "tidy"}
        /\ pc[d] = "complete" => landed[mem[d].dest] = obj.clean
AllLate == MayLandAgain => \A d \in Deliveries : Late(d)

\* An append completed by another finds the same words already in the note.
SameWords ==
    row.done => \A d \in Deliveries : pc[d] = "land" => landed[mem[d].dest] = obj.clean

SettleInv ==
    /\ row.status # "deleted"
    /\ ClaimStands /\ CleanFirst /\ AllLate /\ SameWords
    /\ \A d \in Deliveries : Ready(d)

\* A completed append is not given other words by this step.
Settled ==
    row.done /\ row'.done /\ row'.asked = row.asked =>
        \A n \in Notes : landed'[n] = landed[n] \/ landed'[n] = NoWords

\* The row's claim is as it was, and it names the cleaned text if it did.
SameClaim ==
    /\ row'.held = row.held /\ row'.leased = row.leased /\ row'.done = row.done
    /\ row.clean => row'.clean
    /\ Ordered(row') /\ row'.status # "deleted"

\* A step of an invocation that leaves the claim and the notes alone.
LEMMA SettleOn ==
    ASSUME SettleInv, NEW d \in Deliveries, Only(d), UNCHANGED <<prior, landed>>,
           obj'.clean = obj.clean, SameClaim, current' \subseteq current \cup {d},
           AtNote(d)' => AtNote(d) /\ (d \in current' => d \in current),
           pc'[d] # "land", pc'[d] \in Past => pc[d] \in Past \/ row'.clean,
           Ready(d)', MayLandAgain => Late(d)'
    PROVE  SettleInv' /\ Settled
  <1>1. \A x \in Deliveries : AtNote(x)' => AtNote(x) /\ (x \in current' => x \in current)
    BY DEF Only, AtNote
  <1>2. ClaimStands'
    BY <1>1 DEF SettleInv, ClaimStands, SameClaim
  <1>3. CleanFirst'
    BY DEF SettleInv, CleanFirst, SameClaim, HasLanded, Only
  <1>4. MayLandAgain' => MayLandAgain
    BY <1>1 DEF MayLandAgain, HasLanded, SameClaim
  <1>5. ASSUME NEW x \in Deliveries, x # d
        PROVE  Ready(x)' /\ (MayLandAgain => Late(x)')
    BY <1>5 DEF Only, SettleInv, AllLate, Ready, Late, IsTerminal
  <1>6. AllLate'
    BY <1>4, <1>5 DEF AllLate
  <1>7. SameWords'
    BY DEF SettleInv, SameWords, SameClaim, Only
  <1> QED BY <1>2, <1>3, <1>5, <1>6, <1>7 DEF SettleInv, SameClaim, Settled

\* One that has its outcome, or is over.
LEMMA SettleRest ==
    ASSUME SettleInv, NEW d \in Deliveries, Only(d), UNCHANGED <<prior, landed>>,
           obj'.clean = obj.clean, SameClaim, current' \subseteq current \cup {d},
           pc'[d] \in {"idle", "queued", "failed", "conceded", "finished", "peaks"},
           Ordered(mem'[d].copy), pc'[d] \in {"idle", "queued"} => mem'[d].text = NoWords
    PROVE  SettleInv' /\ Settled
  <1>1. ~AtNote(d)' /\ pc'[d] \notin Past /\ pc'[d] # "land"
    BY DEF AtNote, Past
  <1>2. Ready(d)'
    BY DEF Ready
  <1>3. Late(d)'
    BY DEF Late, Stages
  <1> QED BY <1>1, <1>2, <1>3, SettleOn

\* A write of the row from a copy, won or conceded.
LEMMA SettlePersist ==
    ASSUME TypeOK, PromiseInv, InSync, SettleInv, NEW d \in Deliveries, Only(d), NEW new \in Row,
           NEW p \in {"hear", "ask", "tidy", "claim", "finished", "destination"},
           Persist(d, new, p), d \in current => new.status # "deleted",
           Alike(new, mem[d].copy), Heir(new, mem[d].copy),
           p = "claim" => new.clean /\ mem[d].dest \in Notes,
           p \in {"ask", "tidy", "destination"} => new.raw,
           Late(d) => p \in {"claim", "destination", "finished"},
           pc[d] \in Stages \ {"peaks"}
    PROVE  SettleInv' /\ Settled
  <1>0. DeliveryTypes /\ UNCHANGED <<prior, landed, obj>>
    BY DEF TypeOK, Persist
  <1>1. Ordered(row) /\ Ordered(mem[d].copy) /\ Ordered(new)
    BY DEF SettleInv, CleanFirst, Ready, Ordered, Alike
  <1>2. CASE PutCapture(d, [new EXCEPT !.fresh = TRUE]) /\ Remember(d, row') /\ Goto(d, p)
    <2>1. /\ row' = [new EXCEPT !.fresh = TRUE] /\ current' = {d} /\ d \in current
          /\ mem'[d].copy = row' /\ mem'[d].text = mem[d].text /\ mem'[d].dest = mem[d].dest
          /\ pc'[d] = p
      BY <1>0, <1>2, Hands DEF PutCapture
    <2>2. /\ Alike(row', new) /\ Heir(row', new) /\ row'.status = new.status
      <3>1. /\ Alike([new EXCEPT !.fresh = TRUE], new) /\ Heir([new EXCEPT !.fresh = TRUE], new)
            /\ [new EXCEPT !.fresh = TRUE].status = new.status
        BY AlikeFields, HeirFields DEF Row
      <3> QED BY <2>1, <3>1
    <2>3. Heir(row', row)
      BY <2>1, <2>2, HeirOfHeir DEF InSync
    <2>4. SameClaim
      BY <1>1, <2>1, <2>2, <2>3 DEF SameClaim, Heir, Ordered, Alike
    <2>5. ~AtNote(d)' /\ p # "land" /\ (p \in Past => row'.clean)
      BY <2>1, <2>2 DEF AtNote, Past, Alike
    <2>6. Ready(d)'
      BY <2>1, <2>2, <2>4 DEF Ready, SameClaim, Alike
    <2>7. MayLandAgain => Late(d)'
      <3>1. MayLandAgain => Late(d)
        BY DEF SettleInv, AllLate
      <3>2. Late(d) => Late(d)'
        BY <1>0, <2>1, <2>2 DEF Late, Alike
      <3> QED BY <3>1, <3>2
    <2> QED BY <1>0, <2>1, <2>4, <2>5, <2>6, <2>7, SettleOn
  <1>3. CASE Concede(d)
    <2>1. /\ UNCHANGED row /\ current' \subseteq current \cup {d}
          /\ pc'[d] \in {"conceded", "failed"} /\ mem'[d].copy \in {row, mem[d].copy}
      BY <1>0, <1>3, Hands DEF Concede
    <2>2. SameClaim
      BY <1>1, <2>1 DEF SameClaim, SettleInv
    <2> QED BY <1>0, <1>1, <2>1, <2>2, SettleRest
  <1> QED BY <1>2, <1>3 DEF Persist

\* The text an invocation past the cleanup reads is the cleaned one.
LEMMA LateSource ==
    ASSUME NEW d \in Deliveries, Late(d), pc[d] \in Stages \ {"peaks"}
    PROVE  Source(d) \in {NoWords, obj.clean}
  BY DEF Late, Source

\* The cleaned text is read where a key names it.
LEMMA CleanIsThere ==
    ASSUME AllNamed, row.status # "deleted", row.clean
    PROVE  obj.clean # NoWords
  BY DEF AllNamed, Named

\* A copy's changes that leave its keys in their order.
LEMMA OrderedFields ==
    ASSUME NEW c \in Row, Ordered(c)
    PROVE  /\ \A s : Ordered([c EXCEPT !.status = s])
           /\ \A s, t : Ordered([c EXCEPT !.status = s, !.fresh = t])
           /\ \A s, t : Ordered([c EXCEPT !.status = s, !.done = t])
           /\ \A s, t : Ordered([c EXCEPT !.peaks = s, !.fresh = t])
           /\ \A s, t : Ordered([c EXCEPT !.held = s, !.leased = t])
           /\ \A s : Ordered([c EXCEPT !.routed = s])
           /\ \A s, l : Ordered([c EXCEPT !.raw = TRUE, !.lang = l, !.status = s])
           /\ Ordered(NoRow)
  BY DEF Row, Ordered, NoRow

\* The claim of a row that is written under its claim alone.
LEMMA SameClaimFields ==
    ASSUME NEW c \in Row, Heir(c, row), Ordered(c), c.status # "deleted"
    PROVE  /\ row' = c => SameClaim
           /\ row' = [c EXCEPT !.peaks = FALSE, !.fresh = TRUE] => SameClaim
           /\ row' = [c EXCEPT !.status = "failed", !.fresh = TRUE] => SameClaim
           /\ row' = [c EXCEPT !.fresh = FALSE] => SameClaim
  BY DEF Row, Heir, Ordered, SameClaim

\* The claim: none is given while somebody is at the note.
LEMMA SettleClaim ==
    ASSUME TypeOK, PromiseInv, InSync, SettleInv, NEW d \in Deliveries, ClaimCaptureAppend(d)
    PROVE  SettleInv' /\ Settled
  <1>0. DeliveryTypes /\ row \in Row /\ UNCHANGED <<prior, landed, obj>>
    BY DEF TypeOK, RowTypes, ClaimCaptureAppend
  <1>1. /\ pc[d] = "claim" /\ Source(d) # NoWords /\ Only(d)
        /\ Ordered(row) /\ row.clean /\ mem[d].dest \in Notes /\ row.status # "deleted"
    BY <1>0, OwnStep DEF ClaimCaptureAppend, Run, SettleInv, CleanFirst, Past, Ready
  <1>2. MayLandAgain => Source(d) \in {NoWords, obj.clean}
    BY <1>1, LateSource DEF SettleInv, AllLate, Stages
  <1>3. CASE /\ Claimable(row) /\ row' = [row EXCEPT !.held = TRUE, !.leased = TRUE]
             /\ current' = {d} /\ Answer(d, row', Source(d), "land")
    <2>1. /\ pc'[d] = "land" /\ mem'[d].copy = row' /\ mem'[d].text = Source(d)
          /\ mem'[d].dest = mem[d].dest
      BY <1>0, <1>3, Hands
    <2>2. /\ row'.held /\ row'.leased /\ row'.done = row.done /\ row'.clean
          /\ row'.status = row.status /\ Ordered(row')
      <3>1. Ordered([row EXCEPT !.held = TRUE, !.leased = TRUE])
        BY <1>0, <1>1, OrderedFields
      <3>2. /\ row'.held /\ row'.leased /\ row'.done = row.done /\ row'.clean = row.clean
            /\ row'.status = row.status
        BY <1>0, <1>3 DEF Row
      <3> QED BY <1>1, <1>3, <3>1, <3>2
    <2>3. (~row.held \/ ~row.leased) /\ ~row.done
      BY <1>3 DEF Claimable, SettleInv, ClaimStands
    <2>4. \A x \in Deliveries : ~AtNote(x)
      BY <2>3 DEF SettleInv, ClaimStands
    <2>5. \A x \in Deliveries : AtNote(x)' => x = d
      BY <1>1, <2>4 DEF Only, AtNote
    <2>6. ClaimStands'
      BY <2>2, <2>3, <2>5 DEF ClaimStands
    <2>7. CleanFirst'
      BY <1>0, <2>2 DEF SettleInv, CleanFirst
    <2>8. SameWords'
      BY <2>2, <2>3 DEF SameWords
    <2>9. MayLandAgain' => MayLandAgain
      BY <1>0, <2>3 DEF MayLandAgain, HasLanded
    <2>10. ASSUME NEW x \in Deliveries PROVE Ready(x)' /\ (MayLandAgain => Late(x)')
      <3>1. CASE x = d
        <4>1. Ready(d)'
          BY <1>1, <2>1, <2>2 DEF Ready
        <4>2. MayLandAgain => Late(d)'
          BY <1>0, <1>2, <2>1, <2>2 DEF Late
        <4> QED BY <3>1, <4>1, <4>2
      <3>2. CASE x # d
        BY <1>0, <1>1, <3>2 DEF Only, SettleInv, AllLate, Ready, Late, IsTerminal
      <3> QED BY <3>1, <3>2
    <2> QED BY <1>0, <1>1, <2>2, <2>6, <2>7, <2>8, <2>9, <2>10 DEF SettleInv, AllLate, Settled
  <1>4. CASE UNCHANGED row /\ current' = current \cup {d}
    <2>1. SameClaim
      BY <1>1, <1>4 DEF SameClaim
    <2>2. CASE Leave(d, row, "finished")
      BY <1>0, <1>1, <1>4, <2>1, <2>2, Hands, SettleRest
    <2>3. CASE Answer(d, row, Source(d), "check")
      <3>1. /\ pc'[d] = "check" /\ mem'[d].copy = row /\ mem'[d].text = Source(d)
            /\ mem'[d].dest = mem[d].dest
        BY <1>0, <2>3, Hands
      <3>2. Ready(d)'
        BY <1>1, <3>1 DEF Ready
      <3>3. MayLandAgain => Late(d)'
        BY <1>0, <1>1, <1>2, <3>1 DEF Late
      <3>4. ~AtNote(d)'
        BY <3>1 DEF AtNote
      <3>5. pc[d] \in Past
        BY <1>1 DEF Past
      <3> QED BY <1>0, <1>1, <1>4, <2>1, <3>1, <3>2, <3>3, <3>4, <3>5, SettleOn
    <2> QED BY <1>3, <1>4, <2>2, <2>3 DEF ClaimCaptureAppend
  <1> QED BY <1>3, <1>4 DEF ClaimCaptureAppend

\* The paragraph: over a completed append it is the same words.
LEMMA SettleLand ==
    ASSUME TypeOK, PromiseInv, AllNamed, SettleInv, NEW d \in Deliveries, Land(d)
    PROVE  SettleInv' /\ Settled
  <1> DEFINE n == mem[d].dest
  <1>0. /\ DeliveryTypes /\ UNCHANGED <<row, current, prior, obj>> /\ NoteTypes
        /\ mem \in [Deliveries -> Memory]
    BY DEF TypeOK, Land, DeliveryTypes
  <1>1. /\ pc[d] = "land" /\ Only(d) /\ Ordered(row) /\ row.clean /\ n \in Notes
        /\ row.status # "deleted" /\ AtNote(d) /\ mem[d].text # NoWords
        /\ Ordered(mem[d].copy)
    BY <1>0, OwnStep DEF Land, Run, SettleInv, CleanFirst, Past, Ready, AtNote
  <1>2. SameClaim
    BY <1>0, <1>1 DEF SameClaim
  <1>3. CASE /\ landed' = [landed EXCEPT ![n] = mem[d].text]
             /\ Answer(d, mem[d].copy, NoWords, "complete")
    <2>1. /\ pc'[d] = "complete" /\ mem'[d].copy = mem[d].copy /\ mem'[d].text = NoWords
          /\ mem'[d].dest = n
      BY <1>0, <1>3, Hands
    <2>2. \A m \in Notes : landed'[m] = IF m = n THEN mem[d].text ELSE landed[m]
      BY <1>0, <1>3 DEF NoteTypes
    <2>3. \A x \in Deliveries : ~AtNote(x)'
      BY <1>1, <2>1 DEF Only, SettleInv, ClaimStands, AtNote
    <2>4. ClaimStands' /\ SameWords'
      BY <1>0, <2>3 DEF SettleInv, ClaimStands, SameWords, AtNote
    <2>5. CleanFirst'
      BY <1>0, <1>1 DEF SettleInv, CleanFirst
    <2>6. ~MayLandAgain'
      BY <1>0, <1>1, <2>3 DEF MayLandAgain, SettleInv, ClaimStands
    <2>7. ASSUME NEW x \in Deliveries PROVE Ready(x)'
      <3>1. CASE x = d
        BY <1>1, <2>1, <2>2, <3>1 DEF Ready
      <3>2. CASE x # d
        BY <1>0, <1>1, <2>2, <3>2 DEF Only, SettleInv, Ready, IsTerminal
      <3> QED BY <3>1, <3>2
    <2>8. ASSUME row.done PROVE \A m \in Notes : landed'[m] = landed[m]
      <3>1. landed[n] = obj.clean /\ obj.clean # NoWords
        BY <1>1, <2>8, CleanIsThere DEF SettleInv, SameWords
      <3>2. Late(d)
        BY <1>1, <3>1 DEF SettleInv, AllLate, MayLandAgain, HasLanded
      <3>3. mem[d].text = obj.clean
        BY <1>1, <3>2 DEF Late, Stages
      <3> QED BY <2>2, <3>1, <3>3
    <2> QED BY <1>0, <1>1, <2>4, <2>5, <2>6, <2>7, <2>8 DEF SettleInv, AllLate, Settled
  <1>4. CASE /\ UNCHANGED landed /\ Goto(d, "unclaim")
             /\ UNCHANGED mem \/ mem' = [mem EXCEPT ![d].seen = "archived"]
    <2>1. /\ pc'[d] = "unclaim" /\ mem'[d].copy = mem[d].copy /\ mem'[d].text = mem[d].text
      BY <1>0, <1>4, Hands DEF Memory
    <2>2. Ready(d)'
      BY <1>1, <2>1 DEF Ready
    <2>3. MayLandAgain => Late(d)'
      <3>1. MayLandAgain => Late(d)
        BY DEF SettleInv, AllLate
      <3> QED BY <1>0, <1>1, <2>1, <3>1 DEF Late, Stages
    <2>4. pc[d] \in Past
      BY <1>1 DEF Past
    <2> QED BY <1>0, <1>1, <1>2, <1>4, <2>1, <2>2, <2>3, <2>4, SettleOn
  <1> QED BY <1>3, <1>4 DEF Land

\* The claim given up.
LEMMA SettleRelease ==
    ASSUME TypeOK, PromiseInv, InSync, SettleInv, NEW d \in Deliveries, ReleaseAppendClaim(d)
    PROVE  SettleInv' /\ Settled
  <1> DEFINE c == mem[d].copy
             free == [c EXCEPT !.held = FALSE, !.leased = FALSE]
  <1>0. DeliveryTypes /\ c \in Row /\ UNCHANGED <<prior, landed, obj>>
    BY MemoryFields DEF TypeOK, DeliveryTypes, ReleaseAppendClaim
  <1>1. /\ pc[d] = "unclaim" /\ Only(d) /\ Ordered(row) /\ row.clean /\ AtNote(d)
        /\ row.status # "deleted" /\ Ordered(c)
    BY <1>0, OwnStep DEF ReleaseAppendClaim, Run, SettleInv, CleanFirst, Past, Ready, AtNote
  <1>2. MayLandAgain => c.clean
    BY <1>1 DEF SettleInv, AllLate, Late, Stages
  <1>3. /\ free.held = FALSE /\ free.leased = FALSE /\ free.done = c.done
        /\ free.clean = c.clean /\ free.raw = c.raw /\ free.note = c.note
        /\ free.status = c.status /\ free \in Row
    BY <1>0 DEF Row
  <1>4. ASSUME NEW k \in {c, free},
               \/ Leave(d, [k EXCEPT !.status = "failed"], "write") \/ Leave(d, k, "failed")
        PROVE  /\ pc'[d] \in {"write", "failed"} /\ Ready(d)' /\ (MayLandAgain => Late(d)')
    <2>1. /\ [k EXCEPT !.status = "failed"].status = "failed"
          /\ [k EXCEPT !.status = "failed"].clean = c.clean
          /\ Ordered([k EXCEPT !.status = "failed"]) /\ Ordered(k) /\ k.clean = c.clean
      <3>1. k \in Row /\ Ordered(k) /\ k.clean = c.clean
        BY <1>0, <1>1, <1>3 DEF Ordered
      <3> QED BY <3>1, OrderedFields DEF Row
    <2>2. /\ mem'[d].text = NoWords /\ mem'[d].copy.clean = c.clean /\ Ordered(mem'[d].copy)
          /\ \/ pc'[d] = "write" /\ mem'[d].copy.status = "failed"
             \/ pc'[d] = "failed"
      <3>1. CASE Leave(d, [k EXCEPT !.status = "failed"], "write")
        <4>1. /\ mem'[d].text = NoWords /\ mem'[d].copy = [k EXCEPT !.status = "failed"]
              /\ pc'[d] = "write"
          BY <1>0, <3>1, Hands
        <4> QED BY <2>1, <4>1
      <3>2. CASE Leave(d, k, "failed")
        <4>1. mem'[d].text = NoWords /\ mem'[d].copy = k /\ pc'[d] = "failed"
          BY <1>0, <3>2, Hands
        <4> QED BY <2>1, <4>1
      <3> QED BY <1>4, <3>1, <3>2
    <2> HIDE DEF c
    <2>3. Ready(d)'
      BY <2>2 DEF Ready, IsTerminal, Terminal
    <2>4. MayLandAgain => Late(d)'
      BY <1>2, <2>2 DEF Late, Stages
    <2> QED BY <2>2, <2>3, <2>4
  <1>5. CASE PutCapture(d, free) /\ \E k \in {free} :
               \/ Leave(d, [k EXCEPT !.status = "failed"], "write") \/ Leave(d, k, "failed")
    <2>1. /\ pc'[d] \in {"write", "failed"} /\ Ready(d)' /\ (MayLandAgain => Late(d)')
      BY <1>4, <1>5
    <2>2. row' = free /\ current' = {d} /\ d \in current
      BY <1>5 DEF PutCapture
    <2>3. c.done = row.done /\ ~row.done /\ c.clean /\ c.status = row.status
      BY <1>1, <2>2 DEF InSync, Heir, SettleInv, ClaimStands, PromiseInv, DeliveriesAgree, CopyAgrees
    <2>4. \A x \in Deliveries : ~AtNote(x)'
      BY <1>1, <2>1 DEF Only, SettleInv, ClaimStands, AtNote
    <2> HIDE DEF free, c
    <2>5. ClaimStands' /\ SameWords'
      BY <1>3, <2>2, <2>3, <2>4 DEF ClaimStands, SameWords
    <2>6. CleanFirst'
      BY <1>0, <1>1, <1>3, <2>2, <2>3 DEF SettleInv, CleanFirst, Ordered
    <2>7. MayLandAgain' => MayLandAgain
      BY <1>0, <1>1 DEF MayLandAgain, HasLanded
    <2>8. ASSUME NEW x \in Deliveries, x # d PROVE Ready(x)' /\ (MayLandAgain => Late(x)')
      BY <1>0, <1>1, <2>8 DEF Only, SettleInv, AllLate, Ready, Late, IsTerminal
    <2> QED BY <1>0, <1>1, <1>3, <2>1, <2>2, <2>3, <2>5, <2>6, <2>7, <2>8 DEF SettleInv, AllLate, Settled
  <1>6. CASE UNCHANGED <<row, current>> /\ \E k \in {c} :
               \/ Leave(d, [k EXCEPT !.status = "failed"], "write") \/ Leave(d, k, "failed")
    <2>1. /\ pc'[d] \in {"write", "failed"} /\ Ready(d)' /\ (MayLandAgain => Late(d)')
      BY <1>4, <1>6
    <2>2. SameClaim /\ ~AtNote(d)' /\ pc'[d] \notin Past /\ pc'[d] # "land"
      BY <1>1, <1>6, <2>1 DEF SameClaim, AtNote, Past
    <2> QED BY <1>0, <1>1, <1>6, <2>1, <2>2, SettleOn
  <1> QED BY <1>5, <1>6 DEF ReleaseAppendClaim

\* The completion: whoever is at the note by then will land the same words.
LEMMA SettleComplete ==
    ASSUME TypeOK, PromiseInv, OneInv, SettleInv, NEW d \in Deliveries, CompleteCaptureAppend(d)
    PROVE  SettleInv' /\ Settled
  <1>0. DeliveryTypes /\ row \in Row /\ UNCHANGED <<prior, landed, obj>>
    BY DEF TypeOK, RowTypes, CompleteCaptureAppend
  <1>1. /\ pc[d] = "complete" /\ Only(d) /\ Ordered(row) /\ row.clean
        /\ row.status # "deleted" /\ Ordered(mem[d].copy)
        /\ mem[d].dest \in Notes /\ landed[mem[d].dest] # NoWords
    BY <1>0, OwnStep DEF CompleteCaptureAppend, Run, SettleInv, CleanFirst, Past, Ready
  <1>2. CASE /\ row.held /\ row' = [row EXCEPT !.status = "appended", !.done = TRUE]
             /\ current' = {d} /\ Leave(d, row', "finished")
    <2>1. pc'[d] = "finished" /\ mem'[d].copy = row'
      BY <1>0, <1>2, Hands
    <2>2. /\ row'.held = row.held /\ row'.leased = row.leased /\ row'.clean = row.clean
          /\ row'.status = "appended" /\ Ordered(row')
      <3>1. Ordered([row EXCEPT !.status = "appended", !.done = TRUE])
        BY <1>0, <1>1, OrderedFields
      <3> QED BY <1>0, <1>2, <3>1 DEF Row
    <2>3. \A x \in Deliveries : AtNote(x)' => AtNote(x) /\ x # d /\ x \notin current'
      BY <1>1, <1>2, <2>1 DEF Only, AtNote
    <2>4. ClaimStands'
      BY <1>2, <2>2, <2>3 DEF SettleInv, ClaimStands
    <2>5. CleanFirst'
      BY <1>0, <1>1, <2>2 DEF SettleInv, CleanFirst
    <2>6. MayLandAgain' => MayLandAgain
      BY <1>0, <2>2, <2>3 DEF MayLandAgain, HasLanded
    <2>7. ASSUME NEW x \in Deliveries PROVE Ready(x)' /\ (MayLandAgain => Late(x)')
      <3>1. CASE x = d
        BY <2>1, <2>2, <3>1 DEF Ready, Late, Stages
      <3>2. CASE x # d
        BY <1>0, <1>1, <3>2 DEF Only, SettleInv, AllLate, Ready, Late, IsTerminal
      <3> QED BY <3>1, <3>2
    <2>8. ASSUME NEW x \in Deliveries, pc'[x] = "land" PROVE landed'[mem'[x].dest] = obj'.clean
      <3>1. x # d /\ pc[x] = "land" /\ mem'[x] = mem[x]
        BY <1>1, <2>1, <2>8 DEF Only
      <3>2. MayLandAgain
        BY <1>1, <3>1 DEF MayLandAgain, HasLanded, AtNote
      <3>3. landed[mem[d].dest] = obj.clean
        BY <1>1, <3>2 DEF SettleInv, AllLate, Late, Stages
      <3>4. mem[x].dest \in Notes
        BY <3>1 DEF SettleInv, Ready
      <3>5. mem[x].dest = mem[d].dest
        BY <1>1, <3>1, <3>4 DEF OneInv, OneAim, Destined, Aiming
      <3> QED BY <1>0, <3>1, <3>3, <3>5
    <2> QED BY <1>0, <2>2, <2>4, <2>5, <2>6, <2>7, <2>8 DEF SettleInv, AllLate, SameWords, Settled
  <1>3. CASE UNCHANGED row /\ current' \subseteq current \cup {d}
             /\ (Leave(d, row, "finished") \/ Leave(d, mem[d].copy, "failed"))
    <2>1. SameClaim
      BY <1>1, <1>3 DEF SameClaim
    <2>2. pc'[d] \in {"finished", "failed"} /\ mem'[d].copy \in {row, mem[d].copy}
      BY <1>0, <1>3, Hands
    <2> QED BY <1>0, <1>1, <1>3, <2>1, <2>2, SettleRest
  <1> QED BY <1>2, <1>3 DEF CompleteCaptureAppend

\* The cleanup: nobody who might land again is waiting for it.
LEMMA SettleTidy ==
    ASSUME TypeOK, PromiseInv, OneInv, AllNamed, SettleInv, NEW d \in Deliveries, Tidy(d)
    PROVE  SettleInv' /\ Settled
  <1> DEFINE c == mem[d].copy
  <1>0. DeliveryTypes /\ c \in Row /\ UNCHANGED <<row, current, prior, landed>>
    BY MemoryFields DEF TypeOK, DeliveryTypes, Tidy
  <1>1. /\ pc[d] = "tidy" /\ Only(d) /\ Ordered(row) /\ row.status # "deleted"
        /\ Ordered(c) /\ c.raw /\ c.note # None
    BY <1>0, OwnStep DEF Tidy, Run, SettleInv, CleanFirst, Ready, OneInv, Fits
  <1>2. SameClaim
    BY <1>0, <1>1 DEF SameClaim
  <1>3. ~MayLandAgain
    BY <1>1 DEF SettleInv, AllLate, Late, Stages
  <1> HIDE DEF c
  <1>4. CASE UNCHANGED obj /\ \E status \in {"no_content", "failed"} : Verdict(d, status)
    <2>1. PICK s \in {"no_content", "failed"} : mem'[d].copy = [c EXCEPT !.status = s] /\ pc'[d] = "write"
      BY <1>0, <1>4, Hands DEF c
    <2>2. Ordered(mem'[d].copy) /\ mem'[d].copy.status = s
      <3>1. Ordered([c EXCEPT !.status = s]) /\ [c EXCEPT !.status = s].status = s
        BY <1>0, <1>1, OrderedFields DEF Row
      <3> QED BY <2>1, <3>1
    <2>3. Ready(d)'
      BY <2>1, <2>2 DEF Ready, IsTerminal, Terminal
    <2>4. ~AtNote(d)' /\ pc'[d] \notin Past
      BY <2>1 DEF AtNote, Past
    <2> QED BY <1>0, <1>1, <1>2, <1>3, <1>4, <2>1, <2>3, <2>4, SettleOn
  <1>5. CASE \E t : Answer(d, [c EXCEPT !.clean = TRUE, !.status = "cleaned"], t, "append")
    <2>1. mem'[d].copy = [c EXCEPT !.clean = TRUE, !.status = "cleaned"] /\ pc'[d] = "append"
      BY <1>0, <1>5, Hands
    <2>2. Ordered(mem'[d].copy) /\ mem'[d].copy.clean
      BY <1>0, <1>1, <2>1 DEF Ordered, Row
    <2>3. Ready(d)'
      BY <2>1, <2>2 DEF Ready
    <2>4. \A x \in Deliveries : (AtNote(x)' => AtNote(x)) /\ (pc'[x] \in Past => pc[x] \in Past)
      BY <1>1, <2>1 DEF Only, AtNote, Past
    <2>5. ~MayLandAgain'
      BY <1>0, <1>3, <2>4 DEF MayLandAgain, HasLanded
    <2>6. ClaimStands' /\ CleanFirst'
      BY <1>0, <2>4 DEF SettleInv, ClaimStands, CleanFirst, HasLanded
    <2>7. ASSUME NEW x \in Deliveries, x # d PROVE Ready(x)'
      BY <1>0, <1>1, <2>7 DEF Only, SettleInv, Ready, IsTerminal
    <2>8. ASSUME row.done, NEW x \in Deliveries, pc[x] = "land" PROVE FALSE
      <3>1. landed[mem[x].dest] = obj.clean /\ mem[x].dest \in Notes /\ row.clean
        BY <2>8 DEF SettleInv, SameWords, Ready, CleanFirst, Past
      <3>2. obj.clean # NoWords
        BY <1>1, <3>1, CleanIsThere
      <3> QED BY <1>3, <2>8, <3>1, <3>2 DEF MayLandAgain, HasLanded, AtNote
    <2>9. SameWords'
      BY <1>0, <1>1, <2>1, <2>8 DEF SameWords, Only
    <2> QED BY <1>0, <2>3, <2>5, <2>6, <2>7, <2>9 DEF SettleInv, AllLate, Settled
  <1> QED BY <1>4, <1>5 DEF Tidy, c
\* An invocation's step, one leaf for each action.
LEMMA SettleRun ==
    ASSUME TypeOK, PromiseInv, OneInv, InSync, AllNamed, SettleInv, NEW d \in Deliveries,
           Run(d) \/ Fault(d) \/ Crash(d)
    PROVE  SettleInv' /\ Settled
  <1> DEFINE c == mem[d].copy
  <1>0. /\ DeliveryTypes /\ row \in Row /\ c \in Row /\ mem \in [Deliveries -> Memory]
        /\ obj \in Objects /\ c.note \in Notes \cup {None}
    BY MemoryFields, RowFields DEF TypeOK, RowTypes, DeliveryTypes
  <1>o. Only(d) /\ UNCHANGED prior
    BY <1>0, OwnStep
  <1>s. /\ Ordered(row) /\ Ordered(c) /\ row.status # "deleted" /\ Ready(d) /\ Fits(d)
        /\ MayLandAgain => Late(d)
    BY DEF SettleInv, CleanFirst, Ready, AllLate, OneInv
  <1>n. Ordered(NoRow)
    BY DEF NoRow, Ordered
  <1>t. /\ \A x, y : [obj EXCEPT !.audio = x, !.processed = y].clean = obj.clean
        /\ \A x : [obj EXCEPT !.processed = x].clean = obj.clean
        /\ \A x : [obj EXCEPT !.raw = x].clean = obj.clean
        /\ \A x : [obj EXCEPT !.routed = x].clean = obj.clean
    BY <1>0 DEF Objects
  <1> HIDE DEF c
  <1>y. UNCHANGED row => SameClaim
    BY <1>s DEF SameClaim
  \* It has its outcome, or is over, or never began.
  <1>r. ASSUME SameClaim, UNCHANGED landed, obj'.clean = obj.clean,
               current' \subseteq current \cup {d},
               \/ /\ pc'[d] \in {"failed", "conceded", "finished", "peaks"}
                  /\ Ordered(mem'[d].copy)
               \/ End(d) \/ Again(d)
        PROVE  SettleInv' /\ Settled
    <2>1. End(d) \/ Again(d) => /\ pc'[d] \in {"idle", "queued"} /\ mem'[d].copy = NoRow
                                /\ mem'[d].text = NoWords
      BY <1>0, Hands
    <2> QED BY <1>n, <1>o, <1>r, <2>1, SettleRest
  \* It goes on to a stage before the claim, or to write its verdict.
  <1>g. ASSUME UNCHANGED <<row, landed>>, obj'.clean = obj.clean,
               current' \subseteq current \cup {d},
               pc'[d] \in {"transcribe", "route", "destination", "strip", "clean", "append", "write"},
               Ready(d)', MayLandAgain => Late(d)'
        PROVE  SettleInv' /\ Settled
    <2>1. ~AtNote(d)' /\ pc'[d] \notin Past /\ pc'[d] # "land"
      BY <1>g DEF AtNote, Past
    <2> QED BY <1>g, <1>o, <1>y, <2>1, SettleOn
  <1>v. ASSUME NEW x \in Terminal, Verdict(d, x), UNCHANGED <<row, current, landed>>,
               obj'.clean = obj.clean, pc[d] \in Stages \ {"peaks"}
        PROVE  SettleInv' /\ Settled
    <2>1. /\ pc'[d] = "write" /\ mem'[d].copy = [c EXCEPT !.status = x] /\ mem'[d].text = NoWords
      BY <1>0, <1>v, Hands DEF c
    <2>2. /\ Ordered(mem'[d].copy) /\ mem'[d].copy.status = x /\ mem'[d].copy.clean = c.clean
      <3>1. /\ Ordered([c EXCEPT !.status = x]) /\ [c EXCEPT !.status = x].status = x
            /\ [c EXCEPT !.status = x].clean = c.clean
        BY <1>0, <1>s, OrderedFields DEF Row
      <3> QED BY <2>1, <3>1
    <2>3. Ready(d)'
      BY <2>1, <2>2 DEF Ready, IsTerminal
    <2>4. MayLandAgain => Late(d)'
      BY <1>s, <1>v, <2>1, <2>2 DEF Late, c
    <2> QED BY <1>g, <1>v, <2>1, <2>3, <2>4
  <1>1. CASE StartRun(d)
    <2>1. mem[d].text = NoWords /\ UNCHANGED <<row, landed>> /\ pc[d] = "queued"
      BY <1>1, <1>s DEF StartRun, Ready
    <2>2. CASE Remember(d, row) /\ Goto(d, FirstStage(row)) /\ current' = current \cup {d}
               /\ UNCHANGED obj
      <3>1. mem'[d].copy = row /\ mem'[d].text = NoWords /\ pc'[d] = FirstStage(row)
        BY <1>0, <2>1, <2>2, Hands
      <3>2. Ready(d)'
        BY <1>s, <3>1 DEF Ready, FirstStage
      <3>3. MayLandAgain => Late(d)'
        <4>1. MayLandAgain => row.clean
          BY DEF SettleInv, CleanFirst, MayLandAgain
        <4>2. row.clean => FirstStage(row) = "destination"
          BY <1>s DEF FirstStage, Ordered
        <4> QED BY <3>1, <4>1, <4>2 DEF Late
      <3>4. pc'[d] \in {"transcribe", "route", "destination"}
        BY <3>1 DEF FirstStage
      <3> QED BY <1>g, <2>1, <2>2, <3>2, <3>3, <3>4
    <2>3. CASE End(d) /\ UNCHANGED current /\ obj'.clean = obj.clean
      BY <1>r, <1>y, <2>1, <2>3
    <2>4. CASE Goto(d, "failed") /\ UNCHANGED <<mem, current, obj>>
      <3>1. pc'[d] = "failed" /\ mem'[d].copy = c
        BY <1>0, <2>4, Hands DEF c
      <3> QED BY <1>r, <1>s, <1>y, <2>1, <2>4, <3>1
    <2>5. obj'.clean = obj.clean
      BY <1>0, <1>1 DEF StartRun, Objects
    <2> QED BY <1>1, <2>2, <2>3, <2>4, <2>5 DEF StartRun
  <1>2. CASE RejectOversized(d)
    <2>1. /\ mem[d].text = NoWords /\ UNCHANGED <<row, landed>> /\ pc[d] = "queued"
          /\ obj'.clean = obj.clean
      BY <1>2, <1>s, <1>t DEF RejectOversized, Ready
    <2>2. CASE /\ Remember(d, [row EXCEPT !.status = "failed"]) /\ Goto(d, "write")
               /\ current' = current \cup {d}
      <3>1. /\ mem'[d].copy = [row EXCEPT !.status = "failed"] /\ mem'[d].text = NoWords
            /\ pc'[d] = "write"
        BY <1>0, <2>1, <2>2, Hands
      <3>2. /\ Ordered(mem'[d].copy) /\ mem'[d].copy.status = "failed"
            /\ mem'[d].copy.clean = row.clean
        <4>1. Ordered([row EXCEPT !.status = "failed"])
          BY <1>0, <1>s, OrderedFields
        <4> QED BY <1>0, <3>1, <4>1 DEF Row
      <3>3. Ready(d)'
        BY <3>1, <3>2 DEF Ready, IsTerminal, Terminal
      <3>4. MayLandAgain => Late(d)'
        <4>1. MayLandAgain => row.clean
          BY DEF SettleInv, CleanFirst, MayLandAgain
        <4> QED BY <3>1, <3>2, <4>1 DEF Late
      <3> QED BY <1>g, <2>1, <2>2, <3>1, <3>3, <3>4
    <2>3. CASE End(d) /\ UNCHANGED current
      BY <1>r, <1>y, <2>1, <2>3
    <2> QED BY <1>2, <2>2, <2>3 DEF RejectOversized
  <1>3. CASE Transcribe(d) \/ Route(d) \/ Clean(d) \/ Append(d)
    <2>1. PICK x \in Pending, p \in {"hear", "ask", "tidy", "claim"} :
             /\ Persist(d, [c EXCEPT !.status = x], p)
             /\ pc[d] \in {"transcribe", "route", "clean", "append"}
             /\ p = "ask" => pc[d] = "route"
             /\ p = "tidy" => pc[d] = "clean"
             /\ p = "claim" <=> pc[d] = "append"
      BY <1>3 DEF Transcribe, Route, Clean, Append, SetStatus, Pending, c
    <2> DEFINE new == [c EXCEPT !.status = x]
    <2>2. /\ new \in Row /\ Alike(new, c) /\ Heir(new, c) /\ new.status # "deleted"
          /\ new.raw = c.raw /\ new.clean = c.clean
      <3>1. new \in Row
        BY <1>0, RowFields DEF Statuses
      <3>2. Alike(new, c)
        BY <1>0, AlikeFields
      <3>3. Heir(new, c)
        BY <1>0, HeirFields
      <3> QED BY <1>0, <3>1, <3>2, <3>3 DEF Row, Pending
    <2>3. p = "claim" => c.clean /\ mem[d].dest \in Notes
      BY <1>0, <1>s, <2>1 DEF Ready, Fits, c
    <2>4. p \in {"ask", "tidy"} => c.raw
      BY <1>s, <2>1 DEF Ready, c
    <2>5. (Late(d) => p = "claim") /\ pc[d] \in Stages \ {"peaks"}
      BY <2>1 DEF Late, Stages
    <2> HIDE DEF new
    <2>6. Persist(d, new, p) /\ p # "destination"
      BY <2>1 DEF new
    <2> QED BY <1>o, <2>2, <2>3, <2>4, <2>5, <2>6, SettlePersist DEF c
  <1>4. CASE Write(d)
    <2>1. PICK p \in {"finished", "destination"} :
             Persist(d, c, p) /\ (p = "destination" => ~IsTerminal(c))
      BY <1>4 DEF Write, c
    <2>2. pc[d] = "write" /\ pc[d] \in Stages \ {"peaks"}
      BY <1>4 DEF Write, Stages
    <2>3. p = "destination" => c.raw
      BY <1>s, <2>1, <2>2 DEF Ready, c
    <2>4. d \in current => c.status # "deleted"
      BY <2>2 DEF PromiseInv, DeliveriesAgree, CopyAgrees, c
    <2>5. Alike(c, c) /\ Heir(c, c)
      BY DEF Alike, Heir
    <2> QED BY <1>0, <1>o, <2>1, <2>2, <2>3, <2>4, <2>5, SettlePersist DEF c
  <1>5. CASE Hear(d)
    <2> DEFINE lang == TranscriptionLanguage(d)
               words == [asked |-> c.asked, lang |-> lang, as |-> None]
               heard == [c EXCEPT !.raw = TRUE, !.lang = lang, !.status = "transcribed"]
               silent == [heard EXCEPT !.status = "no_content"]
    <2>1. ~MayLandAgain /\ pc[d] \in Stages \ {"peaks"}
      BY <1>5, <1>s DEF Hear, Late, Stages
    <2>2. /\ Ordered(heard) /\ Ordered(silent) /\ heard.raw /\ silent.status = "no_content"
      <3>1. lang \in Languages
        BY DEF TranscriptionLanguage, LanguageOf, Languages
      <3>2. heard \in Row
        BY <1>0, <3>1, RowChanges DEF Statuses, Pending
      <3>3. Ordered(heard)
        BY <1>0, <1>s, OrderedFields
      <3>4. Ordered(silent)
        BY <3>2, <3>3, OrderedFields
      <3> QED BY <1>0, <3>2, <3>3, <3>4 DEF Row
    <2>3. UNCHANGED <<row, current, landed>> /\ obj'.clean = obj.clean
      BY <1>5, <1>t DEF Hear
    <2>4. ASSUME NEW p \in {"route", "write"}, Goto(d, p),
                 mem' = [mem EXCEPT ![d] = Looked(d, [@ EXCEPT !.copy = heard, !.text = words])]
          PROVE  mem'[d].copy = heard /\ pc'[d] \in {"route", "write"}
      <3>1. Looked(d, [mem[d] EXCEPT !.copy = heard, !.text = words]).copy = heard
        BY <1>0 DEF Looked, Memory
      <3> QED BY <1>0, <2>4, <3>1, Hands
    <2>5. Leave(d, silent, "write") => mem'[d].copy = silent /\ pc'[d] = "write"
      BY <1>0, Hands
    <2> HIDE DEF heard, silent, words
    <2>6. CASE \/ mem'[d].copy = heard /\ pc'[d] \in {"route", "write"}
               \/ mem'[d].copy = silent /\ pc'[d] = "write"
      <3>1. Ready(d)'
        BY <2>2, <2>6 DEF Ready, IsTerminal, Terminal
      <3> QED BY <1>g, <2>1, <2>3, <2>6, <3>1
    <2>7. CASE \E status \in {"no_content", "failed"} : Verdict(d, status)
      BY <1>v, <2>1, <2>3, <2>7 DEF Terminal
    <2> QED BY <1>5, <2>4, <2>5, <2>6, <2>7 DEF Hear, c, heard, silent, words, lang
  <1>6. CASE AskRouter(d)
    <2> DEFINE k == [c EXCEPT !.routed = TRUE]
    <2>1. /\ ~MayLandAgain /\ pc[d] \in Stages \ {"peaks"}
          /\ UNCHANGED <<row, current, landed>> /\ obj'.clean = obj.clean
      <3>1. ~MayLandAgain /\ pc[d] \in Stages \ {"peaks"} /\ UNCHANGED <<row, current, landed>>
        BY <1>6, <1>s DEF AskRouter, Late, Stages
      <3>2. obj'.clean = obj.clean
        BY <1>0, <1>6 DEF AskRouter, Objects
      <3> QED BY <3>1, <3>2
    <2>2. c.raw /\ ~c.clean
      BY <1>6, <1>s DEF AskRouter, Ready, Fits, Ordered, c
    <2>3. k.raw /\ ~k.clean /\ k \in Row
      BY <1>0, <2>2 DEF Row
    <2> HIDE DEF k
    <2>4. ASSUME NEW n, NEW t, Goto(d, "write"),
                 mem' = [mem EXCEPT ![d].copy = [k EXCEPT !.note = n, !.status = "transcribed"],
                                    ![d].text = t, ![d].dest = n, ![d].seen = "active"]
          PROVE  SettleInv' /\ Settled
      <3>1. mem'[d].copy = [k EXCEPT !.note = n, !.status = "transcribed"] /\ pc'[d] = "write"
        BY <1>0, <2>4, Hands DEF Memory
      <3>2. mem'[d].copy.raw /\ ~mem'[d].copy.clean
        BY <2>3, <3>1 DEF Row
      <3>3. Ready(d)'
        BY <3>1, <3>2 DEF Ready, Ordered
      <3> QED BY <1>g, <2>1, <3>1, <3>3
    <2>5. CASE /\ Goto(d, "write")
               /\ mem' = [mem EXCEPT ![d] = Bare(d, [k EXCEPT !.status = "needs_target"])]
      <3>1. mem'[d].copy = [k EXCEPT !.status = "needs_target"] /\ pc'[d] = "write"
        BY <1>0, <2>5, Hands DEF Leave
      <3>2. mem'[d].copy.raw /\ ~mem'[d].copy.clean
        BY <2>3, <3>1 DEF Row
      <3>3. Ready(d)'
        BY <3>1, <3>2 DEF Ready, Ordered
      <3> QED BY <1>g, <2>1, <3>1, <3>3
    <2>6. CASE Verdict(d, "failed")
      BY <1>v, <2>1, <2>6 DEF Terminal
    <2> QED BY <1>6, <2>4, <2>5, <2>6 DEF AskRouter, c, k
  <1>7. CASE Destination(d)
    <2>1. /\ pc[d] = "destination" /\ pc[d] \in Stages \ {"peaks"}
          /\ UNCHANGED <<row, current, landed, obj>>
          /\ c.raw /\ c.note # None /\ note[c.note] # "absent"
      BY <1>7, <1>s DEF Destination, Stages, Ready, Fits, There, c
    <2>2. mem[d].seen # "absent"
      BY <1>0 DEF Memory
    <2> DEFINE m == [mem[d] EXCEPT !.dest = c.note, !.seen = "active"]
               old == [c EXCEPT !.raw = FALSE, !.routed = FALSE]
    <2>3. m.copy = c /\ m.text = mem[d].text
      BY <1>0 DEF Memory, c
    <2>4. [m EXCEPT !.copy = old].copy = old
      BY <1>0 DEF Memory
    <2>5. old.clean = c.clean
      BY <1>0 DEF Row
    <2>6. \/ Verdict(d, "failed")
          \/ /\ Goto(d, "transcribe") /\ mem' = [mem EXCEPT ![d] = [m EXCEPT !.copy = old]]
             /\ ~c.clean
          \/ /\ mem' = [mem EXCEPT ![d] = m]
             /\ \E p \in {"append", "clean", "strip"} : Goto(d, p) /\ (p = "append" <=> c.clean)
      BY <1>7, <2>1, <2>2 DEF Destination, FreesCapture, WantsNoteLanguage, c
    <2> HIDE DEF m, old
    <2>7. CASE Verdict(d, "failed")
      BY <1>v, <2>1, <2>7 DEF Terminal
    <2>8. CASE /\ Goto(d, "transcribe") /\ mem' = [mem EXCEPT ![d] = [m EXCEPT !.copy = old]]
               /\ ~c.clean
      <3>1. mem'[d].copy = old /\ pc'[d] = "transcribe"
        BY <1>0, <2>4, <2>8, Hands
      <3>2. ~MayLandAgain
        BY <1>s, <2>1, <2>8 DEF Late, c
      <3>3. Ready(d)'
        BY <2>5, <2>8, <3>1 DEF Ready, Ordered
      <3> QED BY <1>g, <2>1, <3>1, <3>2, <3>3
    <2>9. CASE /\ mem' = [mem EXCEPT ![d] = m]
               /\ \E p \in {"append", "clean", "strip"} : Goto(d, p) /\ (p = "append" <=> c.clean)
      <3>1. /\ mem'[d].copy = c /\ mem'[d].text = mem[d].text
            /\ pc'[d] \in {"append", "clean", "strip"} /\ (pc'[d] = "append" <=> c.clean)
        BY <1>0, <2>3, <2>9, Hands
      <3>2. Ready(d)'
        BY <1>s, <2>1, <3>1 DEF Ready
      <3>3. MayLandAgain => Late(d)'
        BY <1>s, <2>1, <3>1 DEF Late, c
      <3> QED BY <1>g, <2>1, <3>1, <3>2, <3>3
    <2> QED BY <2>6, <2>7, <2>8, <2>9
  <1>8. CASE Strip(d)
    <2>1. /\ ~MayLandAgain /\ pc[d] \in Stages \ {"peaks"} /\ c.raw
          /\ UNCHANGED <<row, current, landed>> /\ obj'.clean = obj.clean
      BY <1>8, <1>s, <1>t DEF Strip, Late, Stages, Ready, c
    <2>2. ASSUME NEW k, NEW t, Answer(d, k, t, "clean"), Ordered(k), k.raw
          PROVE  SettleInv' /\ Settled
      <3>1. mem'[d].copy = k /\ pc'[d] = "clean"
        BY <1>0, <2>2, Hands
      <3>2. Ready(d)'
        BY <2>2, <3>1 DEF Ready
      <3> QED BY <1>g, <2>1, <3>1, <3>2
    <2>3. Ordered([c EXCEPT !.routed = TRUE]) /\ [c EXCEPT !.routed = TRUE].raw = c.raw
      BY <1>0, <1>s, OrderedFields DEF Row
    <2>4. CASE Verdict(d, "failed")
      BY <1>v, <2>1, <2>4 DEF Terminal
    <2> QED BY <1>8, <1>s, <2>1, <2>2, <2>3, <2>4 DEF Strip, c
  <1>9. CASE Tidy(d) \/ ClaimCaptureAppend(d) \/ Land(d) \/ ReleaseAppendClaim(d)
             \/ CompleteCaptureAppend(d)
    BY <1>9, SettleTidy, SettleClaim, SettleLand, SettleRelease, SettleComplete
  <1>10. CASE CheckNote(d)
    <2>1. pc[d] = "check" /\ UNCHANGED <<row, current, landed, obj>>
      BY <1>10 DEF CheckNote
    <2>2. CASE landed[mem[d].dest] = mem[d].text /\ Answer(d, mem[d].copy, NoWords, "complete")
      <3>1. /\ mem'[d].copy = c /\ mem'[d].text = NoWords /\ pc'[d] = "complete"
            /\ mem'[d].dest = mem[d].dest
        BY <1>0, <2>2, Hands DEF c
      <3>2. Ready(d)'
        BY <1>s, <2>1, <2>2, <3>1 DEF Ready
      <3>3. MayLandAgain => Late(d)'
        BY <1>s, <2>1, <2>2, <3>1 DEF Late, Stages, Ready, c
      <3>4. ~AtNote(d)' /\ pc[d] \in Past
        BY <2>1, <3>1 DEF AtNote, Past
      <3> QED BY <1>o, <1>y, <2>1, <3>1, <3>2, <3>3, <3>4, SettleOn
    <2>3. CASE Leave(d, mem[d].copy, "failed")
      <3>1. pc'[d] = "failed" /\ mem'[d].copy = c
        BY <1>0, <2>3, Hands DEF c
      <3> QED BY <1>r, <1>s, <1>y, <2>1, <3>1
    <2> QED BY <1>10, <2>2, <2>3 DEF CheckNote
  <1>11. CASE MissingObject(d)
    <2>1. pc'[d] = "failed" /\ mem'[d].copy = c
      BY <1>0, <1>11, Hands DEF MissingObject, c
    <2> QED BY <1>11, <1>r, <1>s, <1>y, <2>1 DEF MissingObject
  <1>12. CASE Finish(d) \/ Conceded(d)
    <2>1. UNCHANGED <<row, landed>> /\ obj'.clean = obj.clean /\ current' \subseteq current
      BY <1>12, <1>t DEF Finish, Conceded, MarkAudioProcessed, Release
    <2>2. CASE Goto(d, "peaks") /\ UNCHANGED mem
      <3>1. pc'[d] = "peaks" /\ mem'[d].copy = c
        BY <1>0, <2>2, Hands DEF c
      <3> QED BY <1>r, <1>s, <1>y, <2>1, <3>1
    <2> QED BY <1>12, <1>r, <1>y, <2>1, <2>2 DEF Finish, Conceded
  <1>13. CASE VerifyPeaks(d)
    <2>1. UNCHANGED <<landed, obj>> /\ current' \subseteq current \cup {d}
      BY <1>13 DEF VerifyPeaks, Release
    <2>2. CASE /\ d \in current /\ row' = [mem[d].copy EXCEPT !.peaks = FALSE, !.fresh = TRUE]
               /\ End(d)
      <3>1. c.status = row.status /\ Heir(c, row)
        BY <1>13, <2>2 DEF VerifyPeaks, PromiseInv, DeliveriesAgree, CopyAgrees, InSync, c
      <3>2. SameClaim
        BY <1>0, <1>s, <2>2, <3>1, SameClaimFields DEF c
      <3> QED BY <1>r, <2>1, <2>2, <3>2
    <2>3. CASE UNCHANGED row /\ End(d)
      BY <1>r, <1>y, <2>1, <2>3
    <2>4. CASE UNCHANGED row /\ Remember(d, row) /\ Goto(d, "failed")
      <3>1. pc'[d] = "failed" /\ mem'[d].copy = row
        BY <1>0, <2>4, Hands
      <3> QED BY <1>r, <1>s, <1>y, <2>1, <2>4, <3>1
    <2> QED BY <1>13, <2>2, <2>3, <2>4 DEF VerifyPeaks
  <1>14. CASE Failed(d)
    <2>1. UNCHANGED landed /\ obj'.clean = obj.clean /\ current' \subseteq current /\ Again(d)
      BY <1>14, <1>t DEF Failed, MarkAudioProcessed, Release
    <2>2. SameClaim
      <3>1. CASE row' = [row EXCEPT !.status = "failed", !.fresh = TRUE]
        <4>1. Heir(row, row)
          BY DEF Heir
        <4> QED BY <1>0, <1>s, <3>1, <4>1, SameClaimFields
      <3> QED BY <1>14, <1>y, <3>1 DEF Failed
    <2> QED BY <1>r, <2>1, <2>2
  <1>15. CASE Fault(d)
    <2>1. UNCHANGED <<row, current, landed, obj>>
      BY <1>15 DEF Fault
    <2>2. CASE pc[d] = "land" /\ Goto(d, "unclaim") /\ UNCHANGED mem
      <3>1. pc'[d] = "unclaim" /\ mem'[d].copy = c /\ mem'[d].text = mem[d].text
        BY <1>0, <2>2, Hands DEF c
      <3>2. Ready(d)'
        BY <1>s, <3>1 DEF Ready
      <3>3. MayLandAgain => Late(d)'
        BY <1>s, <2>1, <2>2, <3>1 DEF Late, Stages, c
      <3>4. AtNote(d) /\ pc[d] \in Past
        BY <2>2 DEF AtNote, Past
      <3> QED BY <1>o, <1>y, <2>1, <3>1, <3>2, <3>3, <3>4, SettleOn
    <2>3. CASE Leave(d, mem[d].copy, "failed")
      <3>1. pc'[d] = "failed" /\ mem'[d].copy = c
        BY <1>0, <2>3, Hands DEF c
      <3> QED BY <1>r, <1>s, <1>y, <2>1, <3>1
    <2> QED BY <1>15, <2>2, <2>3 DEF Fault
  <1>16. CASE Crash(d)
    BY <1>16, <1>r, <1>y DEF Crash, Release
  <1> QED
    BY <1>1, <1>2, <1>3, <1>4, <1>5, <1>6, <1>7, <1>8, <1>9, <1>10, <1>11, <1>12, <1>13,
       <1>14, <1>15, <1>16 DEF Run

\* A step that is no invocation's: at most it queues one.
LEMMA SettleOutside ==
    ASSUME SettleInv, SameClaim, UNCHANGED landed, obj'.clean = obj.clean,
           \A x \in Deliveries : \/ pc'[x] = pc[x] /\ mem'[x] = mem[x]
                                 \/ /\ pc'[x] = "queued" /\ mem'[x].copy = NoRow
                                    /\ mem'[x].text = NoWords,
           \A q \in Requests : prior'[q] \in {prior[q], row, NoRow},
           \A x \in Deliveries : x \in current' => x \in current
    PROVE  SettleInv' /\ Settled
  <1>0. Ordered(NoRow)
    BY DEF NoRow, Ordered
  <1>1. \A x \in Deliveries :
            /\ AtNote(x)' => AtNote(x)
            /\ pc'[x] \in Past => pc[x] \in Past
            /\ pc'[x] = "land" => pc[x] = "land" /\ mem'[x] = mem[x]
    BY DEF AtNote, Past
  <1>2. ClaimStands'
    BY <1>1 DEF SettleInv, ClaimStands, SameClaim
  <1>3. CleanFirst'
    BY <1>0, <1>1 DEF SettleInv, CleanFirst, SameClaim, HasLanded
  <1>4. MayLandAgain' => MayLandAgain
    BY <1>1 DEF MayLandAgain, HasLanded, SameClaim
  <1>5. ASSUME NEW x \in Deliveries
        PROVE  Ready(x)' /\ (MayLandAgain => Late(x)')
    <2>1. CASE pc'[x] = pc[x] /\ mem'[x] = mem[x]
      BY <2>1 DEF SettleInv, AllLate, Ready, Late, IsTerminal
    <2>2. CASE pc'[x] = "queued" /\ mem'[x].copy = NoRow /\ mem'[x].text = NoWords
      BY <1>0, <2>2 DEF Ready, Late, Stages
    <2> QED BY <2>1, <2>2
  <1>6. AllLate'
    BY <1>4, <1>5 DEF AllLate
  <1>7. SameWords'
    BY <1>1 DEF SettleInv, SameWords, SameClaim
  <1> QED BY <1>2, <1>3, <1>5, <1>6, <1>7 DEF SettleInv, SameClaim, Settled

\* What queueing an invocation does to what each has in hand.
LEMMA QueuedHands ==
    ASSUME DeliveryTypes, NEW d \in Deliveries, NEW by, Queue(d, by)
    PROVE  \A x \in Deliveries : \/ pc'[x] = pc[x] /\ mem'[x] = mem[x]
                                 \/ /\ pc'[x] = "queued" /\ mem'[x].copy = NoRow
                                    /\ mem'[x].text = NoWords
  BY Moves, EmptyValues, Hands DEF Only

\* What a step of a request keeps, where a recording is neither transcribed
\* again nor deleted.
LEMMA SettleRequest ==
    ASSUME TypeOK, PromiseInv, InSync, SettleInv, NobodyDeletes, NoText,
           ~MayBeDeleted, "text" \notin Arrives, MaxAgain = 0, NEW r \in Requests,
           Handle(r) \/ Operation(r) \/ InvokeFails(r) \/ RequestDies(r)
    PROVE  SettleInv' /\ Settled
  <1>0. /\ prior \in [Requests -> Row] /\ row \in Row /\ DeliveryTypes
        /\ row.asked = 0 /\ prior[r].asked = 0
    <2>1. prior \in [Requests -> Row] /\ row \in Row /\ DeliveryTypes
      BY DEF TypeOK, RequestTypes, RowTypes
    <2>2. row.asked \in 0 .. MaxAgain /\ prior[r].asked \in 0 .. MaxAgain
      <3>1. prior[r] \in Row
        BY <2>1
      <3> QED BY <2>1, <3>1, RowFields
    <2>3. \A k \in 0 .. MaxAgain : k = 0
      OBVIOUS
    <2> QED BY <2>1, <2>2, <2>3
  <1>1. /\ Ordered(row) /\ Ordered(prior[r]) /\ row.status # "deleted"
        /\ rpc[r] \notin {"cut", "unlink", "drop", "putText", "discard"}
    BY DEF SettleInv, CleanFirst, NobodyDeletes, NoText
  <1>2. \A q \in Requests : prior'[q] \in {prior[q], row, NoRow}
    BY <1>0, <1>1
       DEF Handle, Operation, InvokeFails, RequestDies, PutText, DiscardEmptyRow, Invoke,
           Rollback, CutParagraph, Unlink, DeleteRow, IngestText, RetryCapture,
           SetCaptureTarget, RetranscribeCapture, DeleteCapture, Reset, Answered, EnvUnchanged
  <1>k. ASSUME SameClaim, UNCHANGED <<landed, obj, pc, mem>>,
               \A x \in Deliveries : x \in current' => x \in current
        PROVE  SettleInv' /\ Settled
    BY <1>2, <1>k, SettleOutside
  <1>y. UNCHANGED row => SameClaim
    BY <1>1 DEF SameClaim
  <1>3. CASE Invoke(r)
    <2>1. UNCHANGED <<row, landed, obj>> /\ current' \subseteq current
          /\ \E d \in Deliveries : Queue(d, "api")
      BY <1>3 DEF Invoke
    <2> QED BY <1>0, <1>2, <1>y, <2>1, QueuedHands, SettleOutside
  <1>4. CASE InvokeFails(r) \/ RequestDies(r)
    BY <1>4, <1>k, <1>y DEF InvokeFails, RequestDies, RowUnchanged
  <1>5. CASE Rollback(r)
    <2>1. CASE r \in current /\ row' = prior[r] /\ current' = {}
      <3>1. Heir(prior[r], row) /\ prior[r].status # "deleted"
        BY <1>0, <2>1 DEF InSync, PromiseInv, RequestsStand, ResetStands, Gone
      <3>2. SameClaim
        BY <1>1, <2>1, <3>1 DEF SameClaim, Heir
      <3> QED BY <1>5, <1>k, <2>1, <3>2 DEF Rollback, EnvUnchanged
    <2>2. CASE RowUnchanged
      BY <1>5, <1>k, <1>y, <2>2 DEF Rollback, EnvUnchanged, RowUnchanged
    <2> QED BY <1>5, <2>1, <2>2 DEF Rollback
  <1>6. ASSUME NEW new \in Row, Reset(r, new), new.held = row.held, new.leased = row.leased,
               new.done = row.done, new.clean = row.clean, Ordered(new), new.status # "deleted"
        PROVE  SettleInv' /\ Settled
    <2>1. /\ row' = [new EXCEPT !.fresh = TRUE] /\ current' = {r}
          /\ UNCHANGED <<landed, obj, pc, mem>>
      BY <1>6 DEF Reset
    <2>2. SameClaim
      BY <1>6, <2>1 DEF SameClaim, Row, Ordered
    <2> QED BY <1>k, <2>1, <2>2, ActorsAssumption
  <1>7. CASE RetryCapture(r)
    <2> DEFINE s == IF row.status = "failed" THEN ResumeStatusFor(row) ELSE row.status
               new == [row EXCEPT !.status = s]
    <2>1. Reset(r, new)
      BY <1>0, <1>7 DEF RetryCapture, Row
    <2>2. s \in Statuses /\ s # "deleted"
      BY <1>0, <1>1, RowFields DEF ResumeStatusFor, Statuses, Pending
    <2>3. /\ new \in Row /\ new.held = row.held /\ new.leased = row.leased
          /\ new.done = row.done /\ new.clean = row.clean /\ Ordered(new) /\ new.status # "deleted"
      <3>1. Ordered(new) /\ new \in Row
        BY <1>0, <1>1, <2>2, RowFields, OrderedFields
      <3> QED BY <1>0, <2>2, <3>1 DEF Row
    <2> HIDE DEF new
    <2> QED BY <1>6, <2>1, <2>3
  <1>8. CASE SetCaptureTarget(r)
    <2>1. PICK n \in Notes : Reset(r, [row EXCEPT !.note = n, !.status = ResumeStatusFor(row)])
      BY <1>8 DEF SetCaptureTarget
    <2> DEFINE new == [row EXCEPT !.note = n, !.status = ResumeStatusFor(row)]
    <2>2. row.note = None
      BY <1>8 DEF SetCaptureTarget
    <2>3. ResumeStatusFor(row) \in Pending
      BY DEF ResumeStatusFor, Pending
    <2>4. /\ new \in Row /\ new.held = row.held /\ new.leased = row.leased
          /\ new.done = row.done /\ new.clean = row.clean /\ Ordered(new) /\ new.status # "deleted"
      <3>1. new \in Row
        BY <1>0, <2>3, RowChanges DEF Statuses
      <3>2. /\ new.held = row.held /\ new.leased = row.leased
            /\ new.done = row.done /\ new.clean = row.clean /\ new.status \in Pending
        BY <1>0, <2>3 DEF Row
      <3>3. ~row.clean
        BY <1>1, <2>2 DEF Ordered
      <3> QED BY <3>1, <3>2, <3>3 DEF Ordered, Pending
    <2>5. Reset(r, new)
      BY <2>1
    <2> HIDE DEF new
    <2> QED BY <1>6, <2>4, <2>5
  <1>9. ~RetranscribeCapture(r)
    BY <1>0 DEF RetranscribeCapture
  <1> QED
    BY <1>1, <1>3, <1>4, <1>5, <1>7, <1>8, <1>9
       DEF Handle, Operation, PutText, DiscardEmptyRow, CutParagraph, Unlink, DeleteRow,
           IngestText, DeleteCapture

\* And of everything else, where no note is purged.
LEMMA SettleEnvironment ==
    ASSUME TypeOK, PromiseInv, SettleInv, NotesKept, BeginCapture \/ Environment \/ UNCHANGED vars
    PROVE  SettleInv' /\ Settled
  <1>0. DeliveryTypes /\ row \in Row /\ obj \in Objects
    BY DEF TypeOK, RowTypes
  <1>p. UNCHANGED prior
    BY DEF Environment, Clock, BeginCapture, UploadLands, PeaksLand, Redeliver, Reap, Age,
           LeaseEnds, LinkEnds, AudioExpires, ArchiveNote, RestoreNote, PurgeNote, vars
  <1>1. Ordered(row) /\ row.status # "deleted"
    BY DEF SettleInv, CleanFirst
  <1>y. UNCHANGED row => SameClaim
    BY <1>1 DEF SameClaim
  <1>k. ASSUME SameClaim, UNCHANGED <<landed, pc, mem>>, obj'.clean = obj.clean,
               current' \subseteq current
        PROVE  SettleInv' /\ Settled
    BY <1>k, <1>p, SettleOutside
  <1>q. ASSUME NEW d \in Deliveries, NEW by, Queue(d, by), UNCHANGED <<row, current, landed>>,
               obj'.clean = obj.clean
        PROVE  SettleInv' /\ Settled
    BY <1>0, <1>p, <1>q, <1>y, QueuedHands, SettleOutside
  <1>2. CASE UploadLands
    <2>1. obj'.clean = obj.clean
      BY <1>0, <1>2 DEF UploadLands, Objects
    <2> QED BY <1>2, <1>q, <2>1 DEF UploadLands, RowUnchanged
  <1>3. CASE Redeliver
    BY <1>3, <1>q DEF Redeliver, RowUnchanged
  <1>4. CASE Reap
    <2>1. CASE row' = [row EXCEPT !.status = "failed", !.fresh = TRUE] /\ current' = {}
               /\ UNCHANGED <<pc, mem>>
      <3>1. Heir(row, row)
        BY DEF Heir
      <3>2. SameClaim
        BY <1>0, <1>1, <2>1, <3>1, SameClaimFields
      <3> QED BY <1>4, <1>k, <2>1, <3>2 DEF Reap
    <2> QED BY <1>4, <1>q, <2>1 DEF Reap, RowUnchanged
  <1>5. CASE Age
    <2>1. Heir(row, row) /\ row' = [row EXCEPT !.fresh = FALSE]
      BY <1>5 DEF Age, Heir
    <2>2. SameClaim
      BY <1>0, <1>1, <2>1, SameClaimFields
    <2> QED BY <1>5, <1>k, <2>2 DEF Age, EnvUnchanged
  <1>6. CASE LeaseEnds
    <2>1. /\ UNCHANGED <<landed, pc, mem, obj, prior, current>>
          /\ row' = [row EXCEPT !.leased = FALSE]
          /\ \A x \in Deliveries : pc[x] \notin Running
      BY <1>6 DEF LeaseEnds, EnvUnchanged, Quiet
    <2>2. /\ row'.held = row.held /\ row'.done = row.done /\ row'.clean = row.clean
          /\ row'.raw = row.raw /\ row'.note = row.note /\ row'.status = row.status
      BY <1>0, <2>1 DEF Row
    <2>3. \A x \in Deliveries : ~AtNote(x)' /\ pc'[x] # "land" /\ Late(x)'
      BY <2>1 DEF AtNote, Late, Running, Stages
    <2>4. ClaimStands' /\ AllLate' /\ SameWords'
      BY <2>2, <2>3 DEF SettleInv, ClaimStands, AllLate, SameWords
    <2>5. CleanFirst'
      BY <2>1, <2>2 DEF SettleInv, CleanFirst, Ordered, HasLanded
    <2>6. \A x \in Deliveries : Ready(x)'
      BY <2>1 DEF SettleInv, Ready, IsTerminal
    <2> QED BY <2>1, <2>2, <2>4, <2>5, <2>6 DEF SettleInv, Settled
  <1>7. CASE BeginCapture
    <2>1. /\ UNCHANGED <<landed, pc, mem, obj, prior, current>> /\ row.note = None /\ ~row.held
      BY <1>7 DEF BeginCapture, EnvUnchanged, PromiseInv, GoneIsBare, Exists, Gone
    <2>2. ~row.clean /\ ~row.done
      BY <1>1, <2>1 DEF Ordered, SettleInv, ClaimStands
    <2>3. ~HasLanded /\ \A x \in Deliveries : pc[x] \notin Past
      BY <2>2 DEF SettleInv, CleanFirst
    <2>4. row'.clean = FALSE /\ row'.done = FALSE /\ row'.status = "uploaded"
      BY <1>7 DEF BeginCapture, NewRow, NoRow
    <2>5. \A x \in Deliveries : ~AtNote(x)'
      BY <2>1, <2>3 DEF AtNote, Past
    <2>6. ~HasLanded'
      BY <2>1, <2>3 DEF HasLanded
    <2>7. ClaimStands' /\ AllLate' /\ SameWords'
      BY <2>4, <2>5, <2>6 DEF ClaimStands, AllLate, MayLandAgain, SameWords
    <2>8. CleanFirst'
      BY <2>1, <2>3, <2>4, <2>6 DEF SettleInv, CleanFirst, Ordered
    <2>9. \A x \in Deliveries : Ready(x)'
      BY <2>1 DEF SettleInv, Ready, IsTerminal
    <2> QED BY <2>2, <2>4, <2>7, <2>8, <2>9 DEF SettleInv, Settled
  <1>8. CASE PeaksLand \/ AudioExpires
    <2>1. obj'.clean = obj.clean
      BY <1>0, <1>8 DEF PeaksLand, AudioExpires, Objects
    <2> QED BY <1>8, <1>k, <1>y, <2>1 DEF PeaksLand, AudioExpires, RowUnchanged, EnvUnchanged
  <1>9. ASSUME NEW n \in Notes, PurgeNote(n)
        PROVE  FALSE
    <2>1. note[n] = "archived" /\ note'[n] = "absent"
      BY <1>9 DEF PurgeNote, TypeOK, NoteTypes
    <2> QED BY <2>1 DEF NotesKept
  <1>10. CASE UNCHANGED <<row, current, pc, mem, landed, obj>>
    BY <1>10, <1>k, <1>y
  <1> QED
    BY <1>2, <1>3, <1>4, <1>5, <1>6, <1>7, <1>8, <1>9, <1>10
       DEF Environment, Clock, LinkEnds, ArchiveNote, RestoreNote, RowUnchanged, EnvUnchanged, vars

\* Every step that purges no note keeps the invariant, and writes no settled
\* paragraph again.
LEMMA SettleNext ==
    ASSUME ~MayBeDeleted, "text" \notin Arrives, MaxAgain = 0, TypeOK, PromiseInv, HeldInv,
           OneInv, InSync, AllNamed, NoText, SettleInv, NotesKept, [Next]_vars
    PROVE  SettleInv' /\ Settled
  <1>1. CASE \E d \in Deliveries : Run(d) \/ Fault(d) \/ Crash(d)
    BY <1>1, SettleRun
  <1>2. CASE \E r \in Requests : Handle(r) \/ Operation(r) \/ InvokeFails(r) \/ RequestDies(r)
    BY <1>2, SettleRequest DEF HeldInv
  <1>3. CASE BeginCapture \/ Environment \/ UNCHANGED vars
    BY <1>3, SettleEnvironment
  <1> QED BY <1>1, <1>2, <1>3 DEF Next

\* At first nothing has landed and nobody is on the way.
LEMMA SettleInit == Init => SettleInv
  <1> SUFFICES ASSUME Init PROVE SettleInv
    OBVIOUS
  <1>1. /\ row = NoRow /\ \A n \in Notes : landed[n] = NoWords
        /\ \A d \in Deliveries : /\ pc[d] = "idle" /\ mem[d].copy = NoRow
                                 /\ mem[d].text = NoWords
        /\ \A r \in Requests : prior[r] = NoRow
    BY DEF Init, NoMemory
  <1>2. /\ Ordered(NoRow) /\ NoRow.status = "unborn" /\ NoRow.done = FALSE
    BY DEF NoRow, Ordered
  <1>3. ~HasLanded /\ \A d \in Deliveries : ~AtNote(d) /\ pc[d] \notin Past
    BY <1>1 DEF HasLanded, AtNote, Past
  <1>4. ClaimStands /\ CleanFirst /\ AllLate /\ SameWords
    BY <1>1, <1>2, <1>3 DEF ClaimStands, CleanFirst, AllLate, MayLandAgain, SameWords
  <1>5. \A d \in Deliveries : Ready(d)
    BY <1>1, <1>2 DEF Ready
  <1> QED BY <1>1, <1>2, <1>4, <1>5 DEF SettleInv

\* What a recording has achieved is there, and stays: its keys name objects,
\* its progress is not undone, and no attempt puts other words in its settled
\* paragraph, for any number of invocations at once and of notes, any deaths, retries and
\* destinations chosen, provided that nobody deletes the recording or asks for
\* it to be transcribed again, and no note is purged.  (A purge cuts what has
\* landed and may take the capture with it; an invocation left over from
\* before a transcription asked for again may land late.)
THEOREM WhatIsDoneStaysAlways ==
    ASSUME ~MayBeDeleted, "text" \notin Arrives, MaxAgain = 0
    PROVE  Spec /\ [][NotesKept]_note => WhatIsDoneStays
  <1> DEFINE Inv == /\ TypeOK /\ PromiseInv /\ HeldInv /\ OneInv /\ InSync /\ AllNamed
                    /\ NoText /\ SettleInv
  <1>1. UNCHANGED note => NotesKept
    BY DEF NotesKept
  <1>2. Inv /\ [Next]_vars /\ [NotesKept]_note => Inv' /\ [Advance]_vars /\ [Settled]_vars
    BY <1>1, TypeNext, PromiseNext, HeldNext, OneNext, SyncNext, NamedNext, SettleNext
  <1>3. Init => Inv
    BY TypeInit, PromiseInit, HeldInit, OneInit, SyncInit, NamedInit, SettleInit
  <1>4. Inv => KeysNameObjects
    BY DEF AllNamed, Named, KeysNameObjects, Exists, Gone
  <1> HIDE DEF Inv
  <1>5. Spec /\ [][NotesKept]_note => []KeysNameObjects /\ [][Advance]_vars /\ [][Settled]_vars
    BY <1>2, <1>3, <1>4, PTL DEF Spec
  <1> QED BY <1>5 DEF WhatIsDoneStays, ProgressIsKept, SettledStays, Advance, Settled

=============================================================================
