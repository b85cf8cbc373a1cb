--------------------------- MODULE NoteAppend_proofs ---------------------------
(***************************************************************************)
(* What NoteAppend promises for every number of recordings, deliveries and *)
(* editors, checked by TLAPS.                                              *)
(***************************************************************************)
EXTENDS NoteAppend, TLAPS

-----------------------------------------------------------------------------
(* The values the actions build have their types.                          *)

\* The empty values a delivery or an editor starts and ends with.
LEMMA EmptyValues ==
    /\ EmptyBody \in Body /\ NoText \in Text /\ NoCopy \in NoteCopy
    /\ NoMemory \in Memory /\ NotEditing \in Editing
  <1>1. EmptyBody \in Body /\ NoText \in Text /\ NoCopy \in NoteCopy
    BY DEF EmptyBody, Body, NoText, Text, StripCaptureMarkers, NoCopy, NoteCopy
  <1>2. NoMemory \in Memory
    BY <1>1 DEF NoMemory, Memory
  <1>3. NotEditing \in Editing
    BY <1>1, BoundsAssumption DEF NotEditing, Editing
  <1> QED BY <1>1, <1>2, <1>3

\* What a client is shown of a body, and the body an append leaves.
LEMMA BodyOperators ==
    ASSUME NEW b \in Body
    PROVE  /\ StripCaptureMarkers(b) \in Text
           /\ Words(b) \in SUBSET Captures
           /\ \A c \in Captures : WithParagraph(b, c) \in Body
           /\ \A t \in Text : CarryCaptureMarkers(b, t) \in Body
  BY DEF Body, Text, StripCaptureMarkers, Words, WithParagraph, CarryCaptureMarkers

\* What a person may make of a text.
LEMMA EditedIsText ==
    ASSUME NEW t \in Text, NEW u \in Edited(t)
    PROVE  u \in Text /\ TextWords(u) \in SUBSET Captures
  <1>1. t.verb \in SUBSET Captures /\ t.typed \in SUBSET Captures
                                   /\ t.edits \in SUBSET EditIds
    BY DEF Text
  <1>2. u \in Text
    <2>1. CASE u = t
      BY <2>1
    <2>2. ASSUME NEW c \in t.verb,
                 u = [t EXCEPT !.verb = @ \ {c}, !.typed = @ \cup {c}]
          PROVE  u \in Text
      BY <1>1, <2>2 DEF Text
    <2>3. ASSUME NEW c \in TextWords(t),
                 u = [t EXCEPT !.verb = @ \ {c}, !.typed = @ \ {c}]
          PROVE  u \in Text
      BY <1>1, <2>3 DEF Text
    <2> QED BY <2>1, <2>2, <2>3 DEF Edited
  <1> QED BY <1>2 DEF Text, TextWords

\* A record stays of its type when one field is given a value of that field's
\* type: what the actions do to a copy of the row, to a delivery's memory and to
\* an editor's.
LEMMA NoteCopyFields ==
    ASSUME NEW n \in NoteCopy
    PROVE  /\ \A S \in SUBSET Captures : [n EXCEPT !.indexed = S] \in NoteCopy
           /\ \A t \in Nat : [n EXCEPT !.tap = t] \in NoteCopy
           /\ \A c \in Captures \cup {None} : [n EXCEPT !.stamp = c] \in NoteCopy
           /\ n.ver \in Nat /\ n.stamp \in Captures \cup {None} /\ n.tap \in Nat
           /\ n.indexed \in SUBSET Captures /\ n.active \in BOOLEAN
  BY DEF NoteCopy

\* The same of what a delivery remembers.
LEMMA MemoryFields ==
    ASSUME NEW m \in Memory
    PROVE  /\ \A n \in Nat : [m EXCEPT !.rowVer = n] \in Memory
           /\ \A n \in NoteCopy : [m EXCEPT !.copy = n] \in Memory
           /\ \A b \in Body : [m EXCEPT !.read = b] \in Memory
           /\ [m EXCEPT !.again = TRUE] \in Memory
           /\ [m EXCEPT !.archived = TRUE] \in Memory
           /\ \A x \in BOOLEAN : [m EXCEPT !.waited = x] \in Memory
           /\ m.rowVer \in Nat /\ m.copy \in NoteCopy /\ m.read \in Body
           /\ m.again \in BOOLEAN /\ m.archived \in BOOLEAN /\ m.waited \in BOOLEAN
  BY DEF Memory

\* The same of what an editor and its save keep.
LEMMA EditingFields ==
    ASSUME NEW m \in Editing
    PROVE  /\ \A n \in Nat : [m EXCEPT !.ver = n] \in Editing
           /\ \A k \in {"body", "meta"} : [m EXCEPT !.saving = k] \in Editing
           /\ \A t \in Text : [m EXCEPT !.text = t] \in Editing
           /\ \A t \in Text : [m EXCEPT !.draft = t] \in Editing
           /\ \A b \in Body : [m EXCEPT !.stored = b] \in Editing
           /\ \A n \in NoteCopy : [m EXCEPT !.row = n] \in Editing
           /\ \A i \in 0 .. MaxSaves : [m EXCEPT !.saves = i] \in Editing
           /\ m.saving \in {"body", "meta"} /\ m.ver \in Nat /\ m.text \in Text
           /\ m.draft \in Text /\ m.stored \in Body /\ m.row \in NoteCopy
           /\ m.saves \in 0 .. MaxSaves
  BY DEF Editing

\* One read of the note row is a copy of it.
LEMMA NoteRowIsCopy == NoteTypes => NoteRow \in NoteCopy
  BY DEF NoteTypes, NoteRow, NoteCopy

-----------------------------------------------------------------------------
(* Type correctness: each part of TypeOK, through the operators the actions *)
(* share and then action by action.                                         *)

\* The program starts well typed.
LEMMA TypeInit == Init => TypeOK
  BY EmptyValues, BoundsAssumption, NoneAssumption
     DEF Init, TypeOK, CaptureTypes, NoteTypes, DeliveryTypes, EditorTypes,
         DeliveryPC, EditorPC, InFlight

\* A part none of whose variables moves keeps its types.
LEMMA Unmoved ==
    /\ CaptureTypes /\ UNCHANGED captureVars => CaptureTypes'
    /\ NoteTypes /\ UNCHANGED noteVars => NoteTypes'
    /\ DeliveryTypes /\ UNCHANGED deliveryVars => DeliveryTypes'
    /\ EditorTypes /\ UNCHANGED editorVars /\ UNCHANGED history => EditorTypes'
  BY DEF CaptureTypes, NoteTypes, DeliveryTypes, EditorTypes, captureVars, noteVars,
         deliveryVars, editorVars, history

\* An invocation that ends leaves no ill-typed memory.
LEMMA EndTypes ==
    ASSUME DeliveryTypes, NEW d \in Deliveries, End(d)
    PROVE  DeliveryTypes'
  BY EmptyValues DEF DeliveryTypes, End, Goto, DeliveryPC

\* A whole-row write of a copy leaves a row.
LEMMA PutNoteTypes ==
    ASSUME NoteTypes, NEW n \in NoteCopy, PutNote(n)
    PROVE  NoteTypes'
  BY NoteCopyFields DEF NoteTypes, PutNote

\* An editor whose save was refused starts from nothing.
LEMMA ReloadTypes ==
    ASSUME EditorTypes, UNCHANGED history, NEW e \in Editors, Reload(e)
    PROVE  EditorTypes'
  BY EmptyValues, EditingFields DEF EditorTypes, Reload, EGoto, EditorPC, history

\* An editor whose save was answered holds its draft at the new version.
LEMMA AcknowledgeTypes ==
    ASSUME EditorTypes, version \in Nat, NEW e \in Editors, Acknowledge(e)
    PROVE  EditorTypes'
  <1>1. ed[e].draft \in Text /\ ed[e].saves \in 0 .. MaxSaves
    BY EditingFields DEF EditorTypes
  <1>2. acked' \in SUBSET EditIds
    BY <1>1 DEF EditorTypes, Acknowledge, Text
  <1>3. [NotEditing EXCEPT !.ver = version + 1, !.text = ed[e].draft,
                           !.saves = ed[e].saves] \in Editing
    <2>1. version + 1 \in Nat
      OBVIOUS
    <2>2. [NotEditing EXCEPT !.ver = version + 1] \in Editing
      BY <2>1, EmptyValues, EditingFields
    <2> QED BY <1>1, <2>2, EditingFields
  <1>4. ed' \in [Editors -> Editing]
    BY <1>3 DEF EditorTypes, Acknowledge
  <1> QED BY <1>2, <1>4 DEF EditorTypes, Acknowledge, EGoto, EditorPC

\* A refused claim sends the delivery on with well-typed memory, or ends it.
LEMMA ClaimRefusedTypes ==
    ASSUME DeliveryTypes, NEW d \in Deliveries, pc[d] \notin {"idle", "done"}, ClaimRefused(d)
    PROVE  DeliveryTypes'
  <1>1. [mem[d] EXCEPT !.again = TRUE] \in Memory
    BY MemoryFields DEF DeliveryTypes
  <1>2. CASE End(d)
    BY <1>2, EndTypes
  <1>3. CASE (Goto(d, "clear") \/ Goto(d, "check")) /\ Recall
    BY <1>3 DEF DeliveryTypes, Goto, Recall, DeliveryPC
  <1>4. CASE /\ Goto(d, "claimRead") /\ UNCHANGED <<cap, resumed>>
             /\ mem' = [mem EXCEPT ![d].again = TRUE]
    BY <1>1, <1>4 DEF DeliveryTypes, Goto, DeliveryPC
  <1> QED BY <1>2, <1>3, <1>4 DEF ClaimRefused

\* Every step keeps the types.
LEMMA TypeNext == TypeOK /\ [Next]_vars => TypeOK'
  <1> SUFFICES ASSUME TypeOK, [Next]_vars PROVE TypeOK'
    OBVIOUS
  <1> USE EmptyValues, BoundsAssumption, NoneAssumption DEF TypeOK
  <1>1. ASSUME NEW d \in Deliveries, NEW c \in Captures, StartDelivery(d, c) PROVE TypeOK'
    <2>1. DeliveryTypes'
      BY <1>1, MemoryFields
         DEF CaptureTypes, DeliveryTypes, StartDelivery, Goto, DeliveryPC, Holding,
             Stamped, Finishing
    <2> QED BY <1>1, <2>1, Unmoved DEF StartDelivery
  <1>2. ASSUME NEW d \in Deliveries, SetStatus(d) PROVE TypeOK'
    <2>1. CaptureTypes'
      BY <1>2, MemoryFields
         DEF CaptureTypes, DeliveryTypes, captureVars, SetStatus, PutCapture
    <2>2. DeliveryTypes'
      BY <1>2, EndTypes
         DEF DeliveryTypes, SetStatus, Goto, DeliveryPC, Holding, Stamped, Finishing,
             Recall
    <2> QED BY <1>2, <2>1, <2>2, Unmoved DEF SetStatus
  <1>3. ASSUME NEW d \in Deliveries, ClaimRead(d) PROVE TypeOK'
    <2>1. DeliveryTypes'
      <3>1. [mem[d] EXCEPT !.rowVer = cver[cap[d]]] \in Memory
        BY <1>3, MemoryFields DEF CaptureTypes, DeliveryTypes, ClaimRead
      <3>2. CASE ClaimRefused(d)
        BY <1>3, <3>2, ClaimRefusedTypes DEF ClaimRead
      <3>3. CASE ~ClaimRefused(d)
        BY <1>3, <3>1, <3>3
           DEF DeliveryTypes, ClaimRead, Goto, DeliveryPC, Holding
      <3> QED BY <3>2, <3>3
    <2> QED BY <1>3, <2>1, Unmoved DEF ClaimRead
  <1>4. ASSUME NEW d \in Deliveries, ClaimPut(d) PROVE TypeOK'
    <2>1. CaptureTypes'
      BY <1>4 DEF CaptureTypes, DeliveryTypes, captureVars, ClaimPut, PutCapture
    <2>2. DeliveryTypes'
      <3>1. [mem[d] EXCEPT !.rowVer = @ + 1] \in Memory
        <4>1. mem[d] \in Memory /\ mem[d].rowVer \in Nat
          BY MemoryFields DEF DeliveryTypes
        <4>2. mem[d].rowVer + 1 \in Nat
          BY <4>1
        <4> QED BY <4>1, <4>2, MemoryFields
      <3>2. CASE ClaimRefused(d)
        BY <1>4, <3>2, ClaimRefusedTypes DEF ClaimPut
      <3>3. CASE ~ClaimRefused(d)
        BY <1>4, <3>1, <3>3
           DEF DeliveryTypes, ClaimPut, Goto, DeliveryPC, Holding
      <3> QED BY <3>2, <3>3
    <2> QED BY <1>4, <2>1, <2>2, Unmoved DEF ClaimPut
  <1>5. ASSUME NEW d \in Deliveries, CheckNote(d) PROVE TypeOK'
    <2>1. DeliveryTypes'
      BY <1>5, EndTypes
         DEF DeliveryTypes, CheckNote, Goto, DeliveryPC, Holding, Stamped, Finishing
    <2> QED BY <1>5, <2>1, Unmoved DEF CheckNote
  <1>6. ASSUME NEW d \in Deliveries, StampRead(d) PROVE TypeOK'
    <2>1. DeliveryTypes'
      <3>1. mem[d] \in Memory
        BY DEF DeliveryTypes
      <3>2. /\ [mem[d] EXCEPT !.copy = NoteRow] \in Memory
            /\ [mem[d] EXCEPT !.archived = TRUE] \in Memory
        BY <3>1, MemoryFields, NoteRowIsCopy
      <3>3. mem' \in [Deliveries -> Memory]
        BY <1>6, <3>2 DEF DeliveryTypes, StampRead
      <3> QED BY <1>6, <3>3 DEF DeliveryTypes, StampRead, Goto, DeliveryPC, Holding
    <2> QED BY <1>6, <2>1, Unmoved DEF StampRead
  <1>7. ASSUME NEW d \in Deliveries, StampPut(d) PROVE TypeOK'
    <2>1. NoteTypes'
      BY <1>7 DEF DeliveryTypes, NoteTypes, noteVars, StampPut
    <2>2. DeliveryTypes'
      BY <1>7, MemoryFields
         DEF DeliveryTypes, StampPut, Goto, DeliveryPC, Holding, Stamped, Finishing
    <2> QED BY <1>7, <2>1, <2>2, Unmoved DEF StampPut
  <1>8. ASSUME NEW d \in Deliveries, BodyRead(d) PROVE TypeOK'
    <2>1. DeliveryTypes'
      BY <1>8, MemoryFields
         DEF DeliveryTypes, BodyRead, Goto, DeliveryPC, Holding, Stamped, Finishing
    <2> QED BY <1>8, <2>1, Unmoved DEF BodyRead
  <1>9. ASSUME NEW d \in Deliveries, AppendToNote(d) PROVE TypeOK'
    <2>1. body' \in Body
      BY <1>9, BodyOperators DEF DeliveryTypes, AppendToNote
    <2>2. DeliveryTypes'
      BY <1>9, MemoryFields
         DEF DeliveryTypes, AppendToNote, Goto, DeliveryPC, Holding, Stamped, Finishing
    <2> QED BY <1>9, <2>1, <2>2, Unmoved DEF AppendToNote
  <1>10. ASSUME NEW d \in Deliveries, RefreshReadRow(d) PROVE TypeOK'
    <2>1. DeliveryTypes'
      BY <1>10, MemoryFields, NoteRowIsCopy
         DEF DeliveryTypes, RefreshReadRow, Goto, DeliveryPC, Holding, Stamped,
             Finishing
    <2> QED BY <1>10, <2>1, Unmoved DEF RefreshReadRow
  <1>11. ASSUME NEW d \in Deliveries, RefreshReadBody(d) PROVE TypeOK'
    <2>1. DeliveryTypes'
      BY <1>11, MemoryFields, NoteCopyFields, BodyOperators
         DEF DeliveryTypes, RefreshReadBody, Goto, DeliveryPC, Holding, Stamped,
             Finishing
    <2> QED BY <1>11, <2>1, Unmoved DEF RefreshReadBody
  <1>12. ASSUME NEW d \in Deliveries, RefreshPut(d) PROVE TypeOK'
    <2>1. NoteTypes'
      <3>1. mem[d].copy \in NoteCopy
        BY MemoryFields DEF DeliveryTypes
      <3> QED BY <1>12, <3>1, PutNoteTypes, Unmoved DEF RefreshPut
    <2>2. DeliveryTypes'
      BY <1>12, MemoryFields
         DEF DeliveryTypes, RefreshPut, Goto, DeliveryPC, Holding, Stamped, Finishing
    <2> QED BY <1>12, <2>1, <2>2, Unmoved DEF RefreshPut
  <1>13. ASSUME NEW d \in Deliveries, CompleteCaptureAppend(d) PROVE TypeOK'
    <2>1. CaptureTypes'
      <3>1. appended' \in [Captures -> BOOLEAN]
        BY <1>13 DEF CaptureTypes, CompleteCaptureAppend, captureVars
      <3>2. /\ cver' \in [Captures -> Nat] /\ claim' = claim
            /\ status' \in [Captures -> {"cleaned", "appending", "appended", "failed"}]
        BY <1>13 DEF CaptureTypes, CompleteCaptureAppend, captureVars
      <3> QED BY <3>1, <3>2 DEF CaptureTypes
    <2>2. DeliveryTypes'
      BY <1>13, EndTypes
         DEF DeliveryTypes, CompleteCaptureAppend, Goto, DeliveryPC, Holding, Stamped,
             Finishing, Recall
    <2> QED BY <1>13, <2>1, <2>2, Unmoved DEF CompleteCaptureAppend
  <1>14. ASSUME NEW d \in Deliveries, ClearStamp(d) PROVE TypeOK'
    <2>1. NoteTypes'
      BY <1>14 DEF DeliveryTypes, NoteTypes, noteVars, ClearStamp, ClearNoteAppend
    <2>2. DeliveryTypes'
      BY <1>14, EndTypes DEF ClearStamp
    <2> QED BY <1>14, <2>1, <2>2, Unmoved DEF ClearStamp
  <1>15. ASSUME NEW d \in Deliveries, ReleaseStamp(d) PROVE TypeOK'
    <2>1. NoteTypes'
      BY <1>15 DEF DeliveryTypes, NoteTypes, noteVars, ReleaseStamp, ClearNoteAppend
    <2>2. DeliveryTypes'
      BY <1>15
         DEF DeliveryTypes, ReleaseStamp, Goto, DeliveryPC, Holding, Stamped, Finishing,
             Recall
    <2> QED BY <1>15, <2>1, <2>2, Unmoved DEF ReleaseStamp
  <1>16. ASSUME NEW d \in Deliveries, ReleaseClaim(d) PROVE TypeOK'
    <2>1. CaptureTypes'
      BY <1>16 DEF CaptureTypes, DeliveryTypes, captureVars, ReleaseClaim, PutCapture
    <2>2. DeliveryTypes'
      <3>1. [mem[d] EXCEPT !.rowVer = @ + 1] \in Memory
        <4>1. mem[d] \in Memory /\ mem[d].rowVer \in Nat
          BY MemoryFields DEF DeliveryTypes
        <4>2. mem[d].rowVer + 1 \in Nat
          BY <4>1
        <4> QED BY <4>1, <4>2, MemoryFields
      <3>2. CASE End(d)
        BY <3>2, EndTypes
      <3>3. CASE ~End(d)
        BY <1>16, <3>1, <3>3
           DEF DeliveryTypes, ReleaseClaim, Goto, Recall, DeliveryPC, Holding
      <3> QED BY <3>2, <3>3
    <2> QED BY <1>16, <2>1, <2>2, Unmoved DEF ReleaseClaim
  <1>17. ASSUME NEW d \in Deliveries, MarkFailed(d) PROVE TypeOK'
    <2>1. CaptureTypes'
      BY <1>17 DEF CaptureTypes, DeliveryTypes, captureVars, MarkFailed, PutCapture
    <2>2. DeliveryTypes'
      BY <1>17, EndTypes DEF MarkFailed
    <2> QED BY <1>17, <2>1, <2>2, Unmoved DEF MarkFailed
  <1>18. ASSUME NEW d \in Deliveries, Fault(d) PROVE TypeOK'
    <2>1. DeliveryTypes'
      BY <1>18, MemoryFields
         DEF DeliveryTypes, Fault, Goto, DeliveryPC, Holding, Stamped, Finishing
    <2> QED BY <1>18, <2>1, Unmoved DEF Fault
  <1>19. ASSUME NEW d \in Deliveries, Crash(d) PROVE TypeOK'
    <2>1. DeliveryTypes'
      BY <1>19, EndTypes DEF Crash
    <2> QED BY <1>19, <2>1, Unmoved DEF Crash
  <1>20. ASSUME NEW e \in Editors, LoadRow(e) PROVE TypeOK'
    <2>1. EditorTypes'
      BY <1>20, EditingFields
         DEF EditorTypes, NoteTypes, editorVars, history, LoadRow, EGoto, EditorPC,
             InFlight
    <2> QED BY <1>20, <2>1, Unmoved DEF LoadRow
  <1>21. ASSUME NEW e \in Editors, LoadBody(e) PROVE TypeOK'
    <2>1. EditorTypes'
      BY <1>21, EditingFields, BodyOperators
         DEF EditorTypes, editorVars, history, LoadBody, EGoto, EditorPC, InFlight
    <2> QED BY <1>21, <2>1, Unmoved DEF LoadBody
  <1>22. ASSUME NEW e \in Editors, BeginBodySave(e) PROVE TypeOK'
    <2>1. EditorTypes'
      <3>1. PICK t \in Edited(ed[e].text) :
               ed' = [ed EXCEPT
                        ![e].saving = "body",
                        ![e].saves = @ + 1,
                        ![e].draft = [t EXCEPT !.edits = @ \cup {<<e, ed[e].saves + 1>>}]]
        BY <1>22 DEF BeginBodySave
      <3>2. ed[e] \in Editing /\ ed[e].text \in Text
        BY EditingFields DEF EditorTypes
      <3>3. ed[e].saves + 1 \in 1 .. MaxSaves /\ ed[e].saves + 1 \in 0 .. MaxSaves
        <4>1. ed[e].saves \in 0 .. MaxSaves /\ ed[e].saves < MaxSaves
          BY <1>22, <3>2, EditingFields DEF BeginBodySave
        <4> QED BY <4>1, BoundsAssumption
      <3>4. <<e, ed[e].saves + 1>> \in EditIds
        BY <3>3 DEF EditIds
      <3>5. t \in Text
        BY <3>1, <3>2, EditedIsText
      <3>6. [t EXCEPT !.edits = @ \cup {<<e, ed[e].saves + 1>>}] \in Text
        BY <3>4, <3>5 DEF Text
      <3>7. [ed[e] EXCEPT !.saving = "body", !.saves = @ + 1,
                 !.draft = [t EXCEPT !.edits = @ \cup {<<e, ed[e].saves + 1>>}]] \in Editing
        BY <3>2, <3>3, <3>6 DEF Editing
      <3>8. ed' \in [Editors -> Editing]
        BY <3>1, <3>7 DEF EditorTypes
      <3> QED BY <1>22, <3>8
         DEF EditorTypes, BeginBodySave, EGoto, EditorPC, InFlight, history
    <2> QED BY <1>22, <2>1, Unmoved DEF BeginBodySave
  <1>23. ASSUME NEW e \in Editors, BeginMetaSave(e) PROVE TypeOK'
    <2>1. EditorTypes'
      <3>1. [ed[e] EXCEPT !.saving = "meta", !.saves = @ + 1, !.draft = ed[e].text] \in Editing
        BY <1>23, EmptyValues, BoundsAssumption DEF EditorTypes, Editing, BeginMetaSave
      <3> QED BY <1>23, <3>1
         DEF EditorTypes, BeginMetaSave, EGoto, EditorPC, InFlight, history
    <2> QED BY <1>23, <2>1, Unmoved DEF BeginMetaSave
  <1>24. ASSUME NEW e \in Editors, SaveReadBody(e) PROVE TypeOK'
    <2>1. EditorTypes'
      BY <1>24, EditingFields
         DEF EditorTypes, editorVars, history, SaveReadBody, EGoto, EditorPC, InFlight
    <2> QED BY <1>24, <2>1, Unmoved DEF SaveReadBody
  <1>25. ASSUME NEW e \in Editors, SaveReadRow(e) PROVE TypeOK'
    <2>1. EditorTypes'
      <3>1. SaveRow(e) \in NoteCopy
        BY NoteRowIsCopy, NoteCopyFields DEF NoteTypes, SaveRow
      <3>2. /\ [ed[e] EXCEPT !.row = SaveRow(e)] \in Editing
            /\ [ed[e] EXCEPT !.stored = EmptyBody] \in Editing
        BY <3>1, EmptyValues, EditingFields DEF EditorTypes
      <3>3. CASE Reload(e)
        BY <1>25, <3>3, ReloadTypes DEF SaveReadRow, history
      <3>4. CASE ~Reload(e)
        BY <1>25, <3>2, <3>4
           DEF EditorTypes, SaveReadRow, EGoto, EditorPC, InFlight, history
      <3> QED BY <3>3, <3>4
    <2> QED BY <1>25, <2>1, Unmoved DEF SaveReadRow
  <1>26. ASSUME NEW e \in Editors, WriteNoteBody(e) PROVE TypeOK'
    <2>1. body' \in Body
      <3>1. CarryCaptureMarkers(ed[e].stored, ed[e].draft) \in Body
        BY EditingFields, BodyOperators DEF EditorTypes
      <3> QED BY <1>26, <3>1 DEF WriteNoteBody
    <2>2. EditorTypes'
      <3>1. /\ TextWords(ed[e].draft) \in SUBSET Captures
            /\ TextWords(ed[e].text) \in SUBSET Captures
        BY EditingFields DEF EditorTypes, TextWords, Text
      <3>2. [ed[e] EXCEPT !.row = [@ EXCEPT !.indexed = TextWords(ed[e].draft)]] \in Editing
        BY <3>1, NoteCopyFields, EditingFields DEF EditorTypes
      <3>3. CASE Reload(e)
        BY <1>26, <3>3, ReloadTypes DEF EditorTypes, WriteNoteBody, Reload, EGoto, history
      <3>4. CASE ~Reload(e)
        BY <1>26, <3>1, <3>2, <3>4
           DEF EditorTypes, WriteNoteBody, EGoto, EditorPC, InFlight
      <3> QED BY <3>3, <3>4
    <2> QED BY <1>26, <2>1, <2>2, Unmoved DEF WriteNoteBody
  <1>27. ASSUME NEW e \in Editors, PutCarryingStamp(e) PROVE TypeOK'
    <2>1. NoteTypes'
      <3>1. ed[e].row \in NoteCopy
        BY EditingFields DEF EditorTypes
      <3> QED BY <1>27, <3>1, PutNoteTypes, Unmoved DEF PutCarryingStamp
    <2>2. EditorTypes'
      BY <1>27, ReloadTypes, AcknowledgeTypes
         DEF EditorTypes, NoteTypes, editorVars, history, PutCarryingStamp, EGoto,
             EditorPC, InFlight
    <2> QED BY <1>27, <2>1, <2>2, Unmoved DEF PutCarryingStamp
  <1>28. ASSUME NEW e \in Editors, PutReread(e) PROVE TypeOK'
    <2>1. EditorTypes'
      <3>1. [ed[e] EXCEPT !.row = [@ EXCEPT !.tap = tap]] \in Editing
        BY NoteCopyFields, EditingFields DEF EditorTypes, NoteTypes
      <3>2. CASE Reload(e)
        BY <1>28, <3>2, ReloadTypes DEF PutReread, history
      <3>3. CASE ~Reload(e)
        BY <1>28, <3>1, <3>3
           DEF EditorTypes, PutReread, EGoto, EditorPC, InFlight, history
      <3> QED BY <3>2, <3>3
    <2> QED BY <1>28, <2>1, Unmoved DEF PutReread
  <1>29. ASSUME NEW e \in Editors, SaveDies(e) PROVE TypeOK'
    <2>1. EditorTypes'
      <3>1. [ed[e] EXCEPT !.stored = EmptyBody, !.row = NoCopy, !.saves = @ + 1] \in Editing
        BY <1>29, EmptyValues, BoundsAssumption DEF EditorTypes, Editing, SaveDies
      <3> QED BY <1>29, <3>1 DEF EditorTypes, SaveDies, EGoto, EditorPC, InFlight, history
    <2> QED BY <1>29, <2>1, Unmoved DEF SaveDies
  <1>30. ASSUME NEW c \in Captures, ExpireClaim(c) PROVE TypeOK'
    <2>1. CaptureTypes'
      BY <1>30 DEF CaptureTypes, captureVars, ExpireClaim
    <2> QED BY <1>30, <2>1, Unmoved DEF ExpireClaim
  <1>31. CASE StampCleanRequest
    <2>1. NoteTypes'
      BY <1>31 DEF NoteTypes, noteVars, StampCleanRequest
    <2> QED BY <1>31, <2>1, Unmoved DEF StampCleanRequest
  <1>32. CASE ArchiveNote
    <2>1. NoteTypes'
      <3>1. version' = version + 1 /\ UNCHANGED <<stamp, stampAge, indexed, tap>>
        BY <1>32 DEF ArchiveNote
      <3>2. active' \in BOOLEAN
        BY <1>32 DEF ArchiveNote
      <3> QED BY <3>1, <3>2 DEF NoteTypes
    <2> QED BY <1>32, <2>1, Unmoved DEF ArchiveNote
  <1>33. CASE AgeStamp
    <2>1. NoteTypes'
      BY <1>33 DEF NoteTypes, noteVars, AgeStamp
    <2>2. DeliveryTypes'
      <3>1. \A d \in Deliveries, W \in SUBSET Deliveries :
               [mem[d] EXCEPT !.waited = @ \/ d \in W] \in Memory
        BY MemoryFields DEF DeliveryTypes
      <3>2. mem' \in [Deliveries -> Memory]
        BY <1>33, <3>1 DEF AgeStamp
      <3> QED BY <1>33, <3>2 DEF DeliveryTypes, AgeStamp
    <2> QED BY <1>33, <2>1, <2>2, Unmoved DEF AgeStamp
  <1>34. CASE LapseStamp
    <2>1. NoteTypes'
      BY <1>34 DEF NoteTypes, noteVars, LapseStamp
    <2> QED BY <1>34, <2>1, Unmoved DEF LapseStamp
  <1>35. CASE UNCHANGED vars
    BY <1>35, Unmoved DEF vars
  <1> QED
    BY <1>1, <1>2, <1>3, <1>4, <1>5, <1>6, <1>7, <1>8, <1>9, <1>10, <1>11, <1>12,
       <1>13, <1>14, <1>15, <1>16, <1>17, <1>18, <1>19, <1>20, <1>21, <1>22, <1>23, <1>24,
       <1>25, <1>26, <1>27, <1>28, <1>29, <1>30, <1>31, <1>32, <1>33, <1>34, <1>35
    DEF Next, WorkerStep, EditorStep, SaveStep, Time

\* Every variable keeps its type, for any number of recordings, deliveries and
\* editors.
THEOREM Typing == Spec => []TypeOK
  BY TypeInit, TypeNext, PTL DEF Spec

-----------------------------------------------------------------------------
(***************************************************************************)
(* The claim, the stamp and the whole-row writes, for every number of      *)
(* recordings, deliveries and editors: the claim is a mutex, the stamp     *)
(* stands for as long as its append writes, and no writer of the row puts  *)
(* back what an older copy of it held.                                     *)
(***************************************************************************)

-----------------------------------------------------------------------------
(* The inductive invariants.                                               *)

\* A delivery finishing a dead attempt's append never gets as far back as the
\* calls that hand a claim back.
ResumedOnlyFinishes ==
    \A d \in Deliveries : resumed[d] => pc[d] \in Finishing \cup {"clear"}

ClaimInv == TypeOK /\ OneHolder /\ ResumedOnlyFinishes

\* A copy of the row at the version that stands: nothing but the index, the Clean
\* tap and an abandoned or cleared stamp can differ from the row.
FreshAt(n, ver, standing, age, live) ==
    /\ n.ver <= ver
    /\ n.ver = ver =>
          /\ n.active = live
          /\ standing # None /\ age = 0 => n.stamp = standing
Fresh(n) == FreshAt(n, version, stamp, stampAge, active)

Refreshing == {"refBody", "refPut"}
Answering  == {"put", "putRow", "reread", "reput"}

CopiesFresh ==
    /\ \A d \in Deliveries : pc[d] \in Refreshing => Fresh(mem[d].copy)
    /\ \A e \in Editors : epc[e] \in Answering => Fresh(ed[e].row)

CopyInv == TypeOK /\ CopiesFresh

\* A delivery about to stamp a row that has not moved saw no live stamp of another.
StampsAfterLooking ==
    \A d \in Deliveries : pc[d] = "stampPut" =>
       /\ mem[d].copy.ver <= version
       /\ mem[d].copy.ver = version /\ stamp \notin {None, cap[d]} => stampAge > 0

\* A stamp that has aged has no attempt writing behind it.
AgedIsAbandoned == stampAge > 0 => \A d \in Deliveries : ~Writing(d, stamp)

\* Only a finished append has its stamp cleared as finished.
ClearsFinished ==
    /\ \A d \in Deliveries : pc[d] = "clear" => appended[cap[d]]
    /\ \A c \in Captures : status[c] = "appended" => appended[c]

NobodyHurried == \A d \in Deliveries : ~mem[d].waited

StampInv ==
    /\ ClaimInv /\ CopyInv
    /\ StampsAfterLooking /\ AgedIsAbandoned /\ ClearsFinished /\ NobodyHurried
    /\ StampCoversWrite

-----------------------------------------------------------------------------
(* The claim is a mutex.                                                   *)

\* Nobody new holds a claim and the rows of the holders keep theirs: the mutex
\* stands.
NoNewHolder ==
    \A x \in Deliveries, c \in Captures :
       Holds(x, c)' => Holds(x, c) /\ claim'[c] = claim[c]

\* A step that makes no holder keeps the mutex.
LEMMA NoNewHolderSuffices == OneHolder /\ NoNewHolder => OneHolder'
  BY DEF OneHolder, NoNewHolder

\* Before the first step nobody holds anything.
LEMMA ClaimInit == Init => ClaimInv
  BY TypeInit DEF Init, ClaimInv, OneHolder, Holds, Holding, Stamped, Finishing,
                  ResumedOnlyFinishes

\* Every step keeps the mutex: only ClaimPut makes a holder, out of a claim that
\* nobody has.
LEMMA ClaimNext == ClaimInv /\ [Next]_vars => ClaimInv'
  <1> SUFFICES ASSUME ClaimInv, [Next]_vars PROVE OneHolder' /\ ResumedOnlyFinishes'
    BY TypeNext DEF ClaimInv
  <1> DEFINE Kept == OneHolder' /\ ResumedOnlyFinishes'
  <1>0. /\ TypeOK /\ OneHolder /\ ResumedOnlyFinishes /\ CaptureTypes /\ DeliveryTypes
        /\ OneHolder /\ NoNewHolder => OneHolder'
    BY NoNewHolderSuffices DEF ClaimInv, TypeOK
  <1>1. ASSUME NEW d \in Deliveries, NEW c \in Captures, StartDelivery(d, c) PROVE Kept
    <2>1. NoNewHolder
      BY <1>0, <1>1
         DEF CaptureTypes, DeliveryTypes, NoNewHolder, captureVars, StartDelivery,
         Goto, Holds, Holding, Stamped, Finishing
    <2>2. ResumedOnlyFinishes'
      BY <1>0, <1>1 DEF DeliveryTypes, ResumedOnlyFinishes, StartDelivery, Goto, Finishing
    <2> QED BY <1>0, <2>1, <2>2
  <1>2. ASSUME NEW d \in Deliveries, SetStatus(d) PROVE Kept
    <2>1. NoNewHolder
      BY <1>0, <1>2
         DEF CaptureTypes, DeliveryTypes, NoNewHolder, captureVars, SetStatus,
             PutCapture, End, Recall,
         Goto, Holds, Holding, Stamped, Finishing
    <2>2. ResumedOnlyFinishes'
      BY <1>0, <1>2
         DEF DeliveryTypes, ResumedOnlyFinishes, SetStatus, PutCapture, End, Recall,
             Goto, Finishing
    <2> QED BY <1>0, <2>1, <2>2
  <1>3. ASSUME NEW d \in Deliveries, ClaimRead(d) PROVE Kept
    <2>1. NoNewHolder
      BY <1>0, <1>3
         DEF CaptureTypes, DeliveryTypes, NoNewHolder, captureVars, ClaimRead,
             ClaimRefused, Claimable, End, Recall,
         Goto, Holds, Holding, Stamped, Finishing
    <2>2. ResumedOnlyFinishes'
      BY <1>0, <1>3
         DEF DeliveryTypes, ResumedOnlyFinishes, ClaimRead, ClaimRefused, Claimable,
             End, Recall, Goto, Finishing
    <2> QED BY <1>0, <2>1, <2>2
  <1>4. ASSUME NEW d \in Deliveries, ClaimPut(d) PROVE Kept
    <2> DEFINE c == cap[d]
    <2>1. c \in Captures /\ ~resumed[d]
      BY <1>0, <1>4 DEF DeliveryTypes, ResumedOnlyFinishes, Finishing, ClaimPut
    <2>2. CASE PutCapture(c, mem[d].rowVer, status[c], "held") /\ Claimable(c)
               /\ Goto(d, "stampRead") /\ UNCHANGED <<cap, resumed>>
      <3>1. \A x \in Deliveries : ~Holds(x, c)
        BY <1>0, <2>1, <2>2 DEF OneHolder, Claimable
      <3>2. /\ claim'[c] = "held"
            /\ \A z \in Captures \ {c} : claim'[z] = claim[z]
        BY <1>0, <2>1, <2>2 DEF CaptureTypes, PutCapture
      <3>3. \A x \in Deliveries, z \in Captures :
               Holds(x, z)' => Holds(x, z) \/ (x = d /\ z = c)
        BY <1>0, <2>1, <2>2 DEF DeliveryTypes, Goto, Holds, Holding, Stamped, Finishing
      <3>4. OneHolder'
        BY <1>0, <3>1, <3>2, <3>3 DEF OneHolder
      <3>5. ResumedOnlyFinishes'
        BY <1>0, <2>1, <2>2 DEF DeliveryTypes, ResumedOnlyFinishes, Goto, Finishing
      <3> QED BY <3>4, <3>5
    <2>3. CASE ClaimRefused(d) /\ UNCHANGED captureVars
      <3>1. NoNewHolder
        BY <1>0, <1>4, <2>3
           DEF DeliveryTypes, NoNewHolder, captureVars, ClaimPut, ClaimRefused,
           End, Recall, Goto, Holds, Holding, Stamped, Finishing
      <3>2. ResumedOnlyFinishes'
        BY <1>0, <1>4, <2>3
           DEF DeliveryTypes, ResumedOnlyFinishes, ClaimPut, ClaimRefused, End,
           Recall, Goto, Finishing
      <3> QED BY <1>0, <3>1, <3>2
    <2> QED BY <1>4, <2>2, <2>3 DEF ClaimPut
  <1>5. ASSUME NEW d \in Deliveries, CheckNote(d) PROVE Kept
    <2>1. NoNewHolder
      BY <1>0, <1>5
         DEF CaptureTypes, DeliveryTypes, NoNewHolder, captureVars, CheckNote, End,
         Goto, Holds, Holding, Stamped, Finishing
    <2>2. ResumedOnlyFinishes'
      BY <1>0, <1>5
         DEF DeliveryTypes, ResumedOnlyFinishes, CheckNote, End, Goto, Finishing
    <2> QED BY <1>0, <2>1, <2>2
  <1>6. ASSUME NEW d \in Deliveries, StampRead(d) PROVE Kept
    <2>1. NoNewHolder
      BY <1>0, <1>6 DEF CaptureTypes, DeliveryTypes, NoNewHolder, captureVars, StampRead, 
         Goto, Holds, Holding, Stamped, Finishing
    <2>2. ResumedOnlyFinishes'
      BY <1>0, <1>6 DEF DeliveryTypes, ResumedOnlyFinishes, StampRead, Goto, Finishing
    <2> QED BY <1>0, <2>1, <2>2
  <1>7. ASSUME NEW d \in Deliveries, StampPut(d) PROVE Kept
    <2>1. NoNewHolder
      BY <1>0, <1>7 DEF CaptureTypes, DeliveryTypes, NoNewHolder, captureVars, StampPut, 
         Goto, Holds, Holding, Stamped, Finishing
    <2>2. ResumedOnlyFinishes'
      BY <1>0, <1>7 DEF DeliveryTypes, ResumedOnlyFinishes, StampPut, Goto, Finishing
    <2> QED BY <1>0, <2>1, <2>2
  <1>8. ASSUME NEW d \in Deliveries, BodyRead(d) PROVE Kept
    <2>1. NoNewHolder
      BY <1>0, <1>8 DEF CaptureTypes, DeliveryTypes, NoNewHolder, captureVars, BodyRead, 
         Goto, Holds, Holding, Stamped, Finishing
    <2>2. ResumedOnlyFinishes'
      BY <1>0, <1>8 DEF DeliveryTypes, ResumedOnlyFinishes, BodyRead, Goto, Finishing
    <2> QED BY <1>0, <2>1, <2>2
  <1>9. ASSUME NEW d \in Deliveries, AppendToNote(d) PROVE Kept
    <2>1. NoNewHolder
      BY <1>0, <1>9
         DEF CaptureTypes, DeliveryTypes, NoNewHolder, captureVars, AppendToNote,
         Goto, Holds, Holding, Stamped, Finishing
    <2>2. ResumedOnlyFinishes'
      BY <1>0, <1>9 DEF DeliveryTypes, ResumedOnlyFinishes, AppendToNote, Goto, Finishing
    <2> QED BY <1>0, <2>1, <2>2
  <1>10. ASSUME NEW d \in Deliveries, RefreshReadRow(d) PROVE Kept
    <2>1. NoNewHolder
      BY <1>0, <1>10
         DEF CaptureTypes, DeliveryTypes, NoNewHolder, captureVars, RefreshReadRow,
         Goto, Holds, Holding, Stamped, Finishing
    <2>2. ResumedOnlyFinishes'
      BY <1>0, <1>10
         DEF DeliveryTypes, ResumedOnlyFinishes, RefreshReadRow, Goto, Finishing
    <2> QED BY <1>0, <2>1, <2>2
  <1>11. ASSUME NEW d \in Deliveries, RefreshReadBody(d) PROVE Kept
    <2>1. NoNewHolder
      BY <1>0, <1>11
         DEF CaptureTypes, DeliveryTypes, NoNewHolder, captureVars, RefreshReadBody,
         Goto, Holds, Holding, Stamped, Finishing
    <2>2. ResumedOnlyFinishes'
      BY <1>0, <1>11
         DEF DeliveryTypes, ResumedOnlyFinishes, RefreshReadBody, Goto, Finishing
    <2> QED BY <1>0, <2>1, <2>2
  <1>12. ASSUME NEW d \in Deliveries, RefreshPut(d) PROVE Kept
    <2>1. NoNewHolder
      BY <1>0, <1>12
         DEF CaptureTypes, DeliveryTypes, NoNewHolder, captureVars, RefreshPut,
         Goto, Holds, Holding, Stamped, Finishing
    <2>2. ResumedOnlyFinishes'
      BY <1>0, <1>12 DEF DeliveryTypes, ResumedOnlyFinishes, RefreshPut, Goto, Finishing
    <2> QED BY <1>0, <2>1, <2>2
  <1>13. ASSUME NEW d \in Deliveries, CompleteCaptureAppend(d) PROVE Kept
    <2>1. NoNewHolder
      BY <1>0, <1>13
         DEF CaptureTypes, DeliveryTypes, NoNewHolder, captureVars,
             CompleteCaptureAppend, End, Recall,
         Goto, Holds, Holding, Stamped, Finishing
    <2>2. ResumedOnlyFinishes'
      BY <1>0, <1>13
         DEF DeliveryTypes, ResumedOnlyFinishes, CompleteCaptureAppend, End, Recall,
             Goto, Finishing
    <2> QED BY <1>0, <2>1, <2>2
  <1>14. ASSUME NEW d \in Deliveries, ClearStamp(d) PROVE Kept
    <2>1. NoNewHolder
      BY <1>0, <1>14
         DEF CaptureTypes, DeliveryTypes, NoNewHolder, captureVars, ClearStamp, End,
         Goto, Holds, Holding, Stamped, Finishing
    <2>2. ResumedOnlyFinishes'
      BY <1>0, <1>14
         DEF DeliveryTypes, ResumedOnlyFinishes, ClearStamp, End, Goto, Finishing
    <2> QED BY <1>0, <2>1, <2>2
  <1>15. ASSUME NEW d \in Deliveries, ReleaseStamp(d) PROVE Kept
    <2>1. NoNewHolder
      BY <1>0, <1>15
         DEF CaptureTypes, DeliveryTypes, NoNewHolder, captureVars, ReleaseStamp,
             Recall,
         Goto, Holds, Holding, Stamped, Finishing
    <2>2. ResumedOnlyFinishes'
      BY <1>0, <1>15
         DEF DeliveryTypes, ResumedOnlyFinishes, ReleaseStamp, Recall, Goto, Finishing
    <2> QED BY <1>0, <2>1, <2>2
  <1>16. ASSUME NEW d \in Deliveries, ReleaseClaim(d) PROVE Kept
    <2>1. cap[d] \in Captures /\ Holds(d, cap[d])
      BY <1>0, <1>16
         DEF DeliveryTypes, ResumedOnlyFinishes, ReleaseClaim, Holds, Holding, Finishing
    <2>2. \A x \in Deliveries, c \in Captures : Holds(x, c)' => Holds(x, c) /\ x # d
      BY <1>0, <1>16
         DEF DeliveryTypes, ReleaseClaim, End, Recall, Goto, Holds, Holding, Stamped,
             Finishing
    <2>3. \A x \in Deliveries, c \in Captures : Holds(x, c)' => c # cap[d]
      BY <1>0, <2>1, <2>2 DEF OneHolder
    <2>4. \A c \in Captures : c # cap[d] => claim'[c] = claim[c]
      BY <1>0, <1>16 DEF CaptureTypes, ReleaseClaim, PutCapture, captureVars
    <2>5. NoNewHolder
      BY <2>2, <2>3, <2>4 DEF NoNewHolder
    <2>6. ResumedOnlyFinishes'
      BY <1>0, <1>16
         DEF DeliveryTypes, ResumedOnlyFinishes, ReleaseClaim, End, Recall, Goto,
             Finishing
    <2> QED BY <1>0, <2>5, <2>6
  <1>17. ASSUME NEW d \in Deliveries, MarkFailed(d) PROVE Kept
    <2>1. NoNewHolder
      BY <1>0, <1>17
         DEF CaptureTypes, DeliveryTypes, NoNewHolder, captureVars, MarkFailed,
             PutCapture, End,
         Goto, Holds, Holding, Stamped, Finishing
    <2>2. ResumedOnlyFinishes'
      BY <1>0, <1>17
         DEF DeliveryTypes, ResumedOnlyFinishes, MarkFailed, PutCapture, End, Goto,
             Finishing
    <2> QED BY <1>0, <2>1, <2>2
  <1>18. ASSUME NEW d \in Deliveries, Fault(d) PROVE Kept
    <2>1. NoNewHolder
      BY <1>0, <1>18 DEF CaptureTypes, DeliveryTypes, NoNewHolder, captureVars, Fault, 
         Goto, Holds, Holding, Stamped, Finishing
    <2>2. ResumedOnlyFinishes'
      BY <1>0, <1>18 DEF DeliveryTypes, ResumedOnlyFinishes, Fault, Goto, Finishing
    <2> QED BY <1>0, <2>1, <2>2
  <1>19. ASSUME NEW d \in Deliveries, Crash(d) PROVE Kept
    <2>1. NoNewHolder
      BY <1>0, <1>19
         DEF CaptureTypes, DeliveryTypes, NoNewHolder, captureVars, Crash, End,
         Goto, Holds, Holding, Stamped, Finishing
    <2>2. ResumedOnlyFinishes'
      BY <1>0, <1>19 DEF DeliveryTypes, ResumedOnlyFinishes, Crash, End, Goto, Finishing
    <2> QED BY <1>0, <2>1, <2>2
  <1>20. ASSUME NEW c \in Captures, ExpireClaim(c) PROVE Kept
    <2>1. NoNewHolder
      BY <1>0, <1>20 DEF CaptureTypes, NoNewHolder, ExpireClaim, deliveryVars, Holds
    <2>2. ResumedOnlyFinishes'
      BY <1>0, <1>20 DEF ResumedOnlyFinishes, ExpireClaim, deliveryVars
    <2> QED BY <1>0, <2>1, <2>2
  <1>21. CASE UNCHANGED <<captureVars, pc, cap, resumed>>
    <2>1. NoNewHolder /\ ResumedOnlyFinishes'
      BY <1>0, <1>21 DEF NoNewHolder, ResumedOnlyFinishes, captureVars, Holds
    <2> QED BY <1>0, <2>1
  <1>22. (\E e \in Editors : EditorStep(e)) => UNCHANGED <<captureVars, pc, cap, resumed>>
    BY
       DEF EditorStep, SaveStep, LoadRow, LoadBody, BeginBodySave, BeginMetaSave,
           SaveReadBody, SaveReadRow, WriteNoteBody, PutCarryingStamp, PutReread,
           SaveDies, deliveryVars
  <1>23. StampCleanRequest \/ ArchiveNote \/ AgeStamp \/ LapseStamp \/ UNCHANGED vars
            => UNCHANGED <<captureVars, pc, cap, resumed>>
    BY DEF StampCleanRequest, ArchiveNote, AgeStamp, LapseStamp, deliveryVars, vars
  <1> QED
    BY <1>1, <1>2, <1>3, <1>4, <1>5, <1>6, <1>7, <1>8, <1>9, <1>10, <1>11, <1>12,
       <1>13, <1>14, <1>15, <1>16, <1>17, <1>18, <1>19, <1>20, <1>21, <1>22, <1>23
    DEF Next, WorkerStep, Time

\* The append claim is a mutex, and the row says who has it.
THEOREM ClaimIsMutex == Spec => []OneHolder
  <1>1. ClaimInv => OneHolder
    BY DEF ClaimInv
  <1> QED BY <1>1, ClaimInit, ClaimNext, PTL DEF Spec

-----------------------------------------------------------------------------
(* Copies of the row.                                                      *)

\* A step either moves the version or leaves the row as every reader of this
\* version saw it, a cleared or an older stamp aside.
RowStands ==
    /\ version' = version /\ active' = active
    /\ stamp' \in {None, stamp}
    /\ stamp' # None => stampAge' >= stampAge
RowMoved == version' = version + 1 \/ RowStands

\* Every step of the system does one or the other.
LEMMA RowMoves == TypeOK /\ [Next]_vars => RowMoved
  <1> SUFFICES ASSUME TypeOK, [Next]_vars PROVE RowMoved
    OBVIOUS
  <1>0. NoteTypes
    BY DEF TypeOK
  <1>1. UNCHANGED noteVars => RowMoved
    BY <1>0 DEF NoteTypes, noteVars, RowMoved, RowStands
  <1>2. ASSUME NEW d \in Deliveries, StampPut(d) PROVE RowMoved
    BY <1>1, <1>2 DEF StampPut, RowMoved
  <1>3. ASSUME NEW d \in Deliveries, RefreshPut(d) PROVE RowMoved
    BY <1>1, <1>3 DEF RefreshPut, PutNote, RowMoved
  <1>4. ASSUME NEW c \in Captures, ClearNoteAppend(c) PROVE RowMoved
    BY <1>0, <1>4 DEF NoteTypes, ClearNoteAppend, RowMoved, RowStands
  <1>5. ASSUME NEW d \in Deliveries, ClearStamp(d) \/ ReleaseStamp(d) PROVE RowMoved
    <2>1. cap[d] \in Captures
      BY <1>5 DEF TypeOK, DeliveryTypes, ClearStamp, ReleaseStamp
    <2> QED BY <1>1, <1>4, <1>5, <2>1 DEF ClearStamp, ReleaseStamp
  <1>6. ASSUME NEW e \in Editors, PutCarryingStamp(e) PROVE RowMoved
    BY <1>1, <1>6 DEF PutCarryingStamp, PutNote, RowMoved
  <1>7. CASE StampCleanRequest \/ ArchiveNote
    BY <1>0, <1>7 DEF NoteTypes, StampCleanRequest, ArchiveNote, RowMoved, RowStands
  <1>8. CASE AgeStamp \/ LapseStamp
    BY <1>0, <1>8 DEF NoteTypes, AgeStamp, LapseStamp, RowMoved, RowStands
  <1>9. ASSUME NEW d \in Deliveries,
               \/ \E c \in Captures : StartDelivery(d, c)
               \/ SetStatus(d) \/ ClaimRead(d) \/ ClaimPut(d) \/ CheckNote(d)
               \/ StampRead(d) \/ BodyRead(d) \/ AppendToNote(d)
               \/ RefreshReadRow(d) \/ RefreshReadBody(d) \/ CompleteCaptureAppend(d)
               \/ ReleaseClaim(d) \/ MarkFailed(d) \/ Fault(d) \/ Crash(d)
        PROVE  RowMoved
    BY <1>1, <1>9 DEF StartDelivery, SetStatus, ClaimRead, ClaimPut, CheckNote, StampRead,
       BodyRead, AppendToNote, RefreshReadRow, RefreshReadBody, CompleteCaptureAppend,
       ReleaseClaim, MarkFailed, Fault, Crash
  <1>10. ASSUME NEW e \in Editors,
                \/ LoadRow(e) \/ LoadBody(e) \/ BeginBodySave(e) \/ BeginMetaSave(e)
                \/ SaveReadBody(e) \/ SaveReadRow(e) \/ WriteNoteBody(e) \/ PutReread(e)
                \/ SaveDies(e)
         PROVE  RowMoved
    BY <1>1, <1>10 DEF LoadRow, LoadBody, BeginBodySave, BeginMetaSave, SaveReadBody,
       SaveReadRow, WriteNoteBody, PutReread, SaveDies
  <1>11. ASSUME NEW c \in Captures, ExpireClaim(c) PROVE RowMoved
    BY <1>1, <1>11 DEF ExpireClaim
  <1>12. CASE UNCHANGED vars
    BY <1>1, <1>12 DEF vars
  <1> QED BY <1>2, <1>3, <1>5, <1>6, <1>7, <1>8, <1>9, <1>10, <1>11, <1>12
      DEF Next, WorkerStep, EditorStep, SaveStep, Time

\* What a copy is fresh by.
SameKeys(m, n) == m.ver = n.ver /\ m.stamp = n.stamp /\ m.active = n.active

\* A copy that was fresh is fresh after any step of the row.
LEMMA FreshStays ==
    ASSUME NoteTypes, NoteTypes', RowMoved, NEW n \in NoteCopy, NEW m \in NoteCopy,
           Fresh(n), SameKeys(m, n)
    PROVE  FreshAt(m, version', stamp', stampAge', active')
  BY NoteCopyFields DEF NoteTypes, RowMoved, RowStands, Fresh, FreshAt, SameKeys

\* A copy read now is fresh.
LEMMA ReadIsFresh == NoteTypes => Fresh(NoteRow)
  BY DEF NoteTypes, Fresh, FreshAt, NoteRow

\* A step that keeps each copy in use as it was, or takes one from the row.
CopiesKept ==
    /\ \A x \in Deliveries : pc'[x] \in Refreshing =>
          \/ pc[x] \in Refreshing /\ SameKeys(mem'[x].copy, mem[x].copy)
          \/ Fresh(mem'[x].copy) /\ UNCHANGED noteVars
    /\ \A x \in Editors : epc'[x] \in Answering =>
          \/ epc[x] \in Answering /\ SameKeys(ed'[x].row, ed[x].row)
          \/ Fresh(ed'[x].row) /\ UNCHANGED noteVars

\* Such a step keeps the copies fresh.
LEMMA CopiesKeptSuffices ==
    ASSUME CopyInv, TypeOK', RowMoved, CopiesKept
    PROVE  CopiesFresh'
  <1>1. /\ \A x \in Deliveries : mem[x].copy \in NoteCopy /\ mem'[x].copy \in NoteCopy
        /\ \A x \in Editors : ed[x].row \in NoteCopy /\ ed'[x].row \in NoteCopy
        /\ NoteTypes /\ NoteTypes'
    BY MemoryFields, EditingFields DEF CopyInv, TypeOK, DeliveryTypes, EditorTypes
  <1>2. ASSUME NEW n \in NoteCopy, Fresh(n), UNCHANGED noteVars
        PROVE  FreshAt(n, version', stamp', stampAge', active')
    BY <1>2 DEF Fresh, noteVars
  <1>3. ASSUME NEW x \in Deliveries, pc'[x] \in Refreshing
        PROVE  FreshAt(mem'[x].copy, version', stamp', stampAge', active')
    BY <1>1, <1>2, <1>3, FreshStays DEF CopiesKept, CopyInv, CopiesFresh
  <1>4. ASSUME NEW x \in Editors, epc'[x] \in Answering
        PROVE  FreshAt(ed'[x].row, version', stamp', stampAge', active')
    BY <1>1, <1>2, <1>4, FreshStays DEF CopiesKept, CopyInv, CopiesFresh
  <1> QED BY <1>3, <1>4 DEF CopiesFresh, Fresh

\* Before the first step nobody has a copy.
LEMMA CopyInit == Init => CopyInv
  BY TypeInit DEF Init, CopyInv, CopiesFresh, Refreshing, Answering

\* Every step keeps the copies fresh.
LEMMA CopyNext == CopyInv /\ [Next]_vars => CopyInv'
  <1> SUFFICES ASSUME CopyInv, [Next]_vars PROVE CopiesKept
    BY TypeNext, RowMoves, CopiesKeptSuffices DEF CopyInv
  <1>0. /\ TypeOK /\ NoteTypes /\ DeliveryTypes /\ EditorTypes
        /\ Fresh(NoteRow) /\ NoteRow \in NoteCopy
    BY ReadIsFresh, NoteRowIsCopy DEF CopyInv, TypeOK
  <1> USE DEF SameKeys
  <1>1. ASSUME NEW d \in Deliveries, NEW c \in Captures, StartDelivery(d, c) PROVE CopiesKept
    BY <1>0, <1>1 DEF DeliveryTypes, CopiesKept, StartDelivery, Goto, Refreshing,
         editorVars
  <1>2. ASSUME NEW d \in Deliveries, SetStatus(d) PROVE CopiesKept
    BY <1>0, <1>2 DEF DeliveryTypes, CopiesKept, SetStatus, End, Recall, Goto,
         Refreshing, editorVars
  <1>3. ASSUME NEW d \in Deliveries, ClaimRead(d) PROVE CopiesKept
    BY <1>0, <1>3 DEF DeliveryTypes, CopiesKept, ClaimRead, ClaimRefused, End, Recall,
         Goto, Refreshing, editorVars
  <1>4. ASSUME NEW d \in Deliveries, ClaimPut(d) PROVE CopiesKept
    BY <1>0, <1>4 DEF DeliveryTypes, CopiesKept, ClaimPut, ClaimRefused, End, Recall,
         Goto, Refreshing, editorVars
  <1>5. ASSUME NEW d \in Deliveries, CheckNote(d) PROVE CopiesKept
    BY <1>0, <1>5 DEF DeliveryTypes, CopiesKept, CheckNote, End, Goto, Refreshing,
         editorVars
  <1>6. ASSUME NEW d \in Deliveries, StampRead(d) PROVE CopiesKept
    BY <1>0, <1>6 DEF DeliveryTypes, CopiesKept, StampRead, Goto, Refreshing, editorVars
  <1>7. ASSUME NEW d \in Deliveries, StampPut(d) PROVE CopiesKept
    BY <1>0, <1>7 DEF DeliveryTypes, CopiesKept, StampPut, Goto, Refreshing, editorVars
  <1>8. ASSUME NEW d \in Deliveries, BodyRead(d) PROVE CopiesKept
    BY <1>0, <1>8 DEF DeliveryTypes, CopiesKept, BodyRead, Goto, Refreshing, editorVars
  <1>9. ASSUME NEW d \in Deliveries, AppendToNote(d) PROVE CopiesKept
    BY <1>0, <1>9 DEF DeliveryTypes, CopiesKept, AppendToNote, Goto, Refreshing,
         editorVars
  <1>10. ASSUME NEW d \in Deliveries, RefreshReadRow(d) PROVE CopiesKept
    <2>1. mem'[d].copy = NoteRow
      BY <1>0, <1>10 DEF DeliveryTypes, Memory, RefreshReadRow
    <2> QED BY <1>0, <1>10, <2>1
       DEF DeliveryTypes, CopiesKept, RefreshReadRow, Goto, Refreshing,
            editorVars
  <1>11. ASSUME NEW d \in Deliveries, RefreshReadBody(d) PROVE CopiesKept
    <2>1. SameKeys(mem'[d].copy, mem[d].copy)
      <3>1. mem[d] \in Memory /\ mem[d].copy \in NoteCopy
        BY <1>0, MemoryFields DEF DeliveryTypes
      <3>2. mem'[d] = [mem[d] EXCEPT !.copy = [@ EXCEPT !.indexed = Words(body)]]
        BY <1>0, <1>11 DEF DeliveryTypes, RefreshReadBody
      <3>3. mem'[d].copy = [mem[d].copy EXCEPT !.indexed = Words(body)]
        BY <3>1, <3>2 DEF Memory
      <3> QED BY <3>1, <3>3 DEF NoteCopy
    <2> QED BY <1>0, <1>11, <2>1 DEF DeliveryTypes, CopiesKept, RefreshReadBody, Goto,
            Refreshing, editorVars
  <1>12. ASSUME NEW d \in Deliveries, RefreshPut(d) PROVE CopiesKept
    BY <1>0, <1>12 DEF DeliveryTypes, CopiesKept, RefreshPut, Goto, Refreshing,
         editorVars
  <1>13. ASSUME NEW d \in Deliveries, CompleteCaptureAppend(d) PROVE CopiesKept
    BY <1>0, <1>13 DEF DeliveryTypes, CopiesKept, CompleteCaptureAppend, End, Recall,
         Goto, Refreshing, editorVars
  <1>14. ASSUME NEW d \in Deliveries, ClearStamp(d) PROVE CopiesKept
    BY <1>0, <1>14 DEF DeliveryTypes, CopiesKept, ClearStamp, End, Goto, Refreshing,
         editorVars
  <1>15. ASSUME NEW d \in Deliveries, ReleaseStamp(d) PROVE CopiesKept
    BY <1>0, <1>15 DEF DeliveryTypes, CopiesKept, ReleaseStamp, Recall, Goto,
         Refreshing, editorVars
  <1>16. ASSUME NEW d \in Deliveries, ReleaseClaim(d) PROVE CopiesKept
    BY <1>0, <1>16 DEF DeliveryTypes, CopiesKept, ReleaseClaim, End, Recall, Goto,
         Refreshing, editorVars
  <1>17. ASSUME NEW d \in Deliveries, MarkFailed(d) PROVE CopiesKept
    BY <1>0, <1>17 DEF DeliveryTypes, CopiesKept, MarkFailed, End, Goto, Refreshing,
         editorVars
  <1>18. ASSUME NEW d \in Deliveries, Fault(d) PROVE CopiesKept
    BY <1>0, <1>18 DEF DeliveryTypes, CopiesKept, Fault, Goto, Refreshing, editorVars
  <1>19. ASSUME NEW d \in Deliveries, Crash(d) PROVE CopiesKept
    BY <1>0, <1>19 DEF DeliveryTypes, CopiesKept, Crash, End, Goto, Refreshing,
         editorVars
  <1>20. ASSUME NEW e \in Editors, LoadRow(e) PROVE CopiesKept
    BY <1>0, <1>20 DEF EditorTypes, CopiesKept, LoadRow, EGoto, Answering, deliveryVars
  <1>21. ASSUME NEW e \in Editors, LoadBody(e) PROVE CopiesKept
    BY <1>0, <1>21 DEF EditorTypes, CopiesKept, LoadBody, EGoto, Answering, deliveryVars
  <1>22. ASSUME NEW e \in Editors, BeginBodySave(e) PROVE CopiesKept
    BY <1>0, <1>22 DEF EditorTypes, CopiesKept, BeginBodySave, EGoto, Answering,
         deliveryVars
  <1>23. ASSUME NEW e \in Editors, BeginMetaSave(e) PROVE CopiesKept
    BY <1>0, <1>23 DEF EditorTypes, CopiesKept, BeginMetaSave, EGoto, Answering,
         deliveryVars
  <1>24. ASSUME NEW e \in Editors, SaveReadBody(e) PROVE CopiesKept
    BY <1>0, <1>24 DEF EditorTypes, CopiesKept, SaveReadBody, EGoto, Answering,
         deliveryVars
  <1>25. ASSUME NEW e \in Editors, SaveReadRow(e) PROVE CopiesKept
    <2>1. epc'[e] \in Answering => Fresh(ed'[e].row)
      <3>1. SUFFICES ASSUME epc'[e] \in Answering PROVE Fresh(ed'[e].row)
        OBVIOUS
      <3>2. ~MustWait(e) /\ ed' = [ed EXCEPT ![e].row = SaveRow(e)]
        BY <1>0, <1>25, <3>1 DEF EditorTypes, SaveReadRow, Reload, EGoto, Answering
      <3>3. ed'[e].row = SaveRow(e)
        BY <1>0, <3>2 DEF EditorTypes, Editing
      <3>4. Fresh(SaveRow(e))
        BY <1>0, <3>2
           DEF NoteTypes, MustWait, AppendInProgress, SaveRow, NoteRow, Fresh, FreshAt
      <3> QED BY <3>3, <3>4
    <2> QED BY <1>0, <1>25, <2>1 DEF EditorTypes, CopiesKept, SaveReadRow, Reload,
         EGoto, Answering, deliveryVars
  <1>26. ASSUME NEW e \in Editors, WriteNoteBody(e) PROVE CopiesKept
    <2>1. epc'[e] \in Answering => SameKeys(ed'[e].row, ed[e].row)
      <3>1. SUFFICES ASSUME epc'[e] \in Answering PROVE SameKeys(ed'[e].row, ed[e].row)
        OBVIOUS
      <3>2. ed' = [ed EXCEPT ![e].row.indexed = TextWords(ed[e].draft)]
        BY <1>0, <1>26, <3>1 DEF EditorTypes, WriteNoteBody, Reload, EGoto, Answering
      <3>3. ed[e] \in Editing /\ ed[e].row \in NoteCopy
        BY <1>0, EditingFields DEF EditorTypes
      <3>4. ed'[e] = [ed[e] EXCEPT !.row = [@ EXCEPT !.indexed = TextWords(ed[e].draft)]]
        BY <1>0, <3>2 DEF EditorTypes
      <3>5. ed'[e].row = [ed[e].row EXCEPT !.indexed = TextWords(ed[e].draft)]
        BY <3>3, <3>4 DEF Editing
      <3> QED BY <3>3, <3>5 DEF NoteCopy
    <2> QED BY <1>0, <1>26, <2>1 DEF EditorTypes, CopiesKept, WriteNoteBody, Reload,
         EGoto, Answering, deliveryVars
  <1>27. ASSUME NEW e \in Editors, PutCarryingStamp(e) PROVE CopiesKept
    BY <1>0, <1>27 DEF EditorTypes, CopiesKept, PutCarryingStamp, Reload, Acknowledge,
         EGoto, Answering, deliveryVars
  <1>28. ASSUME NEW e \in Editors, PutReread(e) PROVE CopiesKept
    <2>1. epc'[e] \in Answering => SameKeys(ed'[e].row, ed[e].row)
      <3>1. SUFFICES ASSUME epc'[e] \in Answering PROVE SameKeys(ed'[e].row, ed[e].row)
        OBVIOUS
      <3>2. ed' = [ed EXCEPT ![e].row.tap = tap]
        BY <1>0, <1>28, <3>1 DEF EditorTypes, PutReread, Reload, EGoto, Answering
      <3>3. ed[e] \in Editing /\ ed[e].row \in NoteCopy
        BY <1>0, EditingFields DEF EditorTypes
      <3>4. ed'[e] = [ed[e] EXCEPT !.row = [@ EXCEPT !.tap = tap]]
        BY <1>0, <3>2 DEF EditorTypes
      <3>5. ed'[e].row = [ed[e].row EXCEPT !.tap = tap]
        BY <3>3, <3>4 DEF Editing
      <3> QED BY <3>3, <3>5 DEF NoteCopy
    <2> QED BY <1>0, <1>28, <2>1 DEF EditorTypes, CopiesKept, PutReread, Reload, EGoto,
         Answering, deliveryVars
  <1>29. ASSUME NEW e \in Editors, SaveDies(e) PROVE CopiesKept
    BY <1>0, <1>29 DEF EditorTypes, CopiesKept, SaveDies, EGoto, Answering, deliveryVars
  <1>30. ASSUME NEW c \in Captures, ExpireClaim(c) PROVE CopiesKept
    BY <1>0, <1>30 DEF CopiesKept, ExpireClaim, deliveryVars, editorVars
  <1>31. CASE StampCleanRequest \/ ArchiveNote \/ LapseStamp \/ UNCHANGED vars
    BY <1>0, <1>31 DEF CopiesKept, StampCleanRequest, ArchiveNote, LapseStamp, vars,
       deliveryVars, editorVars
  <1>32. CASE AgeStamp
    <2>1. \A x \in Deliveries : mem'[x].copy = mem[x].copy
      BY <1>0, <1>32 DEF DeliveryTypes, Memory, AgeStamp
    <2> QED BY <1>0, <1>32, <2>1 DEF CopiesKept, AgeStamp, editorVars
  <1> QED BY <1>1, <1>2, <1>3, <1>4, <1>5, <1>6, <1>7, <1>8, <1>9, <1>10, <1>11, <1>12,
         <1>13, <1>14, <1>15, <1>16, <1>17, <1>18, <1>19, <1>20, <1>21, <1>22, <1>23,
         <1>24, <1>25, <1>26, <1>27, <1>28, <1>29, <1>30, <1>31, <1>32
      DEF Next, WorkerStep, EditorStep, SaveStep, Time

\* A whole-row write whose condition holds changes nothing of the row but its
\* index and its append stamp: it brings no note back from the trash and undoes no
\* Clean tap.
THEOREM RowIsNeverRevived == Spec => RowNeverRevived
  <1>1. CopyInv /\ [Next]_vars => [tap' >= tap /\ (active' => active)]_vars
    <2> SUFFICES ASSUME CopyInv, Next PROVE tap' >= tap /\ (active' => active)
      BY DEF CopyInv
    <2>0. tap \in Nat /\ active \in BOOLEAN
      BY DEF CopyInv, TypeOK, NoteTypes
    <2>1. ASSUME NEW n, Fresh(n), PutNote(n) PROVE tap' >= tap /\ (active' => active)
      BY <2>0, <2>1 DEF PutNote, PutNoteHolds, Fresh, FreshAt
    <2>2. ASSUME UNCHANGED <<tap, active>> PROVE tap' >= tap /\ (active' => active)
      BY <2>0, <2>2
    <2>3. ASSUME NEW d \in Deliveries, RefreshPut(d)
          PROVE  tap' >= tap /\ (active' => active)
      BY <2>1, <2>2, <2>3 DEF RefreshPut, noteVars, CopyInv, CopiesFresh, Refreshing
    <2>4. ASSUME NEW e \in Editors, PutCarryingStamp(e)
          PROVE  tap' >= tap /\ (active' => active)
      BY <2>1, <2>2, <2>4 DEF PutCarryingStamp, noteVars, CopyInv, CopiesFresh, Answering
    <2>5. CASE StampCleanRequest \/ ArchiveNote
      BY <2>0, <2>5 DEF StampCleanRequest, ArchiveNote
    <2>6. ASSUME NEW d \in Deliveries,
                 (\E c \in Captures : StartDelivery(d, c)) \/ Fault(d) \/ Crash(d)
                 \/ (WorkerStep(d) /\ ~RefreshPut(d))
          PROVE  UNCHANGED <<tap, active>>
      BY <2>6 DEF StartDelivery, WorkerStep, SetStatus, ClaimRead, ClaimPut, CheckNote,
         StampRead, StampPut, BodyRead, AppendToNote, RefreshReadRow, RefreshReadBody,
         CompleteCaptureAppend, ClearStamp, ClearNoteAppend, ReleaseStamp, ReleaseClaim,
         MarkFailed, Fault, Crash, noteVars
    <2>7. ASSUME NEW e \in Editors, EditorStep(e), ~PutCarryingStamp(e)
          PROVE  UNCHANGED <<tap, active>>
      BY <2>7 DEF EditorStep, SaveStep, LoadRow, LoadBody, BeginBodySave, BeginMetaSave,
         SaveReadBody, SaveReadRow, WriteNoteBody, PutReread, SaveDies, noteVars
    <2>8. CASE Time
      <3>1. UNCHANGED <<tap, active>>
        BY <2>8 DEF Time, AgeStamp, LapseStamp, ExpireClaim, noteVars
      <3> QED BY <2>2, <3>1
    <2> QED BY <2>2, <2>3, <2>4, <2>5, <2>6, <2>7, <2>8 DEF Next, WorkerStep
  <1> QED BY <1>1, CopyInit, CopyNext, PTL DEF Spec, RowNeverRevived

-----------------------------------------------------------------------------
(* The stamp.  A waiter that ran out of patience stamps over a live append,   *)
(* so what follows is proved for the waiters that do not.                     *)

\* What keeps the smaller parts of StampInv.
LEMMA SmallPartsInit ==
    Init => StampsAfterLooking /\ ClearsFinished /\ NobodyHurried
  BY EmptyValues DEF Init, StampsAfterLooking, ClearsFinished, NobodyHurried, NoMemory

\* A step that sends nobody to clear a stamp before its append is finished, and
\* calls no row finished that is not.
FinishedKept ==
    /\ \A c \in Captures : appended[c] => appended'[c]
    /\ \A c \in Captures : status'[c] = "appended" => status[c] = "appended" \/ appended'[c]
    /\ \A x \in Deliveries : pc'[x] = "clear" =>
          \/ pc[x] = "clear" /\ cap'[x] = cap[x]
          \/ cap'[x] \in Captures /\ appended'[cap'[x]]

\* Every step is such a step.
LEMMA FinishedNext ==
    ASSUME TypeOK, ClearsFinished, [Next]_vars
    PROVE  FinishedKept /\ ClearsFinished'
  <1>0. TypeOK /\ CaptureTypes /\ DeliveryTypes /\ ClearsFinished
    BY DEF TypeOK
  <1> SUFFICES FinishedKept
    BY <1>0 DEF FinishedKept, ClearsFinished, DeliveryTypes
  <1>1. ASSUME NEW d \in Deliveries, NEW c \in Captures, StartDelivery(d, c) PROVE FinishedKept
    BY <1>0, <1>1
       DEF ClearsFinished, DeliveryTypes, FinishedKept, StartDelivery, Goto, captureVars
  <1>2. ASSUME NEW d \in Deliveries, SetStatus(d) PROVE FinishedKept
    BY <1>0, <1>2 DEF CaptureTypes, DeliveryTypes, FinishedKept, SetStatus, PutCapture,
         End, Recall, Goto, captureVars
  <1>3. ASSUME NEW d \in Deliveries, ClaimRead(d) PROVE FinishedKept
    BY <1>0, <1>3 DEF CaptureTypes, DeliveryTypes, FinishedKept, ClaimRead,
         ClaimRefused, End, Recall, Goto, captureVars
  <1>4. ASSUME NEW d \in Deliveries, ClaimPut(d) PROVE FinishedKept
    BY <1>0, <1>4 DEF CaptureTypes, DeliveryTypes, FinishedKept, ClaimPut, PutCapture,
         ClaimRefused, End, Recall, Goto, captureVars
  <1>5. ASSUME NEW d \in Deliveries, CheckNote(d) PROVE FinishedKept
    BY <1>0, <1>5 DEF CaptureTypes, DeliveryTypes, FinishedKept, CheckNote, End, Goto,
         captureVars
  <1>6. ASSUME NEW d \in Deliveries, StampRead(d) PROVE FinishedKept
    BY <1>0, <1>6 DEF CaptureTypes, DeliveryTypes, FinishedKept, StampRead, Goto,
         captureVars
  <1>7. ASSUME NEW d \in Deliveries, StampPut(d) PROVE FinishedKept
    BY <1>0, <1>7 DEF CaptureTypes, DeliveryTypes, FinishedKept, StampPut, Goto,
         captureVars
  <1>8. ASSUME NEW d \in Deliveries, BodyRead(d) PROVE FinishedKept
    BY <1>0, <1>8 DEF CaptureTypes, DeliveryTypes, FinishedKept, BodyRead, Goto,
         captureVars
  <1>9. ASSUME NEW d \in Deliveries, AppendToNote(d) PROVE FinishedKept
    BY <1>0, <1>9 DEF CaptureTypes, DeliveryTypes, FinishedKept, AppendToNote, Goto,
         captureVars
  <1>10. ASSUME NEW d \in Deliveries, RefreshReadRow(d) PROVE FinishedKept
    BY <1>0, <1>10 DEF CaptureTypes, DeliveryTypes, FinishedKept, RefreshReadRow, Goto,
         captureVars
  <1>11. ASSUME NEW d \in Deliveries, RefreshReadBody(d) PROVE FinishedKept
    BY <1>0, <1>11 DEF CaptureTypes, DeliveryTypes, FinishedKept, RefreshReadBody, Goto,
         captureVars
  <1>12. ASSUME NEW d \in Deliveries, RefreshPut(d) PROVE FinishedKept
    BY <1>0, <1>12 DEF CaptureTypes, DeliveryTypes, FinishedKept, RefreshPut, Goto,
         captureVars
  <1>13. ASSUME NEW d \in Deliveries, CompleteCaptureAppend(d) PROVE FinishedKept
    BY <1>0, <1>13 DEF CaptureTypes, DeliveryTypes, FinishedKept, CompleteCaptureAppend,
         End, Recall, Goto, captureVars
  <1>14. ASSUME NEW d \in Deliveries, ClearStamp(d) PROVE FinishedKept
    BY <1>0, <1>14 DEF CaptureTypes, DeliveryTypes, FinishedKept, ClearStamp, End, Goto,
         captureVars
  <1>15. ASSUME NEW d \in Deliveries, ReleaseStamp(d) PROVE FinishedKept
    BY <1>0, <1>15 DEF CaptureTypes, DeliveryTypes, FinishedKept, ReleaseStamp, Recall,
         Goto, captureVars
  <1>16. ASSUME NEW d \in Deliveries, ReleaseClaim(d) PROVE FinishedKept
    BY <1>0, <1>16 DEF CaptureTypes, DeliveryTypes, FinishedKept, ReleaseClaim,
         PutCapture, End, Recall, Goto, captureVars
  <1>17. ASSUME NEW d \in Deliveries, MarkFailed(d) PROVE FinishedKept
    BY <1>0, <1>17 DEF CaptureTypes, DeliveryTypes, FinishedKept, MarkFailed,
         PutCapture, End, Goto, captureVars
  <1>18. ASSUME NEW d \in Deliveries, Fault(d) PROVE FinishedKept
    BY <1>0, <1>18 DEF CaptureTypes, DeliveryTypes, FinishedKept, Fault, Goto,
         captureVars
  <1>19. ASSUME NEW d \in Deliveries, Crash(d) PROVE FinishedKept
    BY <1>0, <1>19 DEF CaptureTypes, DeliveryTypes, FinishedKept, Crash, End, Goto,
         captureVars
  <1>20. ASSUME NEW c \in Captures, ExpireClaim(c) PROVE FinishedKept
    BY <1>0, <1>20 DEF FinishedKept, ExpireClaim, deliveryVars
  <1>21. ASSUME UNCHANGED <<captureVars, pc, cap>> PROVE FinishedKept
    BY <1>21 DEF FinishedKept, captureVars
  <1>22. (\E e \in Editors : EditorStep(e)) => UNCHANGED <<captureVars, pc, cap>>
    BY DEF EditorStep, SaveStep, LoadRow, LoadBody, BeginBodySave, BeginMetaSave,
       SaveReadBody, SaveReadRow, WriteNoteBody, PutCarryingStamp, PutReread, SaveDies,
       deliveryVars
  <1>23. StampCleanRequest \/ ArchiveNote \/ AgeStamp \/ LapseStamp \/ UNCHANGED vars
            => UNCHANGED <<captureVars, pc, cap>>
    BY DEF StampCleanRequest, ArchiveNote, AgeStamp, LapseStamp, deliveryVars, vars
  <1> QED BY <1>1, <1>2, <1>3, <1>4, <1>5, <1>6, <1>7, <1>8, <1>9, <1>10, <1>11, <1>12,
         <1>13, <1>14, <1>15, <1>16, <1>17, <1>18, <1>19, <1>20, <1>21, <1>22, <1>23
      DEF Next, WorkerStep, Time

\* Where a delivery's patience and its look at the row come from.
LooksKept ==
    \A x \in Deliveries :
       /\ mem'[x].waited => mem[x].waited
       /\ pc'[x] = "stampPut" =>
             /\ cap'[x] = cap[x]
             /\ \/ pc[x] = "stampPut" /\ mem'[x].copy = mem[x].copy
                \/ /\ mem'[x].copy = NoteRow /\ UNCHANGED noteVars
                   /\ ~AnotherAppendInFlight(cap[x]) \/ mem[x].waited

\* Nobody who looks and is not hurried stamps over a live stamp.
LEMMA LooksKeptSuffices ==
    ASSUME TypeOK, TypeOK', RowMoved, LooksKept, StampsAfterLooking, NobodyHurried
    PROVE  StampsAfterLooking' /\ NobodyHurried'
  <1>1. NobodyHurried'
    BY DEF LooksKept, NobodyHurried
  <1>2. /\ NoteTypes /\ NoteTypes'
        /\ \A x \in Deliveries : mem[x].copy.ver \in Nat /\ mem'[x].copy.ver \in Nat
    BY MemoryFields, NoteCopyFields DEF TypeOK, DeliveryTypes
  <1>3. ASSUME NEW x \in Deliveries, pc'[x] = "stampPut"
        PROVE  /\ mem'[x].copy.ver <= version'
               /\ mem'[x].copy.ver = version' /\ stamp' \notin {None, cap'[x]} => stampAge' > 0
    <2>1. CASE pc[x] = "stampPut" /\ mem'[x].copy = mem[x].copy
      BY <1>2, <1>3, <2>1
         DEF LooksKept, StampsAfterLooking, RowMoved, RowStands, NoteTypes
    <2>2. CASE mem'[x].copy = NoteRow /\ UNCHANGED noteVars /\ ~AnotherAppendInFlight(cap[x])
      BY <1>2, <1>3, <2>2
         DEF LooksKept, NoteTypes, NoteRow, noteVars, AnotherAppendInFlight
    <2> QED BY <1>3, <2>1, <2>2 DEF LooksKept, NobodyHurried
  <1> QED BY <1>1, <1>3 DEF StampsAfterLooking

\* Every step leaves the looks as they were, if nobody's patience runs out.
LEMMA LooksNext ==
    ASSUME ~PatienceRunsOut, TypeOK, [Next]_vars
    PROVE  LooksKept
  <1>0. DeliveryTypes /\ NoMemory.waited = FALSE /\ \A x \in Deliveries : mem[x] \in Memory
    BY DEF TypeOK, DeliveryTypes, NoMemory
  <1>1. ASSUME NEW d \in Deliveries, NEW c \in Captures, StartDelivery(d, c) PROVE LooksKept
    <2>1. mem'[d].waited = mem[d].waited \/ mem'[d].waited = FALSE
      BY <1>0, <1>1 DEF DeliveryTypes, Memory, StartDelivery
    <2> QED BY <1>0, <1>1, <2>1 DEF DeliveryTypes, LooksKept, StartDelivery, Goto
  <1>2. ASSUME NEW d \in Deliveries, SetStatus(d) PROVE LooksKept
    <2>1. mem'[d].waited = mem[d].waited \/ mem'[d].waited = FALSE
      BY <1>0, <1>2 DEF DeliveryTypes, Memory, SetStatus, End, Recall
    <2> QED BY <1>0, <1>2, <2>1 DEF DeliveryTypes, LooksKept, SetStatus, End, Recall,
         Goto
  <1>3. ASSUME NEW d \in Deliveries, ClaimRead(d) PROVE LooksKept
    <2>1. mem'[d].waited = mem[d].waited \/ mem'[d].waited = FALSE
      BY <1>0, <1>3 DEF DeliveryTypes, Memory, ClaimRead, ClaimRefused, End, Recall
    <2> QED BY <1>0, <1>3, <2>1 DEF DeliveryTypes, LooksKept, ClaimRead, ClaimRefused,
         End, Recall, Goto
  <1>4. ASSUME NEW d \in Deliveries, ClaimPut(d) PROVE LooksKept
    <2>1. mem'[d].waited = mem[d].waited \/ mem'[d].waited = FALSE
      BY <1>0, <1>4 DEF DeliveryTypes, Memory, ClaimPut, ClaimRefused, End, Recall
    <2> QED BY <1>0, <1>4, <2>1 DEF DeliveryTypes, LooksKept, ClaimPut, ClaimRefused,
         End, Recall, Goto
  <1>5. ASSUME NEW d \in Deliveries, CheckNote(d) PROVE LooksKept
    <2>1. mem'[d].waited = mem[d].waited \/ mem'[d].waited = FALSE
      BY <1>0, <1>5 DEF DeliveryTypes, Memory, CheckNote, End
    <2> QED BY <1>0, <1>5, <2>1 DEF DeliveryTypes, LooksKept, CheckNote, End, Goto
  <1>6. ASSUME NEW d \in Deliveries, StampRead(d) PROVE LooksKept
    <2>1. mem'[d].waited = mem[d].waited \/ mem'[d].waited = FALSE
      BY <1>0, <1>6 DEF DeliveryTypes, Memory, StampRead
    <2>2. mem' = [mem EXCEPT ![d].copy = NoteRow] => mem'[d].copy = NoteRow
      BY <1>0 DEF DeliveryTypes, Memory
    <2> QED BY <1>0, <1>6, <2>1, <2>2 DEF DeliveryTypes, LooksKept, StampRead, Goto
  <1>7. ASSUME NEW d \in Deliveries, StampPut(d) PROVE LooksKept
    <2>1. mem'[d].waited = mem[d].waited \/ mem'[d].waited = FALSE
      BY <1>0, <1>7 DEF DeliveryTypes, Memory, StampPut
    <2> QED BY <1>0, <1>7, <2>1 DEF DeliveryTypes, LooksKept, StampPut, Goto
  <1>8. ASSUME NEW d \in Deliveries, BodyRead(d) PROVE LooksKept
    <2>1. mem'[d].waited = mem[d].waited \/ mem'[d].waited = FALSE
      BY <1>0, <1>8 DEF DeliveryTypes, Memory, BodyRead
    <2> QED BY <1>0, <1>8, <2>1 DEF DeliveryTypes, LooksKept, BodyRead, Goto
  <1>9. ASSUME NEW d \in Deliveries, AppendToNote(d) PROVE LooksKept
    <2>1. mem'[d].waited = mem[d].waited \/ mem'[d].waited = FALSE
      BY <1>0, <1>9 DEF DeliveryTypes, Memory, AppendToNote
    <2> QED BY <1>0, <1>9, <2>1 DEF DeliveryTypes, LooksKept, AppendToNote, Goto
  <1>10. ASSUME NEW d \in Deliveries, RefreshReadRow(d) PROVE LooksKept
    <2>1. mem'[d].waited = mem[d].waited \/ mem'[d].waited = FALSE
      BY <1>0, <1>10 DEF DeliveryTypes, Memory, RefreshReadRow
    <2> QED BY <1>0, <1>10, <2>1 DEF DeliveryTypes, LooksKept, RefreshReadRow, Goto
  <1>11. ASSUME NEW d \in Deliveries, RefreshReadBody(d) PROVE LooksKept
    <2>1. mem'[d].waited = mem[d].waited
      <3>1. mem'[d] = [mem[d] EXCEPT !.copy = [@ EXCEPT !.indexed = Words(body)]]
        BY <1>0, <1>11 DEF DeliveryTypes, RefreshReadBody
      <3> QED BY <1>0, <3>1 DEF Memory
    <2> QED BY <1>0, <1>11, <2>1 DEF DeliveryTypes, LooksKept, RefreshReadBody, Goto
  <1>12. ASSUME NEW d \in Deliveries, RefreshPut(d) PROVE LooksKept
    <2>1. mem'[d].waited = mem[d].waited \/ mem'[d].waited = FALSE
      BY <1>0, <1>12 DEF DeliveryTypes, Memory, RefreshPut
    <2> QED BY <1>0, <1>12, <2>1 DEF DeliveryTypes, LooksKept, RefreshPut, Goto
  <1>13. ASSUME NEW d \in Deliveries, CompleteCaptureAppend(d) PROVE LooksKept
    <2>1. mem'[d].waited = mem[d].waited \/ mem'[d].waited = FALSE
      BY <1>0, <1>13 DEF DeliveryTypes, Memory, CompleteCaptureAppend, End, Recall
    <2> QED BY <1>0, <1>13, <2>1 DEF DeliveryTypes, LooksKept, CompleteCaptureAppend,
         End, Recall, Goto
  <1>14. ASSUME NEW d \in Deliveries, ClearStamp(d) PROVE LooksKept
    <2>1. mem'[d].waited = mem[d].waited \/ mem'[d].waited = FALSE
      BY <1>0, <1>14 DEF DeliveryTypes, Memory, ClearStamp, End
    <2> QED BY <1>0, <1>14, <2>1 DEF DeliveryTypes, LooksKept, ClearStamp, End, Goto
  <1>15. ASSUME NEW d \in Deliveries, ReleaseStamp(d) PROVE LooksKept
    <2>1. mem'[d].waited = mem[d].waited \/ mem'[d].waited = FALSE
      BY <1>0, <1>15 DEF DeliveryTypes, Memory, ReleaseStamp, Recall
    <2> QED BY <1>0, <1>15, <2>1 DEF DeliveryTypes, LooksKept, ReleaseStamp, Recall,
         Goto
  <1>16. ASSUME NEW d \in Deliveries, ReleaseClaim(d) PROVE LooksKept
    <2>1. mem'[d].waited = mem[d].waited \/ mem'[d].waited = FALSE
      BY <1>0, <1>16 DEF DeliveryTypes, Memory, ReleaseClaim, End, Recall
    <2> QED BY <1>0, <1>16, <2>1 DEF DeliveryTypes, LooksKept, ReleaseClaim, End,
         Recall, Goto
  <1>17. ASSUME NEW d \in Deliveries, MarkFailed(d) PROVE LooksKept
    <2>1. mem'[d].waited = mem[d].waited \/ mem'[d].waited = FALSE
      BY <1>0, <1>17 DEF DeliveryTypes, Memory, MarkFailed, End
    <2> QED BY <1>0, <1>17, <2>1 DEF DeliveryTypes, LooksKept, MarkFailed, End, Goto
  <1>18. ASSUME NEW d \in Deliveries, Fault(d) PROVE LooksKept
    <2>1. mem'[d].waited = mem[d].waited \/ mem'[d].waited = FALSE
      BY <1>0, <1>18 DEF DeliveryTypes, Memory, Fault
    <2> QED BY <1>0, <1>18, <2>1 DEF DeliveryTypes, LooksKept, Fault, Goto
  <1>19. ASSUME NEW d \in Deliveries, Crash(d) PROVE LooksKept
    <2>1. mem'[d].waited = mem[d].waited \/ mem'[d].waited = FALSE
      BY <1>0, <1>19 DEF DeliveryTypes, Memory, Crash, End
    <2> QED BY <1>0, <1>19, <2>1 DEF DeliveryTypes, LooksKept, Crash, End, Goto
  <1>20. ASSUME UNCHANGED deliveryVars PROVE LooksKept
    BY <1>20 DEF LooksKept, deliveryVars
  <1>21. \/ \E e \in Editors : EditorStep(e)
         \/ \E c \in Captures : ExpireClaim(c)
         \/ StampCleanRequest \/ ArchiveNote \/ LapseStamp \/ UNCHANGED vars
         => UNCHANGED deliveryVars
    BY DEF EditorStep, SaveStep, LoadRow, LoadBody, BeginBodySave, BeginMetaSave,
       SaveReadBody, SaveReadRow, WriteNoteBody, PutCarryingStamp, PutReread, SaveDies,
       ExpireClaim, StampCleanRequest, ArchiveNote, LapseStamp, vars
  <1>22. CASE AgeStamp
    <2>1. mem' = [x \in Deliveries |-> [mem[x] EXCEPT !.waited = @ \/ x \in {}]]
      BY <1>22 DEF AgeStamp
    <2>2. \A x \in Deliveries : mem'[x].copy = mem[x].copy /\ (mem'[x].waited => mem[x].waited)
      BY <1>0, <2>1 DEF Memory
    <2> QED BY <1>22, <2>2 DEF LooksKept, AgeStamp
  <1> QED BY <1>1, <1>2, <1>3, <1>4, <1>5, <1>6, <1>7, <1>8, <1>9, <1>10, <1>11, <1>12,
         <1>13, <1>14, <1>15, <1>16, <1>17, <1>18, <1>19, <1>20, <1>21, <1>22
      DEF Next, WorkerStep, Time

\* While no live stamp of another stands in the row, nobody but a finished
\* append's own attempts is writing.
LEMMA NobodyWrites ==
    ASSUME AgedIsAbandoned, StampCoversWrite, stamp = None \/ stampAge > 0,
           NEW d \in Deliveries, NEW c \in Captures, Writing(d, c)
    PROVE  appended[c]
  BY NoneAssumption DEF AgedIsAbandoned, StampCoversWrite

\* A step that makes no writer and moves neither the stamp nor a completion back.
StampStands ==
    /\ \A x \in Deliveries, c \in Captures : Writing(x, c)' => Writing(x, c)
    /\ stamp' = stamp
    /\ stampAge' > 0 => stampAge > 0

\* The two parts of StampInv that are about the writers.
Covered == AgedIsAbandoned /\ StampCoversWrite

\* Nobody is writing under no capture at all.
LEMMA WritersHaveCaptures ==
    DeliveryTypes => \A x \in Deliveries : ~Writing(x, None)
  BY NoneAssumption DEF DeliveryTypes, Writing, Stamped, Finishing

\* Such a step keeps the stamp over its write.
LEMMA StampStandsSuffices ==
    ASSUME TypeOK, TypeOK', Covered, FinishedKept, StampStands
    PROVE  Covered'
  <1>1. StampCoversWrite'
    BY DEF Covered, StampCoversWrite, StampStands, FinishedKept
  <1>2. AgedIsAbandoned'
    BY WritersHaveCaptures DEF Covered, AgedIsAbandoned, StampStands, TypeOK, NoteTypes
  <1> QED BY <1>1, <1>2 DEF Covered

\* A whole-row write from a fresh copy drops no stamp that an append still needs.
LEMMA PutNoteCovers ==
    ASSUME TypeOK, TypeOK', Covered, FinishedKept, NEW n \in NoteCopy, Fresh(n), PutNote(n),
           \A x \in Deliveries, c \in Captures : Writing(x, c)' => Writing(x, c)
    PROVE  Covered'
  <1>1. CASE n.stamp # None
    BY <1>1, StampStandsSuffices DEF PutNote, PutNoteHolds, StampStands
  <1>2. CASE n.stamp = None
    <2>1. stamp = None \/ stampAge > 0
      BY <1>2 DEF PutNote, PutNoteHolds, Fresh, FreshAt, TypeOK, NoteTypes
    <2>2. \A x \in Deliveries, c \in Captures : Writing(x, c) => appended[c]
      BY <2>1, NobodyWrites DEF Covered
    <2>3. stampAge' = 0
      BY <1>2 DEF PutNote
    <2> QED BY <2>2, <2>3 DEF Covered, AgedIsAbandoned, StampCoversWrite, FinishedKept
  <1> QED BY <1>1, <1>2

\* Every step of the code keeps the stamp over its write.
LEMMA CoveredNext ==
    ASSUME StampInv, TypeOK', FinishedKept, [Next]_vars
    PROVE  Covered'
  <1>0. /\ TypeOK /\ NoteTypes /\ DeliveryTypes /\ Covered /\ OneHolder
        /\ CopiesFresh /\ ResumedOnlyFinishes
        /\ \A x \in Deliveries : ~Writing(x, None)
    BY WritersHaveCaptures DEF StampInv, ClaimInv, CopyInv, Covered, TypeOK
  <1>s. StampStands => Covered'
    BY <1>0, StampStandsSuffices
  <1> DEFINE NoNewWriter ==
               \A x \in Deliveries, c \in Captures : Writing(x, c)' => Writing(x, c)
  <1>1. ASSUME NEW d \in Deliveries, NEW c \in Captures, StartDelivery(d, c) PROVE Covered'
    <2>1. StampStands
      BY <1>0, <1>1 DEF DeliveryTypes, StampStands, StartDelivery, Goto, Writing,
         Stamped, Finishing, noteVars
    <2> QED BY <1>s, <2>1
  <1>2. ASSUME NEW d \in Deliveries, SetStatus(d) PROVE Covered'
    <2>1. StampStands
      BY <1>0, <1>2 DEF DeliveryTypes, StampStands, SetStatus, End, Recall, Goto,
         Writing, Stamped, Finishing, noteVars
    <2> QED BY <1>s, <2>1
  <1>3. ASSUME NEW d \in Deliveries, ClaimRead(d) PROVE Covered'
    <2>1. StampStands
      BY <1>0, <1>3 DEF DeliveryTypes, StampStands, ClaimRead, ClaimRefused, End,
         Recall, Goto, Writing, Stamped, Finishing, noteVars
    <2> QED BY <1>s, <2>1
  <1>4. ASSUME NEW d \in Deliveries, ClaimPut(d) PROVE Covered'
    <2>1. StampStands
      BY <1>0, <1>4 DEF DeliveryTypes, StampStands, ClaimPut, ClaimRefused, End, Recall,
         Goto, Writing, Stamped, Finishing, noteVars
    <2> QED BY <1>s, <2>1
  <1>5. ASSUME NEW d \in Deliveries, CheckNote(d) PROVE Covered'
    <2>1. StampStands
      BY <1>0, <1>5 DEF DeliveryTypes, StampStands, CheckNote, End, Goto, Writing,
         Stamped, Finishing, noteVars
    <2> QED BY <1>s, <2>1
  <1>6. ASSUME NEW d \in Deliveries, StampRead(d) PROVE Covered'
    <2>1. StampStands
      BY <1>0, <1>6 DEF DeliveryTypes, StampStands, StampRead, Goto, Writing, Stamped,
         Finishing, noteVars
    <2> QED BY <1>s, <2>1
  <1>7. ASSUME NEW d \in Deliveries, StampPut(d) PROVE Covered'
    <2>1. CASE version # mem[d].copy.ver
      <3>1. StampStands
        BY <1>0, <1>7, <2>1

              DEF DeliveryTypes, StampStands, StampPut, Goto, Writing, Stamped,
                  Finishing, noteVars
      <3> QED BY <1>s, <3>1
    <2>2. CASE version = mem[d].copy.ver
      <3>1. stamp' = cap[d] /\ stampAge' = 0
        BY <1>7, <2>2 DEF StampPut
      <3>2. \A x \in Deliveries, c \in Captures : Writing(x, c)' => Writing(x, c) \/ c = cap[d]
        BY <1>0, <1>7 DEF DeliveryTypes, StampPut, Goto, Writing, Stamped, Finishing
      <3>3. stamp \notin {None, cap[d]} => stampAge > 0
        BY <1>7, <2>2 DEF StampInv, StampsAfterLooking, StampPut
      <3>4. \A x \in Deliveries, c \in Captures :
               Writing(x, c) /\ ~appended[c] => c = cap[d]
        BY <1>0, <3>3, NobodyWrites DEF Covered, StampCoversWrite
      <3>5. StampCoversWrite'
        BY <3>1, <3>2, <3>4 DEF StampCoversWrite, FinishedKept
      <3> QED BY <3>1, <3>5 DEF Covered, AgedIsAbandoned
    <2> QED BY <2>1, <2>2
  <1>8. ASSUME NEW d \in Deliveries, BodyRead(d) PROVE Covered'
    <2>1. StampStands
      BY <1>0, <1>8 DEF DeliveryTypes, StampStands, BodyRead, Goto, Writing, Stamped,
         Finishing, noteVars
    <2> QED BY <1>s, <2>1
  <1>9. ASSUME NEW d \in Deliveries, AppendToNote(d) PROVE Covered'
    <2>1. StampStands
      BY <1>0, <1>9 DEF DeliveryTypes, StampStands, AppendToNote, Goto, Writing,
         Stamped, Finishing, noteVars
    <2> QED BY <1>s, <2>1
  <1>10. ASSUME NEW d \in Deliveries, RefreshReadRow(d) PROVE Covered'
    <2>1. StampStands
      BY <1>0, <1>10 DEF DeliveryTypes, StampStands, RefreshReadRow, Goto, Writing,
         Stamped, Finishing, noteVars
    <2> QED BY <1>s, <2>1
  <1>11. ASSUME NEW d \in Deliveries, RefreshReadBody(d) PROVE Covered'
    <2>1. StampStands
      BY <1>0, <1>11 DEF DeliveryTypes, StampStands, RefreshReadBody, Goto, Writing,
         Stamped, Finishing, noteVars
    <2> QED BY <1>s, <2>1
  <1>12. ASSUME NEW d \in Deliveries, RefreshPut(d) PROVE Covered'
    <2>1. NoNewWriter
      BY <1>0, <1>12 DEF DeliveryTypes, RefreshPut, Goto, Writing, Stamped, Finishing
    <2>2. CASE UNCHANGED noteVars
      BY <1>s, <2>1, <2>2 DEF StampStands, noteVars
    <2>3. CASE PutNote(mem[d].copy)
      <3>1. mem[d].copy \in NoteCopy /\ Fresh(mem[d].copy)
        BY <1>0, <1>12, MemoryFields
           DEF DeliveryTypes, CopiesFresh, Refreshing, RefreshPut
      <3> QED BY <1>0, <2>1, <2>3, <3>1, PutNoteCovers
    <2> QED BY <1>12, <2>2, <2>3 DEF RefreshPut
  <1>13. ASSUME NEW d \in Deliveries, CompleteCaptureAppend(d) PROVE Covered'
    <2>1. StampStands
      BY <1>0, <1>13 DEF DeliveryTypes, StampStands, CompleteCaptureAppend, End, Recall,
         Goto, Writing, Stamped, Finishing, noteVars
    <2> QED BY <1>s, <2>1
  <1>14. ASSUME NEW d \in Deliveries, ClearStamp(d) PROVE Covered'
    <2>0. cap[d] \in Captures /\ appended[cap[d]]
      BY <1>0, <1>14 DEF DeliveryTypes, ClearStamp, StampInv, ClearsFinished
    <2>1. NoNewWriter /\ cap[d] \in Captures /\ appended[cap[d]]
      BY <1>0, <1>14, <2>0
         DEF DeliveryTypes, ClearStamp, End, Goto, Writing, Stamped, Finishing
    <2>2. CASE stamp # cap[d]
      BY <1>s, <1>14, <2>1, <2>2 DEF StampStands, ClearStamp, ClearNoteAppend
    <2>3. CASE stamp = cap[d]
      <3>1. stampAge' = 0 /\ \A x \in Deliveries, c \in Captures : Writing(x, c) => appended[c]
        BY <1>0, <1>14, <2>1, <2>3
           DEF ClearStamp, ClearNoteAppend, Covered, StampCoversWrite
      <3> QED BY <2>1, <3>1 DEF Covered, AgedIsAbandoned, StampCoversWrite, FinishedKept
    <2> QED BY <2>2, <2>3
  <1>15. ASSUME NEW d \in Deliveries, ReleaseStamp(d) PROVE Covered'
    <2>1. NoNewWriter /\ cap[d] \in Captures /\ Holds(d, cap[d])
      BY <1>0, <1>15
         DEF DeliveryTypes, ReleaseStamp, Recall, Goto, Writing, Holds, Holding,
         Stamped, Finishing, ResumedOnlyFinishes
    <2>2. CASE stamp' = stamp /\ stampAge' = stampAge
      BY <1>s, <2>1, <2>2 DEF StampStands
    <2>3. CASE stamp = cap[d] /\ stampAge' = 0
      <3>1. \A x \in Deliveries : ~Writing(x, cap[d])
        BY <1>0, <1>15, <2>1
           DEF OneHolder, Writing, Holds, Holding, ReleaseStamp, Stamped, Finishing
      <3>2. \A x \in Deliveries, c \in Captures : Writing(x, c) => appended[c]
        BY <1>0, <2>3, <3>1 DEF Covered, StampCoversWrite
      <3> QED BY <2>1, <2>3, <3>2
         DEF Covered, AgedIsAbandoned, StampCoversWrite, FinishedKept
    <2> QED BY <1>15, <2>2, <2>3 DEF ReleaseStamp, ClearNoteAppend, noteVars
  <1>16. ASSUME NEW d \in Deliveries, ReleaseClaim(d) PROVE Covered'
    <2>1. StampStands
      BY <1>0, <1>16 DEF DeliveryTypes, StampStands, ReleaseClaim, End, Recall, Goto,
         Writing, Stamped, Finishing, noteVars
    <2> QED BY <1>s, <2>1
  <1>17. ASSUME NEW d \in Deliveries, MarkFailed(d) PROVE Covered'
    <2>1. StampStands
      BY <1>0, <1>17 DEF DeliveryTypes, StampStands, MarkFailed, End, Goto, Writing,
         Stamped, Finishing, noteVars
    <2> QED BY <1>s, <2>1
  <1>18. ASSUME NEW d \in Deliveries, Fault(d) PROVE Covered'
    <2>1. StampStands
      BY <1>0, <1>18 DEF DeliveryTypes, StampStands, Fault, Goto, Writing, Stamped,
         Finishing, noteVars
    <2> QED BY <1>s, <2>1
  <1>19. ASSUME NEW d \in Deliveries, Crash(d) PROVE Covered'
    <2>1. StampStands
      BY <1>0, <1>19 DEF DeliveryTypes, StampStands, Crash, End, Goto, Writing, Stamped,
         Finishing, noteVars
    <2> QED BY <1>s, <2>1
  <1>20. ASSUME NEW e \in Editors, PutCarryingStamp(e) PROVE Covered'
    <2>1. NoNewWriter
      BY <1>20 DEF PutCarryingStamp, deliveryVars, Writing
    <2>2. CASE UNCHANGED noteVars
      BY <1>s, <2>1, <2>2 DEF StampStands, noteVars
    <2>3. CASE PutNote(ed[e].row)
      <3>1. ed[e].row \in NoteCopy /\ Fresh(ed[e].row)
        BY <1>0, <1>20, EditingFields
           DEF TypeOK, EditorTypes, CopiesFresh, Answering, PutCarryingStamp
      <3> QED BY <1>0, <2>1, <2>3, <3>1, PutNoteCovers
    <2> QED BY <1>20, <2>2, <2>3 DEF PutCarryingStamp
  <1>21. CASE AgeStamp
    <2>1. NoNewWriter /\ stamp' = stamp /\ \A x \in Deliveries : ~Writing(x, stamp)
      BY <1>21 DEF AgeStamp, Writing
    <2>2. AgedIsAbandoned'
      BY <1>21, <2>1 DEF AgedIsAbandoned, AgeStamp, Writing
    <2>3. StampCoversWrite'
      BY <1>0, <2>1 DEF Covered, StampCoversWrite, FinishedKept
    <2> QED BY <2>2, <2>3 DEF Covered
  <1>22. CASE LapseStamp
    BY <1>s, <1>22 DEF LapseStamp, StampStands, deliveryVars, Writing
  <1>23. ASSUME UNCHANGED <<deliveryVars, stamp, stampAge>> PROVE Covered'
    BY <1>s, <1>23 DEF StampStands, deliveryVars, Writing
  <1>24. ASSUME NEW e \in Editors, EditorStep(e), ~PutCarryingStamp(e)
         PROVE  UNCHANGED <<deliveryVars, stamp, stampAge>>
    BY <1>24 DEF EditorStep, SaveStep, LoadRow, LoadBody, BeginBodySave, BeginMetaSave,
       SaveReadBody, SaveReadRow, WriteNoteBody, PutReread, SaveDies, noteVars
  <1>25. \/ \E c \in Captures : ExpireClaim(c)
         \/ StampCleanRequest \/ ArchiveNote \/ UNCHANGED vars
         => UNCHANGED <<deliveryVars, stamp, stampAge>>
    BY DEF ExpireClaim, StampCleanRequest, ArchiveNote, vars, noteVars
  <1> QED BY <1>1, <1>2, <1>3, <1>4, <1>5, <1>6, <1>7, <1>8, <1>9, <1>10, <1>11, <1>12,
         <1>13, <1>14, <1>15, <1>16, <1>17, <1>18, <1>19, <1>20, <1>21, <1>22, <1>23,
         <1>24, <1>25
      DEF Next, WorkerStep, Time

\* Before the first step nobody writes.
LEMMA StampInit == Init => StampInv
  <1>1. Init => StampCoversWrite /\ AgedIsAbandoned
    BY DEF Init, StampCoversWrite, AgedIsAbandoned, Writing, Stamped, Finishing
  <1> QED BY <1>1, ClaimInit, CopyInit, SmallPartsInit DEF StampInv

\* Every step keeps the whole of StampInv.
LEMMA StampNext == ~PatienceRunsOut /\ StampInv /\ [Next]_vars => StampInv'
  <1> SUFFICES ASSUME ~PatienceRunsOut, StampInv, [Next]_vars PROVE StampInv'
    OBVIOUS
  <1>1. ClaimInv' /\ CopyInv' /\ TypeOK /\ TypeOK'
    BY ClaimNext, CopyNext DEF StampInv, ClaimInv
  <1>2. FinishedKept /\ ClearsFinished'
    BY <1>1, FinishedNext DEF StampInv
  <1>3. StampsAfterLooking' /\ NobodyHurried'
    BY <1>1, LooksNext, RowMoves, LooksKeptSuffices DEF StampInv
  <1>4. Covered'
    BY <1>1, <1>2, CoveredNext
  <1> QED BY <1>1, <1>2, <1>3, <1>4 DEF StampInv, Covered

\* From the stamp to the completion the row names the capture being written,
\* whatever the editors, the duplicates and the releases of other attempts do, as
\* long as no waiter's patience runs out on a holder that is still at work.
THEOREM StampIsKept ==
    ASSUME ~PatienceRunsOut
    PROVE  Spec => []StampCoversWrite
  <1>1. StampInv => StampCoversWrite
    BY DEF StampInv
  <1>2. StampInv /\ [Next]_vars => StampInv'
    BY StampNext
  <1> QED BY <1>1, <1>2, StampInit, PTL DEF Spec

\* Under the same condition a stamp is written over only when no attempt is writing
\* behind it, so no two captures are written into one note at once.
THEOREM LiveStampIsRespected ==
    ASSUME ~PatienceRunsOut
    PROVE  Spec => OnlyDeadStampedOver
  <1> DEFINE OverDead ==
        stamp' \notin {None, stamp} => \A d \in Deliveries : ~Writing(d, stamp)
  <1>1. StampInv /\ [Next]_vars => [OverDead]_vars
    <2> SUFFICES ASSUME StampInv, Next PROVE OverDead
      OBVIOUS
    <2>0. TypeOK /\ \A d \in Deliveries : ~Writing(d, None)
      BY WritersHaveCaptures DEF StampInv, ClaimInv, TypeOK
    <2>1. ASSUME NEW d \in Deliveries, StampPut(d) PROVE OverDead
      BY <2>0, <2>1 DEF StampPut, StampInv, StampsAfterLooking, AgedIsAbandoned, noteVars
    <2>2. (\A d \in Deliveries : ~StampPut(d)) => stamp' \in {None, stamp}
      <3>1. ASSUME NEW d \in Deliveries, WorkerStep(d), ~StampPut(d)
            PROVE  stamp' \in {None, stamp}
        BY <3>1
           DEF WorkerStep, SetStatus, ClaimRead, ClaimPut, CheckNote, StampRead,
               BodyRead,
           AppendToNote, RefreshReadRow, RefreshReadBody, RefreshPut, PutNote, PutNoteHolds,
           CompleteCaptureAppend, ClearStamp, ClearNoteAppend, ReleaseStamp, ReleaseClaim,
           MarkFailed, noteVars
      <3>2. ASSUME NEW d \in Deliveries,
                   (\E c \in Captures : StartDelivery(d, c)) \/ Fault(d) \/ Crash(d)
            PROVE  stamp' \in {None, stamp}
        BY <3>2 DEF StartDelivery, Fault, Crash, noteVars
      <3>3. ASSUME NEW e \in Editors, EditorStep(e) PROVE stamp' \in {None, stamp}
        BY <3>3 DEF EditorStep, SaveStep, LoadRow, LoadBody, BeginBodySave, BeginMetaSave,
           SaveReadBody, SaveReadRow, WriteNoteBody, PutCarryingStamp, PutNote, PutNoteHolds,
           PutReread, SaveDies, noteVars
      <3>4. CASE StampCleanRequest \/ ArchiveNote \/ Time
        BY <3>4
           DEF StampCleanRequest, ArchiveNote, Time, AgeStamp, LapseStamp, ExpireClaim,
           noteVars
      <3> QED BY <3>1, <3>2, <3>3, <3>4 DEF Next
    <2> QED BY <2>1, <2>2
  <1>2. StampInv /\ [Next]_vars => StampInv'
    BY StampNext
  <1> QED BY <1>1, <1>2, StampInit, PTL DEF Spec, OnlyDeadStampedOver

-----------------------------------------------------------------------------
(***************************************************************************)
(* The words of an append against the saves that race it, for every number *)
(* of recordings, deliveries and devices: an append's words land once, no  *)
(* save takes them out unseen and, with one device, no acknowledged edit   *)
(* is lost and what is there can be searched for.                          *)
(*                                                                         *)
(* All of it is proved inside the lease, for waiters whose patience does   *)
(* not run out on a live holder and body PUTs that do not land behind an   *)
(* error: each of the three breaks it, and TLC shows how.                  *)
(***************************************************************************)

-----------------------------------------------------------------------------
(* The inductive invariant, for any number of devices.                     *)

\* The captures whose words are in the body, or were until a person took them out.
Known == Words(body) \cup removed

\* A delivery that holds the claim and has its body write still to come, or gave up.
Unwritten == {"stampRead", "stampPut", "bodyRead", "bodyPut", "unstamp", "unclaim"}
Loaded    == InFlight \cup {"editing"}
Tailing   == {"putRow", "reread", "reput"}

\* Words land once: from then on the claim is held and nobody is before that write.
LandsOnce ==
    \A c \in Known :
       /\ claim[c] = "held"
       /\ \A d \in Deliveries : cap[d] = c => pc[d] \notin Unwritten

\* An attempt past its write, and a finished append, have words that landed.
FinishersLanded ==
    /\ \A c \in Captures : appended[c] => c \in Known
    /\ \A d \in Deliveries : pc[d] \in Finishing => cap[d] \in Known

\* What a device has of the note is what was in the body at some time.
SeenIsKnown ==
    \A e \in Editors :
       TextWords(ed[e].text) \cup TextWords(ed[e].draft) \cup Words(ed[e].stored) \subseteq Known

\* The index row an attempt leaves when it is complete names its words.
Done(c) == appended[c] \/ \E d \in Deliveries : cap[d] = c /\ pc[d] = "complete"

\* A device at the version that stands: the words it has not seen are those of the
\* append under way, and no finished one's.
UpToDate(e) == epc[e] \in Loaded /\ ed[e].ver = version
Seen(e)     == TextWords(ed[e].text) \cup removed
Abreast(e) ==
    UpToDate(e) =>
       /\ \A c \in Words(body) \ Seen(e) : stamp = c
       /\ \A c \in Captures : Done(c) => c \in Seen(e)

\* The row a save answers with: at the version its device loaded, and with the stamp
\* that stands as long as that version does.
RowStandsFor(e) ==
    /\ epc[e] \in Loaded \cup {"loadBody"} => ed[e].ver <= version
    /\ epc[e] \in Answering => ed[e].row.ver = ed[e].ver
    /\ epc[e] \in Answering /\ UpToDate(e) => stamp \in {None, ed[e].row.stamp}

\* What a save carries, step by step.
Carries(e) ==
    /\ epc[e] \in {"etag", "put"} => ed[e].saving = "body"
    /\ epc[e] \in InFlight /\ ed[e].saving = "meta" => ed[e].draft = ed[e].text
    /\ epc[e] = "put" => Words(ed[e].stored) \subseteq Seen(e)
    /\ epc[e] \in Tailing /\ ed[e].saving = "body" =>
          TextWords(ed[e].text) \subseteq TextWords(ed[e].draft) \cup removed

\* No word stands in a device's copy both ways.
Apart(t) == t.verb \cap t.typed = {}

DevicesInStep ==
    \A e \in Editors :
       Abreast(e) /\ RowStandsFor(e) /\ Carries(e) /\ Apart(ed[e].text) /\ Apart(ed[e].draft)

WordsInv ==
    /\ StampInv /\ LandsOnce /\ FinishersLanded /\ SeenIsKnown /\ NoSecondCopy
    /\ stampAge < 2 /\ DevicesInStep

-----------------------------------------------------------------------------
(* What more is so with one device.                                        *)

OneDevice == \A e, f \in Editors : e = f

\* What was taken out is gone from the body and from what may be saved into it.
GoneIsGone ==
    /\ Words(body) \cap removed = {}
    /\ \A e \in Editors :
          /\ epc[e] = "editing" => TextWords(ed[e].text) \cap removed = {}
          /\ epc[e] \in InFlight => TextWords(ed[e].draft) \cap removed = {}
          /\ epc[e] \in {"row", "put"} /\ ed[e].saving = "body" =>
                Words(body) \cap TextWords(ed[e].text) \subseteq Words(ed[e].stored)

\* The edits a device was told are saved are in its copy, and those in the body.
EditsCarried ==
    /\ acked \subseteq body.edits
    /\ \A e \in Editors :
          /\ epc[e] \in Loaded => acked \subseteq ed[e].text.edits /\ ed[e].text.edits \subseteq body.edits
          /\ epc[e] \in InFlight => ed[e].text.edits \subseteq ed[e].draft.edits
          /\ epc[e] \in Tailing => ed[e].draft.edits \subseteq body.edits
          /\ epc[e] \in {"row", "put"} /\ ed[e].saving = "body" => ed[e].stored.edits = body.edits

\* The row's index, and every copy of it that may be written at this version, names
\* the finished words of the body.
IndexNames ==
    /\ \A c \in Words(body) : Done(c) => c \in indexed
    /\ \A d \in Deliveries : pc[d] = "refPut" /\ mem[d].copy.ver = version =>
          \A c \in Words(body) : Done(c) \/ c = cap[d] => c \in mem[d].copy.indexed
    /\ \A e \in Editors :
          /\ epc[e] \in Answering /\ ed[e].saving = "meta" /\ UpToDate(e) => ed[e].row.indexed = indexed
          /\ epc[e] \in Tailing /\ ed[e].saving = "body" => ed[e].row.indexed = TextWords(ed[e].draft)

DeviceInv == WordsInv /\ GoneIsGone /\ EditsCarried /\ IndexNames

-----------------------------------------------------------------------------
(* The operators on bodies and texts.                                      *)

\* A draft carried onto a stored body has the draft's words, its edits, and each
\* word one way only.
LEMMA Carried ==
    ASSUME NEW b \in Body, NEW t \in Text
    PROVE  LET carried == CarryCaptureMarkers(b, t) IN
           /\ Words(carried) = TextWords(t) /\ carried.edits = t.edits
           /\ Apart(t) => carried.under \cap carried.typed = {}
  <1>1. CASE StripCaptureMarkers(b) = t
    BY <1>1 DEF CarryCaptureMarkers, StripCaptureMarkers, Words, TextWords, Apart
  <1>2. CASE StripCaptureMarkers(b) # t
    BY <1>2 DEF CarryCaptureMarkers, Words, TextWords, Apart
  <1> QED BY <1>1, <1>2

\* An append adds its capture's words under its marker, and nothing else.
LEMMA Appended ==
    ASSUME NEW b \in Body, NEW c \in Captures
    PROVE  LET new == WithParagraph(b, c) IN
           /\ Words(new) = Words(b) \cup {c} /\ new.under = b.under \cup {c}
           /\ new.typed = b.typed /\ new.edits = b.edits
  BY DEF Body, WithParagraph, Words

\* What a person makes of a text has no words the text had not, and has each one way.
LEMMA EditedWords ==
    ASSUME NEW t \in Text, NEW u \in Edited(t)
    PROVE  /\ TextWords(u) \subseteq TextWords(t) /\ u.edits = t.edits
           /\ Apart(t) => Apart(u)
  <1>1. CASE u = t
    BY <1>1
  <1>2. ASSUME NEW c \in t.verb, u = [t EXCEPT !.verb = @ \ {c}, !.typed = @ \cup {c}]
        PROVE  /\ TextWords(u) \subseteq TextWords(t) /\ u.edits = t.edits
               /\ Apart(t) => Apart(u)
    BY <1>2 DEF Text, TextWords, Apart
  <1>3. ASSUME NEW c \in TextWords(t), u = [t EXCEPT !.verb = @ \ {c}, !.typed = @ \ {c}]
        PROVE  /\ TextWords(u) \subseteq TextWords(t) /\ u.edits = t.edits
               /\ Apart(t) => Apart(u)
    BY <1>3 DEF Text, TextWords, Apart
  <1> QED BY <1>1, <1>2, <1>3 DEF Edited

-----------------------------------------------------------------------------
(* What any step does to the body, to the row and to who is finished.      *)

Calm == ~LeaseRunsOut /\ ~PatienceRunsOut /\ ~BlindFaults

\* The body write of an append, and that of a save, as their callers see them.
Landing(d) ==
    /\ pc[d] = "bodyPut" /\ pc' = [pc EXCEPT ![d] = "refRow"]
    /\ body' = WithParagraph(body, cap[d]) /\ removed' = removed
    /\ UNCHANGED <<captureVars, noteVars, cap, resumed, editorVars, acked>>
    /\ mem' = [mem EXCEPT ![d].read = EmptyBody]
Saving(e) ==
    /\ epc[e] = "put" /\ epc' = [epc EXCEPT ![e] = "putRow"]
    /\ removed' = removed \cup (TextWords(ed[e].text) \ TextWords(ed[e].draft))
    /\ \/ /\ body' = body
          /\ ed[e].stored.edits = ed[e].draft.edits
          /\ Words(ed[e].stored) = TextWords(ed[e].draft)
       \/ /\ body = ed[e].stored
          /\ body' = CarryCaptureMarkers(ed[e].stored, ed[e].draft)

\* A step leaves the body and what was taken out of it alone, or it is one of those.
LEMMA BodyWrites ==
    ASSUME TypeOK, ~BlindFaults, [Next]_vars
    PROVE  \/ UNCHANGED <<body, removed>>
           \/ \E d \in Deliveries : Landing(d)
           \/ \E e \in Editors : WriteNoteBody(e) /\ Saving(e)
  <1> DEFINE Goal == \/ UNCHANGED <<body, removed>>
                     \/ \E d \in Deliveries : Landing(d)
                     \/ \E e \in Editors : WriteNoteBody(e) /\ Saving(e)
  <1>1. ASSUME NEW d \in Deliveries, AppendToNote(d) PROVE Goal
    BY <1>1 DEF AppendToNote, Landing, Goto, history, editorVars
  <1>2. ASSUME NEW e \in Editors, WriteNoteBody(e) PROVE Goal
    <2>1. ed[e].stored \in Body /\ ed[e].draft \in Text
      BY EditingFields DEF TypeOK, EditorTypes
    <2>2. CASE UNCHANGED <<body, removed>>
      BY <2>2
    <2>3. CASE ~UNCHANGED <<body, removed>>
      <3> DEFINE carried == CarryCaptureMarkers(ed[e].stored, ed[e].draft)
      <3>1. /\ carried = ed[e].stored \/ body = ed[e].stored
            /\ body' = IF carried = ed[e].stored THEN body ELSE carried
            /\ removed' = removed \cup (TextWords(ed[e].text) \ TextWords(ed[e].draft))
            /\ epc[e] = "put" /\ EGoto(e, "putRow")
        BY <1>2, <2>3 DEF WriteNoteBody
      <3>2. Saving(e)
        BY <2>1, <3>1, Carried DEF Saving, EGoto
      <3> QED BY <1>2, <3>2
    <2> QED BY <2>2, <2>3
  <1>3. ASSUME NEW d \in Deliveries,
               \/ (\E c \in Captures : StartDelivery(d, c)) \/ Fault(d) \/ Crash(d)
               \/ (WorkerStep(d) /\ ~AppendToNote(d))
        PROVE  UNCHANGED <<body, removed>>
    BY <1>3 DEF StartDelivery, WorkerStep, SetStatus, ClaimRead, ClaimPut, CheckNote,
       StampRead, StampPut, BodyRead, RefreshReadRow, RefreshReadBody, RefreshPut,
       CompleteCaptureAppend, ClearStamp, ReleaseStamp, ReleaseClaim, MarkFailed, Fault,
       Crash, history
  <1>4. ASSUME NEW e \in Editors, EditorStep(e), ~WriteNoteBody(e)
        PROVE  UNCHANGED <<body, removed>>
    BY <1>4 DEF EditorStep, SaveStep, LoadRow, LoadBody, BeginBodySave, BeginMetaSave,
       SaveReadBody, SaveReadRow, PutCarryingStamp, Acknowledge, PutReread, SaveDies, history
  <1>5. StampCleanRequest \/ ArchiveNote \/ Time \/ UNCHANGED vars
           => UNCHANGED <<body, removed>>
    BY DEF StampCleanRequest, ArchiveNote, Time, AgeStamp, LapseStamp, ExpireClaim, history, vars
  <1> QED BY <1>1, <1>2, <1>3, <1>4, <1>5 DEF Next, WorkerStep

\* Words that were known stay known, and only a landing makes one known.
LEMMA KnownMoves ==
    ASSUME TypeOK, ~BlindFaults, SeenIsKnown, DevicesInStep, [Next]_vars
    PROVE  /\ Known \subseteq Known' /\ removed \subseteq removed'
           /\ \/ Known' = Known
              \/ \E d \in Deliveries : Landing(d) /\ Known' = Known \cup {cap[d]}
           /\ \A c \in Words(body)' :
                 \/ c \in Words(body) \cup removed'
                 \/ \E d \in Deliveries : Landing(d) /\ c = cap[d]
  <1>1. CASE UNCHANGED <<body, removed>>
    BY <1>1 DEF Known
  <1>2. ASSUME NEW d \in Deliveries, Landing(d)
        PROVE  Words(body') = Words(body) \cup {cap[d]} /\ removed' = removed
    <2>1. cap[d] \in Captures /\ body \in Body
      BY <1>2 DEF TypeOK, DeliveryTypes, Landing
    <2> QED BY <1>2, <2>1, Appended DEF Landing
  <1>3. ASSUME NEW e \in Editors, Saving(e)
        PROVE  /\ Known' = Known /\ removed \subseteq removed'
               /\ Words(body') \subseteq Words(body) \cup removed
    <2>1. ed[e].stored \in Body /\ ed[e].draft \in Text
      BY EditingFields DEF TypeOK, EditorTypes
    <2>2. /\ TextWords(ed[e].text) \subseteq Known /\ TextWords(ed[e].draft) \subseteq Known
          /\ Words(ed[e].stored) \subseteq TextWords(ed[e].text) \cup removed
      BY <1>3 DEF Saving, SeenIsKnown, DevicesInStep, Carries, Seen
    <2>3. body' = body \/ (body = ed[e].stored /\ Words(body') = TextWords(ed[e].draft))
      BY <1>3, <2>1, Carried DEF Saving
    <2> QED BY <1>3, <2>2, <2>3 DEF Saving, Known
  <1> QED BY <1>1, <1>2, <1>3, BodyWrites DEF Known

\* Where those who wait to write, and those who have written, come from.
Onward ==
    /\ \A x \in Deliveries : pc'[x] \in Unwritten =>
          cap'[x] = cap[x] /\ (pc[x] \in Unwritten \/ claim[cap[x]] # "held")
    /\ \A x \in Deliveries : pc'[x] \in Finishing =>
          /\ cap'[x] = cap[x]
          /\ pc[x] \in Finishing \/ cap[x] \in Words(body)'
    /\ \A c \in Captures : claim[c] = "held" =>
          claim'[c] = "held" \/ \E d \in Deliveries : cap[d] = c /\ pc[d] = "unclaim"
    /\ \A c \in Captures : appended'[c] =>
          appended[c] \/ \E d \in Deliveries : cap[d] = c /\ pc[d] = "complete"
    /\ \A x \in Deliveries : pc'[x] = "complete" =>
          cap'[x] = cap[x] /\ (pc[x] = "complete" \/ version' = version + 1)

\* Every action of a delivery goes onward, and no other touches it.
LEMMA OnwardNext ==
    ASSUME TypeOK, ~LeaseRunsOut, ~BlindFaults, [Next]_vars
    PROVE  Onward
  <1>0. CaptureTypes /\ DeliveryTypes /\ body \in Body
    BY DEF TypeOK
  <1> USE <1>0 DEF CaptureTypes, DeliveryTypes, Onward, Unwritten, Finishing, captureVars
  <1>1. ASSUME NEW d \in Deliveries, NEW c \in Captures, StartDelivery(d, c) PROVE Onward
    BY <1>1 DEF StartDelivery, Goto
  <1>2. ASSUME NEW d \in Deliveries, SetStatus(d) PROVE Onward
    BY <1>2 DEF SetStatus, PutCapture, End, Recall, Goto
  <1>3. ASSUME NEW d \in Deliveries, ClaimRead(d) PROVE Onward
    BY <1>3 DEF ClaimRead, ClaimRefused, End, Recall, Goto
  <1>4. ASSUME NEW d \in Deliveries, ClaimPut(d) PROVE Onward
    BY <1>4 DEF ClaimPut, Claimable, PutCapture, ClaimRefused, End, Recall, Goto
  <1>5. ASSUME NEW d \in Deliveries, CheckNote(d) PROVE Onward
    BY <1>5 DEF CheckNote, End, Goto, Words
  <1>6. ASSUME NEW d \in Deliveries, StampRead(d) PROVE Onward
    BY <1>6 DEF StampRead, Goto
  <1>7. ASSUME NEW d \in Deliveries, StampPut(d) PROVE Onward
    BY <1>7 DEF StampPut, Goto
  <1>8. ASSUME NEW d \in Deliveries, BodyRead(d) PROVE Onward
    BY <1>8 DEF BodyRead, Goto
  <1>9. ASSUME NEW d \in Deliveries, AppendToNote(d) PROVE Onward
    <2>1. body' = WithParagraph(body, cap[d]) => cap[d] \in Words(body)'
      BY <1>9, Appended DEF AppendToNote
    <2> QED BY <1>9, <2>1 DEF AppendToNote, Goto
  <1>10. ASSUME NEW d \in Deliveries, RefreshReadRow(d) PROVE Onward
    BY <1>10 DEF RefreshReadRow, Goto
  <1>11. ASSUME NEW d \in Deliveries, RefreshReadBody(d) PROVE Onward
    BY <1>11 DEF RefreshReadBody, Goto
  <1>12. ASSUME NEW d \in Deliveries, RefreshPut(d) PROVE Onward
    BY <1>12 DEF RefreshPut, PutNote, Goto
  <1>13. ASSUME NEW d \in Deliveries, CompleteCaptureAppend(d) PROVE Onward
    BY <1>13 DEF CompleteCaptureAppend, End, Recall, Goto
  <1>14. ASSUME NEW d \in Deliveries, ClearStamp(d) PROVE Onward
    BY <1>14 DEF ClearStamp, End, Goto
  <1>15. ASSUME NEW d \in Deliveries, ReleaseStamp(d) PROVE Onward
    BY <1>15 DEF ReleaseStamp, Recall, Goto
  <1>16. ASSUME NEW d \in Deliveries, ReleaseClaim(d) PROVE Onward
    BY <1>16 DEF ReleaseClaim, PutCapture, End, Recall, Goto
  <1>17. ASSUME NEW d \in Deliveries, MarkFailed(d) PROVE Onward
    BY <1>17 DEF MarkFailed, PutCapture, End, Goto
  <1>18. ASSUME NEW d \in Deliveries, Fault(d) PROVE Onward
    BY <1>18 DEF Fault, Goto
  <1>19. ASSUME NEW d \in Deliveries, Crash(d) PROVE Onward
    BY <1>19 DEF Crash, End, Goto
  <1>20. ASSUME UNCHANGED <<captureVars, pc, cap>> PROVE Onward
    BY <1>20
  <1>21. (\E e \in Editors : EditorStep(e)) => UNCHANGED <<captureVars, pc, cap>>
    BY DEF EditorStep, SaveStep, LoadRow, LoadBody, BeginBodySave, BeginMetaSave,
       SaveReadBody, SaveReadRow, WriteNoteBody, PutCarryingStamp, PutReread, SaveDies,
       deliveryVars
  <1>22. StampCleanRequest \/ ArchiveNote \/ Time \/ UNCHANGED vars
            => UNCHANGED <<captureVars, pc, cap>>
    BY DEF StampCleanRequest, ArchiveNote, Time, AgeStamp, LapseStamp, ExpireClaim,
       deliveryVars, vars
  <1> QED BY <1>1, <1>2, <1>3, <1>4, <1>5, <1>6, <1>7, <1>8, <1>9, <1>10, <1>11, <1>12,
         <1>13, <1>14, <1>15, <1>16, <1>17, <1>18, <1>19, <1>20, <1>21, <1>22
      DEF Next, WorkerStep

\* Words land once, from an attempt that holds the claim, and whoever is past that
\* write, or finished, has landed.
LEMMA LandingNext ==
    ASSUME Calm, WordsInv, [Next]_vars
    PROVE  LandsOnce' /\ FinishersLanded'
  <1>0. /\ TypeOK /\ TypeOK' /\ Onward /\ OneHolder /\ OneHolder' /\ ClaimInv'
        /\ CaptureTypes /\ DeliveryTypes /\ DeliveryTypes'
    BY OnwardNext, StampNext DEF Calm, WordsInv, StampInv, ClaimInv, TypeOK
  <1>1. /\ Known \subseteq Known'
        /\ Known' = Known \/ \E d \in Deliveries : Landing(d) /\ Known' = Known \cup {cap[d]}
    BY <1>0, KnownMoves DEF Calm, WordsInv
  <1>2. ASSUME NEW c \in Known
        PROVE  /\ c \in Captures => claim'[c] = "held"
               /\ \A d \in Deliveries : cap'[d] = c => pc'[d] \notin Unwritten
    BY <1>0, <1>2 DEF WordsInv, LandsOnce, Onward, Unwritten
  <1>3. Known \subseteq Captures
    BY <1>0 DEF Known, TypeOK, EditorTypes, Words, Body
  <1>4. ASSUME NEW d \in Deliveries, Landing(d)
        PROVE  /\ claim'[cap[d]] = "held"
               /\ \A x \in Deliveries : cap'[x] = cap[d] => pc'[x] \notin Unwritten
    <2>1. PICK c \in Captures : c = cap[d]
      BY <1>0, <1>4 DEF DeliveryTypes, Landing
    <2>2. Holds(d, c)'
      BY <1>0, <1>4, <2>1 DEF DeliveryTypes, Landing, Holds, Holding, Stamped, Finishing,
         WordsInv, StampInv, ClaimInv, ResumedOnlyFinishes
    <2>3. claim'[c] = "held"
      BY <1>0, <2>2 DEF OneHolder
    <2>4. ASSUME NEW x \in Deliveries, cap'[x] = c, pc'[x] \in Unwritten PROVE FALSE
      <3>1. ~resumed'[x]
        BY <1>0, <2>4 DEF ClaimInv, ResumedOnlyFinishes, Unwritten, Finishing
      <3>2. Holds(x, c)'
        BY <2>4, <3>1 DEF Holds, Unwritten, Holding, Stamped
      <3>3. x = d
        BY <1>0, <2>2, <3>2 DEF OneHolder
      <3> QED BY <1>0, <1>4, <2>4, <3>3 DEF DeliveryTypes, Landing, Unwritten
    <2> QED BY <2>1, <2>3, <2>4
  <1>5. LandsOnce'
    BY <1>1, <1>2, <1>3, <1>4 DEF LandsOnce
  <1>6. Words(body)' \subseteq Known'
    BY DEF Known
  <1>7. FinishersLanded'
    <2>1. ASSUME NEW c \in Captures, appended'[c] PROVE c \in Known'
      BY <1>0, <1>1, <2>1 DEF Onward, WordsInv, FinishersLanded, Finishing
    <2>2. ASSUME NEW d \in Deliveries, pc'[d] \in Finishing PROVE cap'[d] \in Known'
      BY <1>0, <1>1, <1>6, <2>2 DEF Onward, WordsInv, FinishersLanded
    <2> QED BY <2>1, <2>2 DEF FinishersLanded
  <1> QED BY <1>5, <1>7

\* What a step does to the row: it moves the version, or it leaves the stamp, or it
\* clears one whose words are not there or whose append is finished.
NoteMoved ==
    /\ stampAge' < 2
    /\ version' = version \/ version' = version + 1
    /\ version' = version =>
          \/ stamp' = stamp
          \/ stamp' = None /\ (Done(stamp) \/ stamp \notin Words(body))

\* Every step of the row is one of those.
LEMMA NoteMoves ==
    ASSUME Calm, WordsInv, [Next]_vars
    PROVE  NoteMoved
  <1>0. /\ TypeOK /\ NoteTypes /\ DeliveryTypes /\ stampAge < 2
        /\ ClearsFinished /\ LandsOnce
    BY DEF WordsInv, StampInv, ClaimInv, TypeOK
  <1>1. ASSUME UNCHANGED noteVars PROVE NoteMoved
    BY <1>0, <1>1 DEF NoteTypes, noteVars, NoteMoved
  <1>2. ASSUME NEW d \in Deliveries, StampPut(d) PROVE NoteMoved
    BY <1>0, <1>1, <1>2 DEF NoteTypes, StampPut, NoteMoved
  <1>3. ASSUME NEW n, PutNote(n) PROVE NoteMoved
    BY <1>0, <1>3 DEF NoteTypes, PutNote, NoteMoved
  <1>4. ASSUME NEW d \in Deliveries, RefreshPut(d) PROVE NoteMoved
    BY <1>1, <1>3, <1>4 DEF RefreshPut
  <1>5. ASSUME NEW e \in Editors, PutCarryingStamp(e) PROVE NoteMoved
    BY <1>1, <1>3, <1>5 DEF PutCarryingStamp
  <1>6. ASSUME NEW d \in Deliveries, ClearStamp(d) PROVE NoteMoved
    <2>1. Done(cap[d])
      BY <1>0, <1>6 DEF ClearStamp, ClearsFinished, Done
    <2> QED BY <1>0, <1>6, <2>1 DEF NoteTypes, ClearStamp, ClearNoteAppend, NoteMoved
  <1>7. ASSUME NEW d \in Deliveries, ReleaseStamp(d) PROVE NoteMoved
    <2>1. cap[d] \notin Words(body)
      BY <1>0, <1>7 DEF ReleaseStamp, LandsOnce, Unwritten, Known
    <2> QED BY <1>0, <1>1, <1>7, <2>1 DEF NoteTypes, ReleaseStamp, ClearNoteAppend, NoteMoved
  <1>8. CASE StampCleanRequest \/ ArchiveNote \/ AgeStamp \/ LapseStamp
    BY <1>0, <1>8 DEF NoteTypes, StampCleanRequest, ArchiveNote, AgeStamp, LapseStamp,
       NoteMoved, Calm
  <1>9. ASSUME NEW d \in Deliveries,
               \/ \E c \in Captures : StartDelivery(d, c)
               \/ SetStatus(d) \/ ClaimRead(d) \/ ClaimPut(d) \/ CheckNote(d)
               \/ StampRead(d) \/ BodyRead(d) \/ AppendToNote(d)
               \/ RefreshReadRow(d) \/ RefreshReadBody(d) \/ CompleteCaptureAppend(d)
               \/ ReleaseClaim(d) \/ MarkFailed(d) \/ Fault(d) \/ Crash(d)
        PROVE  UNCHANGED noteVars
    BY <1>9 DEF StartDelivery, SetStatus, ClaimRead, ClaimPut, CheckNote, StampRead,
       BodyRead, AppendToNote, RefreshReadRow, RefreshReadBody, CompleteCaptureAppend,
       ReleaseClaim, MarkFailed, Fault, Crash
  <1>10. ASSUME NEW e \in Editors,
                \/ LoadRow(e) \/ LoadBody(e) \/ BeginBodySave(e) \/ BeginMetaSave(e)
                \/ SaveReadBody(e) \/ SaveReadRow(e) \/ WriteNoteBody(e) \/ PutReread(e)
                \/ SaveDies(e)
         PROVE  UNCHANGED noteVars
    BY <1>10 DEF LoadRow, LoadBody, BeginBodySave, BeginMetaSave, SaveReadBody,
       SaveReadRow, WriteNoteBody, PutReread, SaveDies
  <1>11. (\E c \in Captures : ExpireClaim(c)) \/ UNCHANGED vars => UNCHANGED noteVars
    BY DEF ExpireClaim, vars
  <1> QED BY <1>1, <1>2, <1>4, <1>5, <1>6, <1>7, <1>8, <1>9, <1>10, <1>11
      DEF Next, WorkerStep, EditorStep, SaveStep, Time

\* What is in the body after a step was there, or was taken out before, or is the
\* append's whose stamp stands and which nobody has called finished.
LEMMA NewWords ==
    ASSUME Calm, WordsInv, [Next]_vars
    PROVE  /\ removed \subseteq removed'
           /\ \A c \in Words(body)' :
                 c \in Words(body) \cup removed' \/ (c = stamp /\ stamp' = stamp)
           /\ \A c \in Captures : Done(c)' => Done(c) \/ version' = version + 1
  <1>0. TypeOK /\ DeliveryTypes /\ Onward
    BY OnwardNext DEF Calm, WordsInv, StampInv, ClaimInv, TypeOK
  <1>1. ASSUME NEW d \in Deliveries, Landing(d) PROVE cap[d] = stamp /\ stamp' = stamp
    <2>1. cap[d] \in Captures /\ Writing(d, cap[d])
      BY <1>0, <1>1 DEF DeliveryTypes, Landing, Writing, Stamped, Finishing,
         WordsInv, StampInv, ClaimInv, ResumedOnlyFinishes
    <2>2. ~appended[cap[d]]
      BY <1>1, <2>1 DEF WordsInv, FinishersLanded, LandsOnce, Landing, Unwritten
    <2> QED BY <1>1, <2>1, <2>2 DEF WordsInv, StampInv, StampCoversWrite, Landing, noteVars
  <1>2. \A c \in Captures : Done(c)' => Done(c) \/ version' = version + 1
    BY <1>0 DEF Onward, Done
  <1> QED BY <1>0, <1>1, <1>2, KnownMoves DEF Calm, WordsInv

\* A device that does nothing in a step stays in step with the note.
LEMMA Bystander ==
    ASSUME Calm, WordsInv, [Next]_vars, NEW e \in Editors,
           ed'[e] = ed[e], epc'[e] = epc[e]
    PROVE  /\ Abreast(e)' /\ RowStandsFor(e)' /\ Carries(e)'
           /\ Apart(ed[e].text)' /\ Apart(ed[e].draft)'
  <1>0. /\ NoteMoved /\ version \in Nat /\ version' \in Nat /\ ed[e].ver \in Nat
        /\ stamp \in Captures \cup {None}
    BY NoteMoves, EditingFields, StampNext
       DEF Calm, WordsInv, StampInv, ClaimInv, TypeOK, NoteTypes, EditorTypes
  <1>1. /\ Abreast(e) /\ RowStandsFor(e) /\ Carries(e)
        /\ Apart(ed[e].text) /\ Apart(ed[e].draft)
    BY DEF WordsInv, DevicesInStep
  <1>2. epc[e] \in Loaded \cup {"loadBody"} /\ ed[e].ver = version' => version' = version
    BY <1>0, <1>1 DEF NoteMoved, RowStandsFor
  <1>3. Seen(e) \subseteq Seen(e)'
    BY NewWords DEF Seen
  <1>4. Abreast(e)'
    <2> SUFFICES ASSUME UpToDate(e)' PROVE /\ \A c \in Words(body)' \ Seen(e)' : stamp' = c
                                           /\ \A c \in Captures : Done(c)' => c \in Seen(e)'
      BY DEF Abreast
    <2>1. version' = version /\ UpToDate(e)
      BY <1>2 DEF UpToDate
    <2>2. /\ \A c \in Words(body) \ Seen(e) : stamp = c
          /\ \A c \in Captures : Done(c) => c \in Seen(e)
      BY <1>1, <2>1 DEF Abreast
    <2>3. \A c \in Captures : Done(c)' => c \in Seen(e)'
      BY <1>0, <1>3, <2>1, <2>2, NewWords
    <2>4. ASSUME NEW c \in Words(body)', c \notin Seen(e)' PROVE stamp' = c
      <3>1. c \in Words(body) \ Seen(e) \/ (c = stamp /\ stamp' = stamp)
        BY <1>3, <2>4, NewWords DEF Seen
      <3>2. c \in Captures
        BY <2>4, StampNext DEF Calm, WordsInv, StampInv, ClaimInv, TypeOK, Words, Body
      <3> QED BY <1>0, <1>3, <2>1, <2>2, <2>4, <3>1, <3>2 DEF NoteMoved
    <2> QED BY <2>3, <2>4
  <1>5. RowStandsFor(e)'
    BY <1>0, <1>1, <1>2 DEF RowStandsFor, NoteMoved, UpToDate, Answering, Loaded, InFlight
  <1>6. Carries(e)'
    BY <1>1, <1>3, NewWords DEF Carries, Seen
  <1> QED BY <1>1, <1>4, <1>5, <1>6

-----------------------------------------------------------------------------
(* The device that takes a step.                                           *)

\* A device that has given up its copy has nothing to keep in step.
LEMMA Blank ==
    /\ NotEditing.text = NoText /\ NotEditing.draft = NoText /\ NotEditing.stored = EmptyBody
    /\ TextWords(NoText) = {} /\ Words(EmptyBody) = {} /\ Apart(NoText)
    /\ NoText.edits = {} /\ EmptyBody.edits = {}
  BY DEF NotEditing, NoText, EmptyBody, StripCaptureMarkers, TextWords, Words, Apart

\* What each field of a device's copy becomes.
CopiesFromNote(e) ==
    /\ TextWords(ed'[e].text) \subseteq
          TextWords(ed[e].text) \cup TextWords(ed[e].draft) \cup Words(body)
    /\ TextWords(ed'[e].draft) \subseteq TextWords(ed[e].draft) \cup TextWords(ed[e].text)
    /\ Words(ed'[e].stored) \subseteq Words(ed[e].stored) \cup Words(body)

\* A device that moves its copy and its step together, and nobody else's.
OnlyMoves(e) ==
    \A x \in Editors \ {e} : ed'[x] = ed[x] /\ epc'[x] = epc[x]

InStep(e) ==
    Abreast(e) /\ RowStandsFor(e) /\ Carries(e) /\ Apart(ed[e].text) /\ Apart(ed[e].draft)

Stepped(e) == CopiesFromNote(e) /\ OnlyMoves(e) /\ InStep(e)'

\* A device that steps in step, among bystanders, leaves every device in step.
LEMMA SteppedSuffices ==
    ASSUME Calm, WordsInv, [Next]_vars, NEW e \in Editors, Stepped(e)
    PROVE  DevicesInStep' /\ SeenIsKnown'
  <1>1. DevicesInStep'
    BY Bystander DEF Stepped, OnlyMoves, InStep, DevicesInStep
  <1>2. Known \subseteq Known' /\ Words(body) \subseteq Known
    BY KnownMoves DEF Calm, WordsInv, StampInv, ClaimInv, Known
  <1>3. ASSUME NEW x \in Editors
        PROVE  TextWords(ed'[x].text) \cup TextWords(ed'[x].draft) \cup Words(ed'[x].stored)
                  \subseteq Known'
    BY <1>2 DEF WordsInv, SeenIsKnown, Stepped, CopiesFromNote, OnlyMoves
  <1>4. SeenIsKnown'
    BY <1>3 DEF SeenIsKnown
  <1> QED BY <1>1, <1>4

\* Done is about the captures and the deliveries, which no device touches.
LEMMA DevicesFinishNothing ==
    ASSUME UNCHANGED <<captureVars, deliveryVars>>
    PROVE  \A c \in Captures : Done(c)' <=> Done(c)
  BY DEF captureVars, deliveryVars, Done

\* A refused save, and every copy given up.
LEMMA ReloadSteps ==
    ASSUME TypeOK, NEW e \in Editors, Reload(e)
    PROVE  Stepped(e)
  <1>1. /\ ed' = [ed EXCEPT ![e] = [NotEditing EXCEPT !.saves = ed[e].saves]]
        /\ epc' = [epc EXCEPT ![e] = "away"]
    BY DEF Reload, EGoto
  <1>2. /\ epc'[e] = "away" /\ ed'[e].text = NoText /\ ed'[e].draft = NoText
        /\ ed'[e].stored = EmptyBody /\ OnlyMoves(e)
    BY <1>1, Blank DEF TypeOK, EditorTypes, Editing, NotEditing, OnlyMoves
  <1>3. CopiesFromNote(e)
    BY <1>2, Blank DEF CopiesFromNote
  <1>4. InStep(e)'
    BY <1>2, Blank DEF InStep, Abreast, UpToDate, RowStandsFor, Carries, Loaded, InFlight,
       Answering, Tailing
  <1> QED BY <1>2, <1>3, <1>4 DEF Stepped

\* A copy loaded from the note has what is in it; the row is read first, so its version
\* is no later than the text's.
LEMMA LoadSteps ==
    ASSUME Calm, WordsInv, [Next]_vars, NEW e \in Editors, LoadRow(e) \/ LoadBody(e)
    PROVE  Stepped(e)
  <1>0. /\ TypeOK /\ EditorTypes /\ ed[e] \in Editing /\ InStep(e) /\ version \in Nat
        /\ \A c \in Captures : Done(c) => c \in Known
        /\ body \in Body /\ NoSecondCopy
    BY EditingFields DEF WordsInv, StampInv, ClaimInv, TypeOK, EditorTypes, NoteTypes,
       DevicesInStep, InStep, FinishersLanded, Done, Finishing
  <1>1. CASE LoadRow(e)
    <2>1. /\ ed'[e] = [ed[e] EXCEPT !.ver = version] /\ epc'[e] = "loadBody"
          /\ OnlyMoves(e) /\ UNCHANGED <<version, stamp, body, removed>>
      BY <1>0, <1>1 DEF EditorTypes, LoadRow, EGoto, OnlyMoves, noteVars, history
    <2>2. /\ ed'[e].text = ed[e].text /\ ed'[e].draft = ed[e].draft
          /\ ed'[e].stored = ed[e].stored /\ ed'[e].ver = version
      BY <1>0, <2>1 DEF Editing
    <2>3. CopiesFromNote(e)
      BY <2>2 DEF CopiesFromNote
    <2>4. InStep(e)'
      BY <1>0, <2>1, <2>2 DEF InStep, Abreast, UpToDate, RowStandsFor, Carries, Loaded,
         InFlight, Answering, Tailing
    <2> QED BY <2>1, <2>3, <2>4 DEF Stepped
  <1>2. CASE LoadBody(e)
    <2>1. /\ ed'[e] = [ed[e] EXCEPT !.text = StripCaptureMarkers(body)] /\ epc'[e] = "editing"
          /\ epc[e] = "loadBody"
          /\ OnlyMoves(e) /\ UNCHANGED <<version, stamp, body, removed>>
          /\ UNCHANGED <<captureVars, deliveryVars>>
      BY <1>0, <1>2 DEF EditorTypes, LoadBody, EGoto, OnlyMoves, noteVars, history
    <2>2. /\ ed'[e].text = StripCaptureMarkers(body) /\ ed'[e].draft = ed[e].draft
          /\ ed'[e].stored = ed[e].stored /\ ed'[e].ver = ed[e].ver
      BY <1>0, <2>1 DEF Editing
    <2>3. TextWords(ed'[e].text) = Words(body) /\ Apart(ed'[e].text)
      BY <1>0, <2>2 DEF StripCaptureMarkers, TextWords, Words, Apart, NoSecondCopy
    <2>4. CopiesFromNote(e)
      BY <2>2, <2>3 DEF CopiesFromNote
    <2>5. Abreast(e)'
      BY <1>0, <2>1, <2>3, DevicesFinishNothing DEF Abreast, Seen, Known
    <2>6. RowStandsFor(e)' /\ Carries(e)'
      BY <1>0, <2>1, <2>2 DEF InStep, RowStandsFor, Carries, Loaded, InFlight, Answering, Tailing
    <2> QED BY <1>0, <2>1, <2>2, <2>3, <2>4, <2>5, <2>6 DEF Stepped, InStep
  <1> QED BY <1>1, <1>2

\* A save begins from the device's copy, and a metadata save changes no word of it.
LEMMA BeginSteps ==
    ASSUME Calm, WordsInv, [Next]_vars, NEW e \in Editors, BeginBodySave(e) \/ BeginMetaSave(e)
    PROVE  Stepped(e)
  <1>0. /\ TypeOK /\ EditorTypes /\ ed[e] \in Editing /\ InStep(e) /\ ed[e].text \in Text
    BY EditingFields DEF WordsInv, StampInv, ClaimInv, TypeOK, EditorTypes,
       DevicesInStep, InStep
  <1>1. /\ OnlyMoves(e) /\ epc[e] = "editing" /\ epc'[e] \in {"etag", "row"}
        /\ UNCHANGED <<version, stamp, body, removed, captureVars, deliveryVars>>
        /\ epc'[e] = "etag" => ed'[e].saving = "body"
        /\ ed'[e].saving = "meta" => ed'[e].draft = ed'[e].text
        /\ ed'[e].text = ed[e].text /\ ed'[e].stored = ed[e].stored /\ ed'[e].ver = ed[e].ver
        /\ TextWords(ed'[e].draft) \subseteq TextWords(ed[e].text)
        /\ Apart(ed[e].text) => Apart(ed'[e].draft)
    <2>1. CASE BeginBodySave(e)
      <3>1. PICK t \in Edited(ed[e].text) :
               ed'[e] = [ed[e] EXCEPT !.saving = "body", !.saves = @ + 1,
                           !.draft = [t EXCEPT !.edits = @ \cup {<<e, ed[e].saves + 1>>}]]
        BY <1>0, <2>1 DEF EditorTypes, BeginBodySave
      <3>2. /\ t \in Text /\ TextWords(t) \subseteq TextWords(ed[e].text)
            /\ Apart(ed[e].text) => Apart(t)
        BY <1>0, EditedIsText, EditedWords
      <3> DEFINE draft == [t EXCEPT !.edits = @ \cup {<<e, ed[e].saves + 1>>}]
      <3>3. draft.verb = t.verb /\ draft.typed = t.typed
        BY <3>2 DEF Text
      <3>4. /\ ed'[e].draft = draft /\ ed'[e].saving = "body" /\ ed'[e].text = ed[e].text
            /\ ed'[e].stored = ed[e].stored /\ ed'[e].ver = ed[e].ver
        BY <1>0, <3>1 DEF Editing
      <3>5. /\ OnlyMoves(e) /\ epc[e] = "editing" /\ epc'[e] = "etag"
            /\ UNCHANGED <<version, stamp, body, removed, captureVars, deliveryVars>>
        BY <1>0, <2>1 DEF EditorTypes, BeginBodySave, EGoto, OnlyMoves, noteVars, history
      <3> QED BY <3>2, <3>3, <3>4, <3>5 DEF TextWords, Apart
    <2>2. CASE BeginMetaSave(e)
      <3>1. ed'[e] = [ed[e] EXCEPT !.saving = "meta", !.saves = @ + 1, !.draft = ed[e].text]
        BY <1>0, <2>2 DEF EditorTypes, BeginMetaSave
      <3>2. /\ ed'[e].draft = ed[e].text /\ ed'[e].saving = "meta" /\ ed'[e].text = ed[e].text
            /\ ed'[e].stored = ed[e].stored /\ ed'[e].ver = ed[e].ver
        BY <1>0, <3>1 DEF Editing
      <3>3. /\ OnlyMoves(e) /\ epc[e] = "editing" /\ epc'[e] = "row"
            /\ UNCHANGED <<version, stamp, body, removed, captureVars, deliveryVars>>
        BY <1>0, <2>2 DEF EditorTypes, BeginMetaSave, EGoto, OnlyMoves, noteVars, history
      <3> QED BY <3>2, <3>3
    <2> QED BY <2>1, <2>2
  <1>2. CopiesFromNote(e)
    BY <1>1 DEF CopiesFromNote
  <1>3. Abreast(e)'
    BY <1>0, <1>1, DevicesFinishNothing DEF InStep, Abreast, UpToDate, Seen, Loaded, InFlight
  <1>4. RowStandsFor(e)' /\ Carries(e)'
    BY <1>0, <1>1 DEF InStep, RowStandsFor, Carries, Loaded, InFlight, Answering, Tailing
  <1> QED BY <1>0, <1>1, <1>2, <1>3, <1>4 DEF Stepped, InStep

\* A save goes on from the row only at the version it loaded and, when it is one of the
\* body, only while nobody appends: then nothing is stored that it has not seen.
LEMMA ReadSteps ==
    ASSUME Calm, WordsInv, [Next]_vars, NEW e \in Editors, SaveReadBody(e) \/ SaveReadRow(e)
    PROVE  Stepped(e)
  <1>0. /\ TypeOK /\ EditorTypes /\ NoteTypes /\ ed[e] \in Editing /\ InStep(e)
        /\ ed[e].saving \in {"body", "meta"}
        /\ stampAge < 2 /\ body \in Body /\ SeenIsKnown
    BY EditingFields DEF WordsInv, StampInv, ClaimInv, TypeOK, EditorTypes,
       DevicesInStep, InStep
  <1>1. CASE SaveReadBody(e)
    <2>1. /\ ed'[e] = [ed[e] EXCEPT !.stored = body] /\ epc[e] = "etag" /\ epc'[e] = "row"
          /\ OnlyMoves(e) /\ UNCHANGED <<version, stamp, body, removed>>
          /\ UNCHANGED <<captureVars, deliveryVars>>
      BY <1>0, <1>1 DEF EditorTypes, SaveReadBody, EGoto, OnlyMoves, noteVars, history
    <2>2. /\ ed'[e].text = ed[e].text /\ ed'[e].draft = ed[e].draft /\ ed'[e].stored = body
          /\ ed'[e].ver = ed[e].ver /\ ed'[e].saving = ed[e].saving
      BY <1>0, <2>1 DEF Editing
    <2>3. CopiesFromNote(e)
      BY <2>2 DEF CopiesFromNote
    <2>4. Abreast(e)'
      BY <1>0, <2>1, <2>2, DevicesFinishNothing DEF InStep, Abreast, UpToDate, Seen, Loaded, InFlight
    <2>5. RowStandsFor(e)' /\ Carries(e)'
      BY <1>0, <2>1, <2>2 DEF InStep, RowStandsFor, Carries, Loaded, InFlight, Answering, Tailing
    <2> QED BY <1>0, <2>1, <2>2, <2>3, <2>4, <2>5 DEF Stepped, InStep
  <1>2. CASE SaveReadRow(e)
    <2>0. /\ epc[e] = "row" /\ UNCHANGED <<version, stamp, body, removed>>
          /\ UNCHANGED <<captureVars, deliveryVars>>
      BY <1>2 DEF SaveReadRow, noteVars, history
    <2>1. CASE Reload(e)
      BY <1>0, <2>1, ReloadSteps
    <2>2. CASE EGoto(e, "closed") /\ UNCHANGED ed
      <3>1. epc'[e] = "closed" /\ ed'[e] = ed[e] /\ OnlyMoves(e)
        BY <1>0, <2>2 DEF EditorTypes, EGoto, OnlyMoves
      <3>2. CopiesFromNote(e)
        BY <3>1 DEF CopiesFromNote
      <3> QED BY <1>0, <3>1, <3>2 DEF Stepped, InStep, Abreast, UpToDate, RowStandsFor,
                 Carries, Loaded, InFlight, Answering, Tailing
    <2>3. CASE MustWait(e) /\ ed' = [ed EXCEPT ![e].stored = EmptyBody] /\ EGoto(e, "etag")
      <3>1. /\ ed'[e] = [ed[e] EXCEPT !.stored = EmptyBody] /\ epc'[e] = "etag"
            /\ ed[e].saving = "body" /\ OnlyMoves(e)
        BY <1>0, <2>3 DEF EditorTypes, EGoto, OnlyMoves, MustWait
      <3>2. /\ ed'[e].text = ed[e].text /\ ed'[e].draft = ed[e].draft
            /\ ed'[e].stored = EmptyBody
            /\ ed'[e].ver = ed[e].ver /\ ed'[e].saving = ed[e].saving
        BY <1>0, <3>1 DEF Editing
      <3>3. CopiesFromNote(e)
        BY <3>2, Blank DEF CopiesFromNote
      <3>4. Abreast(e)'
        BY <1>0, <2>0, <3>1, <3>2, DevicesFinishNothing
           DEF InStep, Abreast, UpToDate, Seen, Loaded, InFlight
      <3>5. RowStandsFor(e)' /\ Carries(e)'
        BY <1>0, <2>0, <3>1, <3>2
           DEF InStep, RowStandsFor, Carries, Loaded, InFlight, Answering, Tailing
      <3> QED BY <1>0, <3>1, <3>2, <3>3, <3>4, <3>5 DEF Stepped, InStep
    <2>4. CASE /\ ~MustWait(e) /\ version = ed[e].ver
               /\ ed' = [ed EXCEPT ![e].row = SaveRow(e)]
               /\ EGoto(e, IF ed[e].saving = "body" THEN "put" ELSE "putRow")
      <3>1. /\ ed'[e] = [ed[e] EXCEPT !.row = SaveRow(e)] /\ OnlyMoves(e)
            /\ epc'[e] = IF ed[e].saving = "body" THEN "put" ELSE "putRow"
        BY <1>0, <2>4 DEF EditorTypes, EGoto, OnlyMoves
      <3>2. /\ ed'[e].text = ed[e].text /\ ed'[e].draft = ed[e].draft
            /\ ed'[e].stored = ed[e].stored /\ ed'[e].row = SaveRow(e)
            /\ ed'[e].ver = ed[e].ver /\ ed'[e].saving = ed[e].saving
        BY <1>0, <3>1 DEF Editing
      <3>3. CopiesFromNote(e)
        BY <3>2 DEF CopiesFromNote
      <3>4. ed[e].saving = "body" => stamp = None
        BY <1>0, <2>4 DEF MustWait, AppendInProgress, NoteTypes
      <3>5. SaveRow(e).ver = version /\ stamp \in {None, SaveRow(e).stamp}
        BY <1>0, <3>4 DEF SaveRow, NoteRow
      <3>6. Abreast(e)'
        BY <1>0, <2>0, <3>1, <3>2, DevicesFinishNothing
           DEF InStep, Abreast, UpToDate, Seen, Loaded, InFlight
      <3>7. RowStandsFor(e)'
        BY <1>0, <2>0, <2>4, <3>1, <3>2, <3>5
           DEF InStep, RowStandsFor, Loaded, InFlight, Answering
      <3>8. ed[e].saving = "body" => Words(ed[e].stored) \subseteq Seen(e)
        <4> SUFFICES ASSUME ed[e].saving = "body" PROVE Words(ed[e].stored) \subseteq Seen(e)
          OBVIOUS
        <4>1. UpToDate(e)
          BY <2>0, <2>4 DEF UpToDate, Loaded, InFlight
        <4>2. Words(body) \subseteq Captures
          BY <1>0 DEF Body, Words
        <4>3. Words(body) \subseteq Seen(e)
          BY <1>0, <3>4, <4>1, <4>2, NoneAssumption DEF InStep, Abreast
        <4> QED BY <1>0, <4>3 DEF SeenIsKnown, Known, Seen
      <3>9. Carries(e)'
        BY <1>0, <2>0, <3>1, <3>2, <3>8 DEF InStep, Carries, Seen, Loaded, InFlight, Tailing
      <3> QED BY <1>0, <3>1, <3>2, <3>3, <3>6, <3>7, <3>9 DEF Stepped, InStep
    <2> QED BY <1>2, <2>1, <2>2, <2>3, <2>4 DEF SaveReadRow
  <1> QED BY <1>1, <1>2

\* The body write leaves the device what it saved, and the row to write after it.
LEMMA WriteSteps ==
    ASSUME Calm, WordsInv, [Next]_vars, NEW e \in Editors, WriteNoteBody(e)
    PROVE  Stepped(e)
  <1>0. /\ TypeOK /\ EditorTypes /\ ed[e] \in Editing /\ InStep(e) /\ ed[e].row \in NoteCopy
        /\ ed[e].stored \in Body /\ ed[e].draft \in Text /\ SeenIsKnown
    BY EditingFields DEF WordsInv, StampInv, ClaimInv, TypeOK, EditorTypes,
       DevicesInStep, InStep
  <1>1. CASE Reload(e)
    BY <1>0, <1>1, ReloadSteps
  <1>2. CASE ~Reload(e)
    <2>1. /\ ed' = [ed EXCEPT ![e].row.indexed = TextWords(ed[e].draft)]
          /\ epc[e] = "put" /\ epc' = [epc EXCEPT ![e] = "putRow"]
          /\ removed' = removed \cup (TextWords(ed[e].text) \ TextWords(ed[e].draft))
          /\ UNCHANGED <<version, stamp, captureVars, deliveryVars>>
      BY <1>2 DEF WriteNoteBody, EGoto, noteVars
    <2>2. /\ ed'[e] = [ed[e] EXCEPT !.row = [@ EXCEPT !.indexed = TextWords(ed[e].draft)]]
          /\ epc'[e] = "putRow" /\ OnlyMoves(e)
      BY <1>0, <2>1 DEF EditorTypes, OnlyMoves
    <2>3. /\ ed'[e].text = ed[e].text /\ ed'[e].draft = ed[e].draft
          /\ ed'[e].stored = ed[e].stored
          /\ ed'[e].ver = ed[e].ver /\ ed'[e].saving = ed[e].saving
          /\ ed'[e].row = [ed[e].row EXCEPT !.indexed = TextWords(ed[e].draft)]
      BY <1>0, <2>2 DEF Editing
    <2>4. ed'[e].row.ver = ed[e].row.ver /\ ed'[e].row.stamp = ed[e].row.stamp
      BY <1>0, <2>3 DEF NoteCopy
    <2>5. CopiesFromNote(e)
      BY <2>3 DEF CopiesFromNote
    <2>6. Words(body') \subseteq Words(body) \cup removed'
      <3> DEFINE carried == CarryCaptureMarkers(ed[e].stored, ed[e].draft)
      <3>2. CASE body' = carried
        <4>1. Words(body') = TextWords(ed[e].draft)
          BY <1>0, <3>2, Carried
        <4> QED BY <1>0, <2>1, <4>1 DEF SeenIsKnown, Known
      <3> QED BY <1>2, <3>2 DEF WriteNoteBody
    <2>7. Abreast(e)'
      BY <1>0, <2>1, <2>2, <2>3, <2>6, DevicesFinishNothing
         DEF InStep, Abreast, UpToDate, Seen, Loaded, InFlight
    <2>8. RowStandsFor(e)'
      BY <1>0, <2>1, <2>2, <2>3, <2>4
         DEF InStep, RowStandsFor, UpToDate, Loaded, InFlight, Answering
    <2>9. Carries(e)'
      BY <1>0, <2>1, <2>2, <2>3 DEF InStep, Carries, Loaded, InFlight, Tailing
    <2> QED BY <1>0, <2>2, <2>3, <2>5, <2>7, <2>8, <2>9 DEF Stepped, InStep
  <1> QED BY <1>1, <1>2

\* The answer makes the draft the device's copy at the version the row now has; a
\* refused write is read again or given up.
LEMMA PutSteps ==
    ASSUME Calm, WordsInv, [Next]_vars, NEW e \in Editors, PutCarryingStamp(e)
    PROVE  Stepped(e)
  <1>0. /\ TypeOK /\ EditorTypes /\ ed[e] \in Editing /\ InStep(e) /\ ed[e].row \in NoteCopy
        /\ ed[e].saving \in {"body", "meta"} /\ ed[e].ver \in Nat /\ version \in Nat
        /\ stamp \in Captures \cup {None}
    BY EditingFields DEF WordsInv, StampInv, ClaimInv, TypeOK, EditorTypes, NoteTypes,
       DevicesInStep, InStep
  <1>1. CASE Reload(e)
    BY <1>0, <1>1, ReloadSteps
  <1>2. CASE ~PutNoteHolds(ed[e].row) /\ EGoto(e, "reread") /\ UNCHANGED <<noteVars, ed, history>>
    <2>1. /\ epc[e] \in {"putRow", "reput"} /\ epc'[e] = "reread" /\ ed'[e] = ed[e]
          /\ OnlyMoves(e) /\ UNCHANGED <<version, stamp, body, removed>>
          /\ UNCHANGED <<captureVars, deliveryVars>>
      BY <1>0, <1>2 DEF PutCarryingStamp, EditorTypes, EGoto, OnlyMoves, noteVars, history
    <2>2. CopiesFromNote(e)
      BY <2>1 DEF CopiesFromNote
    <2>3. Abreast(e)'
      BY <1>0, <2>1, DevicesFinishNothing DEF InStep, Abreast, UpToDate, Seen, Loaded, InFlight
    <2>4. RowStandsFor(e)' /\ Carries(e)'
      BY <1>0, <2>1 DEF InStep, RowStandsFor, Carries, UpToDate, Loaded, InFlight, Answering,
         Tailing
    <2> QED BY <1>0, <2>1, <2>2, <2>3, <2>4 DEF Stepped, InStep
  <1>3. CASE PutNote(ed[e].row) /\ Acknowledge(e)
    <2>1. /\ version = ed[e].row.ver /\ version' = version + 1 /\ stamp' = ed[e].row.stamp
          /\ epc[e] \in {"putRow", "reput"} /\ UNCHANGED <<body, removed>>
          /\ UNCHANGED <<captureVars, deliveryVars>>
      BY <1>3 DEF PutCarryingStamp, PutNote, PutNoteHolds, Acknowledge
    <2>2. /\ ed'[e] = [NotEditing EXCEPT !.ver = version + 1, !.text = ed[e].draft,
                                         !.saves = ed[e].saves]
          /\ epc'[e] = "editing" /\ OnlyMoves(e)
      BY <1>0, <1>3 DEF Acknowledge, EditorTypes, EGoto, OnlyMoves
    <2>3. /\ ed'[e].text = ed[e].draft /\ ed'[e].draft = NoText /\ ed'[e].stored = EmptyBody
          /\ ed'[e].ver = version'
      BY <2>1, <2>2, Blank DEF NotEditing
    <2>4. CopiesFromNote(e)
      BY <2>3, Blank DEF CopiesFromNote
    <2>5. /\ UpToDate(e) /\ stamp \in {None, ed[e].row.stamp}
          /\ Seen(e) \subseteq TextWords(ed[e].draft) \cup removed
      <3>1. UpToDate(e) /\ stamp \in {None, ed[e].row.stamp}
        BY <1>0, <2>1 DEF InStep, RowStandsFor, UpToDate, Loaded, InFlight, Answering
      <3>2. Seen(e) \subseteq TextWords(ed[e].draft) \cup removed
        BY <1>0, <2>1 DEF InStep, Carries, Tailing, InFlight, Seen
      <3> QED BY <3>1, <3>2
    <2>6. Seen(e) \subseteq Seen(e)'
      BY <2>1, <2>3, <2>5 DEF Seen
    <2>7. Abreast(e)'
      <3>1. \A c \in Captures : Done(c)' => c \in Seen(e)'
        BY <1>0, <2>1, <2>5, <2>6, DevicesFinishNothing DEF InStep, Abreast
      <3>2. ASSUME NEW c \in Words(body)', c \notin Seen(e)' PROVE stamp' = c
        <4>1. stamp = c
          BY <1>0, <2>1, <2>5, <2>6, <3>2 DEF InStep, Abreast
        <4>2. c \in Captures
          BY <1>0, <2>1, <3>2 DEF TypeOK, Words, Body
        <4> QED BY <2>1, <2>5, <4>1, <4>2, NoneAssumption
      <3> QED BY <3>1, <3>2 DEF Abreast
    <2>8. RowStandsFor(e)' /\ Carries(e)'
      BY <1>0, <2>1, <2>2, <2>3 DEF RowStandsFor, Carries, Loaded, InFlight, Answering, Tailing
    <2>9. Apart(ed'[e].text) /\ Apart(ed'[e].draft)
      BY <1>0, <2>3, Blank DEF InStep
    <2> QED BY <2>2, <2>4, <2>7, <2>8, <2>9 DEF Stepped, InStep
  <1> QED BY <1>1, <1>2, <1>3 DEF PutCarryingStamp

\* A write that goes once more takes the tap with it and nothing else; one that dies
\* starts over from the copy it was made of.
LEMMA AgainSteps ==
    ASSUME Calm, WordsInv, [Next]_vars, NEW e \in Editors, PutReread(e) \/ SaveDies(e)
    PROVE  Stepped(e)
  <1>0. /\ TypeOK /\ EditorTypes /\ ed[e] \in Editing /\ InStep(e) /\ ed[e].row \in NoteCopy
        /\ ed[e].saving \in {"body", "meta"}
    BY EditingFields DEF WordsInv, StampInv, ClaimInv, TypeOK, EditorTypes,
       DevicesInStep, InStep
  <1>1. CASE Reload(e)
    BY <1>0, <1>1, ReloadSteps
  <1>2. CASE PutReread(e) /\ ~Reload(e)
    <2>1. /\ ed' = [ed EXCEPT ![e].row.tap = tap] /\ epc[e] = "reread"
          /\ EGoto(e, "reput") /\ UNCHANGED <<version, stamp, body, removed>>
          /\ UNCHANGED <<captureVars, deliveryVars>>
      BY <1>2 DEF PutReread, noteVars, history
    <2>2. /\ ed'[e] = [ed[e] EXCEPT !.row = [@ EXCEPT !.tap = tap]]
          /\ epc'[e] = "reput" /\ OnlyMoves(e)
      BY <1>0, <2>1 DEF EditorTypes, EGoto, OnlyMoves
    <2>3. /\ ed'[e].text = ed[e].text /\ ed'[e].draft = ed[e].draft
          /\ ed'[e].stored = ed[e].stored
          /\ ed'[e].ver = ed[e].ver /\ ed'[e].saving = ed[e].saving
          /\ ed'[e].row = [ed[e].row EXCEPT !.tap = tap]
      BY <1>0, <2>2 DEF Editing
    <2>4. ed'[e].row.ver = ed[e].row.ver /\ ed'[e].row.stamp = ed[e].row.stamp
      BY <1>0, <2>3 DEF NoteCopy
    <2>5. CopiesFromNote(e)
      BY <2>3 DEF CopiesFromNote
    <2>6. Abreast(e)'
      BY <1>0, <2>1, <2>2, <2>3, DevicesFinishNothing
         DEF InStep, Abreast, UpToDate, Seen, Loaded, InFlight
    <2>7. RowStandsFor(e)'
      BY <1>0, <1>2, <2>1, <2>2, <2>3, <2>4
         DEF InStep, RowStandsFor, UpToDate, Loaded, InFlight, Answering
    <2>8. Carries(e)'
      BY <1>0, <2>1, <2>2, <2>3 DEF InStep, Carries, Loaded, InFlight, Tailing
    <2> QED BY <1>0, <2>2, <2>3, <2>5, <2>6, <2>7, <2>8 DEF Stepped, InStep
  <1>3. CASE SaveDies(e)
    <2>1. /\ ed'[e] = [ed[e] EXCEPT !.stored = EmptyBody, !.row = NoCopy, !.saves = @ + 1]
          /\ epc[e] \in {"put", "putRow", "reread", "reput"}
          /\ epc'[e] = IF ed[e].saving = "body" THEN "etag" ELSE "row"
          /\ OnlyMoves(e) /\ UNCHANGED <<version, stamp, body, removed>>
          /\ UNCHANGED <<captureVars, deliveryVars>>
      BY <1>0, <1>3 DEF EditorTypes, SaveDies, EGoto, OnlyMoves, noteVars, history
    <2>2. /\ ed'[e].text = ed[e].text /\ ed'[e].draft = ed[e].draft
          /\ ed'[e].stored = EmptyBody
          /\ ed'[e].ver = ed[e].ver /\ ed'[e].saving = ed[e].saving
      BY <1>0, <2>1 DEF Editing
    <2>3. CopiesFromNote(e)
      BY <2>2, Blank DEF CopiesFromNote
    <2>4. Abreast(e)'
      BY <1>0, <2>1, <2>2, DevicesFinishNothing DEF InStep, Abreast, UpToDate, Seen, Loaded, InFlight
    <2>5. RowStandsFor(e)' /\ Carries(e)'
      BY <1>0, <2>1, <2>2 DEF InStep, RowStandsFor, Carries, Loaded, InFlight, Answering, Tailing
    <2> QED BY <1>0, <2>1, <2>2, <2>3, <2>4, <2>5 DEF Stepped, InStep
  <1> QED BY <1>1, <1>2, <1>3

-----------------------------------------------------------------------------
(* The invariant, for any number of devices.                               *)

\* An append writes words that are nowhere in the body, and a save has each word one
\* way in its draft.
LEMMA ApartNext ==
    ASSUME Calm, WordsInv, [Next]_vars
    PROVE  NoSecondCopy'
  <1>0. TypeOK /\ EditorTypes /\ NoSecondCopy /\ LandsOnce
    BY DEF WordsInv, StampInv, ClaimInv, TypeOK
  <1>1. CASE UNCHANGED <<body, removed>>
    BY <1>0, <1>1 DEF NoSecondCopy
  <1>2. ASSUME NEW d \in Deliveries, Landing(d) PROVE NoSecondCopy'
    <2>1. cap[d] \in Captures /\ body \in Body
      BY <1>0, <1>2 DEF TypeOK, DeliveryTypes, Landing
    <2>2. cap[d] \notin body.typed
      BY <1>0, <1>2 DEF LandsOnce, Known, Words, Landing, Unwritten
    <2> QED BY <1>0, <1>2, <2>1, <2>2, Appended DEF Landing, NoSecondCopy
  <1>3. ASSUME NEW e \in Editors, Saving(e) PROVE NoSecondCopy'
    <2>1. ed[e].stored \in Body /\ ed[e].draft \in Text /\ Apart(ed[e].draft)
      BY <1>0, EditingFields DEF EditorTypes, WordsInv, DevicesInStep
    <2> QED BY <1>0, <1>3, <2>1, Carried DEF Saving, NoSecondCopy
  <1> QED BY <1>0, <1>1, <1>2, <1>3, BodyWrites DEF Calm

\* Nobody has copied anything yet.
LEMMA WordsInit == Init => WordsInv
  <1> SUFFICES ASSUME Init PROVE WordsInv
    OBVIOUS
  <1>1. StampInv /\ stampAge < 2
    BY StampInit DEF Init
  <1>2. Known = {} /\ NoSecondCopy
    BY Blank DEF Init, Known, NoSecondCopy, EmptyBody
  <1>3. LandsOnce /\ FinishersLanded
    BY <1>2 DEF Init, LandsOnce, FinishersLanded, Finishing
  <1>4. ASSUME NEW e \in Editors
        PROVE  epc[e] = "away" /\ ed[e].text = NoText /\ ed[e].draft = NoText
               /\ ed[e].stored = EmptyBody
    BY Blank DEF Init
  <1>5. SeenIsKnown
    BY <1>4, Blank DEF SeenIsKnown
  <1>6. DevicesInStep
    BY <1>4, Blank DEF DevicesInStep, Abreast, UpToDate, RowStandsFor, Carries, Loaded,
       InFlight, Answering, Tailing
  <1> QED BY <1>1, <1>2, <1>3, <1>5, <1>6 DEF WordsInv

\* Whatever is no device's step leaves the devices alone, and what they were told.
LEMMA DeviceOrNot ==
    ASSUME [Next]_vars
    PROVE  (\E e \in Editors : EditorStep(e)) \/ UNCHANGED <<editorVars, acked>>
  <1>1. ASSUME NEW d \in Deliveries,
               \/ \E c \in Captures : StartDelivery(d, c)
               \/ WorkerStep(d) \/ Fault(d) \/ Crash(d)
        PROVE  UNCHANGED <<editorVars, acked>>
    BY <1>1 DEF StartDelivery, WorkerStep, SetStatus, ClaimRead, ClaimPut, CheckNote,
       StampRead, StampPut, BodyRead, AppendToNote, RefreshReadRow, RefreshReadBody,
       RefreshPut, CompleteCaptureAppend, ClearStamp, ReleaseStamp, ReleaseClaim,
       MarkFailed, Fault, Crash, history
  <1>2. StampCleanRequest \/ ArchiveNote \/ Time \/ UNCHANGED vars
           => UNCHANGED <<editorVars, acked>>
    BY DEF StampCleanRequest, ArchiveNote, Time, AgeStamp, LapseStamp, ExpireClaim, vars,
       history
  <1> QED BY <1>1, <1>2 DEF Next

\* A device's step keeps it in step; every other step leaves the devices alone.
LEMMA WordsNext ==
    ASSUME Calm, WordsInv, [Next]_vars
    PROVE  WordsInv'
  <1>1. StampInv' /\ LandsOnce' /\ FinishersLanded' /\ NoSecondCopy' /\ stampAge' < 2
    BY StampNext, LandingNext, ApartNext, NoteMoves DEF Calm, WordsInv, NoteMoved
  <1>2. ASSUME NEW e \in Editors, EditorStep(e) PROVE DevicesInStep' /\ SeenIsKnown'
    <2>1. Stepped(e)
      BY <1>2, LoadSteps, BeginSteps, ReadSteps, WriteSteps, PutSteps, AgainSteps
         DEF EditorStep, SaveStep
    <2> QED BY <2>1, SteppedSuffices
  <1>3. ASSUME UNCHANGED editorVars PROVE DevicesInStep' /\ SeenIsKnown'
    <2>1. ed' = ed /\ epc' = epc
      BY <1>3 DEF editorVars
    <2>2. DevicesInStep'
      BY <2>1, Bystander DEF DevicesInStep
    <2>3. SeenIsKnown'
      BY <2>1, KnownMoves DEF Calm, WordsInv, StampInv, ClaimInv, SeenIsKnown
    <2> QED BY <2>2, <2>3
  <1>4. DevicesInStep' /\ SeenIsKnown'
    BY <1>2, <1>3, DeviceOrNot
  <1> QED BY <1>1, <1>4 DEF WordsInv

\* Inside the lease, no retry, duplicate or resumed attempt leaves a recording's
\* words in the note twice, whatever any number of editors make of the first copy
\* (appendClaimRefused, paragraphInNote, appendToNote).
THEOREM WordsLandOnce ==
    ASSUME Calm
    PROVE  Spec => []NoSecondCopy
  <1>1. Init => WordsInv
    BY WordsInit
  <1>2. WordsInv /\ [Next]_vars => WordsInv'
    BY WordsNext
  <1>3. WordsInv => NoSecondCopy
    BY DEF WordsInv
  <1> QED BY <1>1, <1>2, <1>3, PTL DEF Spec

\* A recording marked appended has its words in the note, unless a person who saw
\* them took them out, however many devices save over it meanwhile (UpdateNote,
\* stampNoteAppend, writeNoteBody).
THEOREM AppendedHasLandedAlways ==
    ASSUME Calm
    PROVE  Spec => []AppendedHasLanded
  <1>1. Init => WordsInv
    BY WordsInit
  <1>2. WordsInv /\ [Next]_vars => WordsInv'
    BY WordsNext
  <1>3. WordsInv => AppendedHasLanded
    BY DEF WordsInv, FinishersLanded, Known, AppendedHasLanded
  <1> QED BY <1>1, <1>2, <1>3, PTL DEF Spec

-----------------------------------------------------------------------------
(* What a device's step does to its copy and to the note.                  *)

Frozen == UNCHANGED <<version, indexed, body, acked, removed>>
SameEdit(e) ==
    /\ ed'[e].text = ed[e].text /\ ed'[e].draft = ed[e].draft
    /\ ed'[e].saving = ed[e].saving /\ ed'[e].ver = ed[e].ver

Leaves(e) == Frozen /\ epc'[e] \in {"away", "loadBody", "closed"}
Loads(e)  == Frozen /\ epc'[e] = "editing" /\ ed'[e].text = StripCaptureMarkers(body)
Begins(e) ==
    /\ Frozen /\ epc[e] = "editing" /\ epc'[e] \in {"etag", "row"}
    /\ ed'[e].text = ed[e].text
    /\ TextWords(ed'[e].draft) \subseteq TextWords(ed[e].text)
    /\ ed[e].text.edits \subseteq ed'[e].draft.edits
    /\ epc'[e] = "row" => ed'[e].saving = "meta"
ReadsBody(e) ==
    /\ Frozen /\ epc[e] = "etag" /\ epc'[e] = "row"
    /\ SameEdit(e) /\ ed'[e].stored = body
GoesOn(e) ==
    /\ Frozen /\ epc[e] \in InFlight /\ epc'[e] \in InFlight /\ SameEdit(e)
    /\ epc'[e] \in {"row", "put"} /\ ed[e].saving = "body" =>
          epc[e] = "row" /\ ed'[e].stored = ed[e].stored
    /\ epc'[e] \in Tailing => epc[e] \in Tailing \/ ed[e].saving = "meta"
    /\ epc'[e] \in Answering =>
          \/ epc[e] = "row" /\ ed'[e].row.indexed = indexed
          \/ epc[e] \in Answering /\ ed'[e].row.indexed = ed[e].row.indexed
SavesBody(e) ==
    /\ Saving(e) /\ SameEdit(e) /\ ed[e].saving = "body"
    /\ ed'[e].row.indexed = TextWords(ed[e].draft)
    /\ UNCHANGED <<version, indexed, acked>>
Answered(e) ==
    /\ epc[e] \in {"putRow", "reput"} /\ epc'[e] = "editing"
    /\ UNCHANGED <<body, removed>>
    /\ version = ed[e].row.ver /\ version' = version + 1 /\ indexed' = ed[e].row.indexed
    /\ ed'[e].text = ed[e].draft
    /\ acked \subseteq acked' /\ acked' \subseteq acked \cup ed[e].draft.edits

\* A device leaves, loads, begins a save, takes it one call further, writes the body
\* or is answered.
DeviceMoved(e) ==
    \/ Leaves(e) \/ Loads(e) \/ Begins(e) \/ ReadsBody(e) \/ GoesOn(e)
    \/ SavesBody(e) \/ Answered(e)

\* Every step of the editor's half of the model is one of those.
LEMMA DeviceMoves ==
    ASSUME Calm, WordsInv, [Next]_vars, NEW e \in Editors, EditorStep(e)
    PROVE  DeviceMoved(e)
  <1>0. /\ TypeOK /\ EditorTypes /\ ed[e] \in Editing /\ ed[e].text \in Text
        /\ ed[e].row \in NoteCopy /\ ed[e].saving \in {"body", "meta"} /\ Carries(e)
    BY EditingFields DEF WordsInv, StampInv, ClaimInv, TypeOK, EditorTypes, DevicesInStep
  <1>1. CASE Reload(e) /\ Frozen
    BY <1>0, <1>1 DEF Reload, EGoto, EditorTypes, DeviceMoved, Leaves
  <1>2. CASE LoadRow(e)
    BY <1>0, <1>2 DEF LoadRow, EGoto, EditorTypes, DeviceMoved, Leaves, Frozen, noteVars, history
  <1>3. CASE LoadBody(e)
    <2>1. /\ ed'[e] = [ed[e] EXCEPT !.text = StripCaptureMarkers(body)]
          /\ epc'[e] = "editing" /\ Frozen
      BY <1>0, <1>3 DEF LoadBody, EGoto, EditorTypes, Frozen, noteVars, history
    <2>2. ed'[e].text = StripCaptureMarkers(body)
      BY <1>0, <2>1 DEF Editing
    <2> QED BY <2>1, <2>2 DEF DeviceMoved, Loads
  <1>4. CASE BeginBodySave(e)
    <2>1. PICK t \in Edited(ed[e].text) :
             ed'[e] = [ed[e] EXCEPT !.saving = "body", !.saves = @ + 1,
                         !.draft = [t EXCEPT !.edits = @ \cup {<<e, ed[e].saves + 1>>}]]
      BY <1>0, <1>4 DEF EditorTypes, BeginBodySave
    <2>2. t \in Text /\ TextWords(t) \subseteq TextWords(ed[e].text) /\ t.edits = ed[e].text.edits
      BY <1>0, EditedIsText, EditedWords
    <2> DEFINE draft == [t EXCEPT !.edits = @ \cup {<<e, ed[e].saves + 1>>}]
    <2>3. draft.verb = t.verb /\ draft.typed = t.typed /\ t.edits \subseteq draft.edits
      BY <2>2 DEF Text
    <2>4. ed'[e].draft = draft /\ ed'[e].text = ed[e].text
      BY <1>0, <2>1 DEF Editing
    <2>5. epc[e] = "editing" /\ epc'[e] = "etag" /\ Frozen
      BY <1>0, <1>4 DEF EditorTypes, BeginBodySave, EGoto, Frozen, noteVars, history
    <2> QED BY <2>2, <2>3, <2>4, <2>5 DEF TextWords, DeviceMoved, Begins
  <1>5. CASE BeginMetaSave(e)
    <2>1. ed'[e] = [ed[e] EXCEPT !.saving = "meta", !.saves = @ + 1, !.draft = ed[e].text]
      BY <1>0, <1>5 DEF EditorTypes, BeginMetaSave
    <2>2. ed'[e].draft = ed[e].text /\ ed'[e].saving = "meta" /\ ed'[e].text = ed[e].text
      BY <1>0, <2>1 DEF Editing
    <2>3. epc[e] = "editing" /\ epc'[e] = "row" /\ Frozen
      BY <1>0, <1>5 DEF EditorTypes, BeginMetaSave, EGoto, Frozen, noteVars, history
    <2> QED BY <2>2, <2>3 DEF DeviceMoved, Begins
  <1>6. CASE SaveReadBody(e)
    <2>1. /\ ed'[e] = [ed[e] EXCEPT !.stored = body] /\ epc[e] = "etag" /\ epc'[e] = "row"
          /\ Frozen
      BY <1>0, <1>6 DEF EditorTypes, SaveReadBody, EGoto, Frozen, noteVars, history
    <2>2. SameEdit(e) /\ ed'[e].stored = body
      BY <1>0, <2>1 DEF Editing, SameEdit
    <2> QED BY <2>1, <2>2 DEF DeviceMoved, ReadsBody
  <1>7. CASE SaveReadRow(e)
    <2>0. epc[e] = "row" /\ Frozen
      BY <1>7 DEF SaveReadRow, Frozen, noteVars, history
    <2>1. CASE Reload(e)
      BY <1>1, <2>0, <2>1
    <2>2. CASE EGoto(e, "closed") /\ UNCHANGED ed
      BY <1>0, <2>0, <2>2 DEF EditorTypes, EGoto, DeviceMoved, Leaves
    <2>3. CASE MustWait(e) /\ ed' = [ed EXCEPT ![e].stored = EmptyBody] /\ EGoto(e, "etag")
      <3>1. ed'[e] = [ed[e] EXCEPT !.stored = EmptyBody] /\ epc'[e] = "etag"
        BY <1>0, <2>3 DEF EditorTypes, EGoto
      <3>2. SameEdit(e)
        BY <1>0, <3>1 DEF Editing, SameEdit
      <3> QED BY <2>0, <3>1, <3>2 DEF DeviceMoved, GoesOn, InFlight, Tailing, Answering
    <2>4. CASE /\ ed' = [ed EXCEPT ![e].row = SaveRow(e)]
               /\ EGoto(e, IF ed[e].saving = "body" THEN "put" ELSE "putRow")
      <3>1. /\ ed'[e] = [ed[e] EXCEPT !.row = SaveRow(e)]
            /\ epc'[e] = IF ed[e].saving = "body" THEN "put" ELSE "putRow"
        BY <1>0, <2>4 DEF EditorTypes, EGoto
      <3>2. SameEdit(e) /\ ed'[e].stored = ed[e].stored /\ ed'[e].row = SaveRow(e)
        BY <1>0, <3>1 DEF Editing, SameEdit
      <3>3. SaveRow(e).indexed = indexed
        BY DEF SaveRow, NoteRow
      <3> QED BY <1>0, <2>0, <3>1, <3>2, <3>3
              DEF DeviceMoved, GoesOn, InFlight, Tailing, Answering
    <2> QED BY <1>7, <2>1, <2>2, <2>3, <2>4 DEF SaveReadRow
  <1>8. CASE WriteNoteBody(e)
    <2>1. CASE Reload(e) /\ UNCHANGED <<body, removed>>
      BY <1>1, <1>8, <2>1 DEF WriteNoteBody, Frozen, noteVars
    <2>2. CASE ~(Reload(e) /\ UNCHANGED <<body, removed>>)
      <3> DEFINE carried == CarryCaptureMarkers(ed[e].stored, ed[e].draft)
      <3>1. /\ ed' = [ed EXCEPT ![e].row.indexed = TextWords(ed[e].draft)]
            /\ epc[e] = "put" /\ epc' = [epc EXCEPT ![e] = "putRow"]
            /\ carried = ed[e].stored \/ body = ed[e].stored
            /\ body' = IF carried = ed[e].stored THEN body ELSE carried
            /\ removed' = removed \cup (TextWords(ed[e].text) \ TextWords(ed[e].draft))
            /\ UNCHANGED <<version, indexed, acked>>
        BY <1>8, <2>2 DEF WriteNoteBody, EGoto, noteVars
      <3>2. Saving(e)
        <4>1. ed[e].stored \in Body /\ ed[e].draft \in Text
          BY <1>0, EditingFields DEF EditorTypes
        <4> QED BY <3>1, <4>1, Carried DEF Saving
      <3>3. ed'[e] = [ed[e] EXCEPT !.row = [@ EXCEPT !.indexed = TextWords(ed[e].draft)]]
        BY <1>0, <3>1 DEF EditorTypes
      <3>4. /\ SameEdit(e)
            /\ ed'[e].row = [ed[e].row EXCEPT !.indexed = TextWords(ed[e].draft)]
        BY <1>0, <3>3 DEF Editing, SameEdit
      <3>5. ed'[e].row.indexed = TextWords(ed[e].draft)
        BY <1>0, <3>4 DEF NoteCopy
      <3> QED BY <1>0, <3>1, <3>2, <3>4, <3>5 DEF Carries, DeviceMoved, SavesBody
    <2> QED BY <2>1, <2>2
  <1>9. CASE PutCarryingStamp(e)
    <2>1. CASE Reload(e) /\ UNCHANGED <<noteVars, history>>
      BY <1>1, <1>9, <2>1 DEF PutCarryingStamp, Frozen, noteVars, history
    <2>2. CASE EGoto(e, "reread") /\ UNCHANGED <<noteVars, ed, history>>
      <3>1. epc[e] \in {"putRow", "reput"} /\ epc'[e] = "reread" /\ ed'[e] = ed[e] /\ Frozen
        BY <1>0, <1>9, <2>2 DEF PutCarryingStamp, EditorTypes, EGoto, Frozen, noteVars, history
      <3> QED BY <3>1 DEF DeviceMoved, GoesOn, SameEdit, InFlight, Tailing, Answering
    <2>3. CASE PutNote(ed[e].row) /\ Acknowledge(e)
      <3>1. /\ epc[e] \in {"putRow", "reput"} /\ UNCHANGED <<body, removed>>
            /\ version = ed[e].row.ver /\ version' = version + 1
            /\ indexed' = ed[e].row.indexed
            /\ acked \subseteq acked' /\ acked' \subseteq acked \cup ed[e].draft.edits
        BY <1>9, <2>3 DEF PutCarryingStamp, PutNote, PutNoteHolds, Acknowledge
      <3>2. /\ ed'[e] = [NotEditing EXCEPT !.ver = version + 1, !.text = ed[e].draft,
                                           !.saves = ed[e].saves]
            /\ epc'[e] = "editing"
        BY <1>0, <2>3 DEF Acknowledge, EditorTypes, EGoto
      <3>3. ed'[e].text = ed[e].draft
        BY <3>2 DEF NotEditing
      <3> QED BY <3>1, <3>2, <3>3 DEF DeviceMoved, Answered
    <2> QED BY <1>9, <2>1, <2>2, <2>3 DEF PutCarryingStamp
  <1>10. CASE PutReread(e)
    <2>0. epc[e] = "reread" /\ Frozen
      BY <1>10 DEF PutReread, Frozen, noteVars, history
    <2>1. CASE Reload(e)
      BY <1>1, <2>0, <2>1
    <2>2. CASE ed' = [ed EXCEPT ![e].row.tap = tap] /\ EGoto(e, "reput")
      <3>1. ed'[e] = [ed[e] EXCEPT !.row = [@ EXCEPT !.tap = tap]] /\ epc'[e] = "reput"
        BY <1>0, <2>2 DEF EditorTypes, EGoto
      <3>2. SameEdit(e) /\ ed'[e].row = [ed[e].row EXCEPT !.tap = tap]
        BY <1>0, <3>1 DEF Editing, SameEdit
      <3>3. ed'[e].row.indexed = ed[e].row.indexed
        BY <1>0, <3>2 DEF NoteCopy
      <3> QED BY <2>0, <3>1, <3>2, <3>3 DEF DeviceMoved, GoesOn, InFlight, Tailing, Answering
    <2> QED BY <1>10, <2>1, <2>2 DEF PutReread
  <1>11. CASE SaveDies(e)
    <2>1. /\ ed'[e] = [ed[e] EXCEPT !.stored = EmptyBody, !.row = NoCopy, !.saves = @ + 1]
          /\ epc[e] \in {"put", "putRow", "reread", "reput"}
          /\ epc'[e] = IF ed[e].saving = "body" THEN "etag" ELSE "row"
          /\ Frozen
      BY <1>0, <1>11 DEF EditorTypes, SaveDies, EGoto, Frozen, noteVars, history
    <2>2. SameEdit(e)
      BY <1>0, <2>1 DEF Editing, SameEdit
    <2> QED BY <1>0, <2>1, <2>2 DEF DeviceMoved, GoesOn, InFlight, Tailing, Answering
  <1> QED BY <1>2, <1>3, <1>4, <1>5, <1>6, <1>7, <1>8, <1>9, <1>10, <1>11
      DEF EditorStep, SaveStep

-----------------------------------------------------------------------------
(* One device: what is gone stays gone.                                    *)

\* Outside a device's step the note gains an append's words or stays as it is.
LEMMA NoteOrLanding ==
    ASSUME Calm, WordsInv, [Next]_vars, \A e \in Editors : ~EditorStep(e)
    PROVE  UNCHANGED <<body, removed>> \/ \E d \in Deliveries : Landing(d)
  BY BodyWrites DEF Calm, WordsInv, StampInv, ClaimInv, EditorStep, SaveStep

\* What an append writes is in nobody's copy, and nobody took it out.
LEMMA LandsAfresh ==
    ASSUME Calm, WordsInv, NEW d \in Deliveries, Landing(d)
    PROVE  /\ cap[d] \in Captures /\ cap[d] \notin Known /\ ~Done(cap[d])
           /\ \A e \in Editors : /\ cap[d] \notin TextWords(ed[e].text)
                                 /\ cap[d] \notin TextWords(ed[e].draft)
                                 /\ cap[d] \notin Words(ed[e].stored)
           /\ Words(body') = Words(body) \cup {cap[d]} /\ body'.edits = body.edits
           /\ removed' = removed
  <1>1. cap[d] \in Captures /\ body \in Body
    BY DEF WordsInv, StampInv, ClaimInv, TypeOK, DeliveryTypes, Landing
  <1>2. cap[d] \notin Known
    BY DEF WordsInv, LandsOnce, Landing, Unwritten
  <1>3. ~Done(cap[d])
    BY <1>1, <1>2 DEF WordsInv, FinishersLanded, Done, Finishing
  <1> QED BY <1>1, <1>2, <1>3, Appended DEF WordsInv, SeenIsKnown, Landing

\* The words a save leaves in the body were in it.
LEMMA SaveAddsNone ==
    ASSUME Calm, DeviceInv, NEW e \in Editors, SavesBody(e)
    PROVE  /\ Words(body') \subseteq Words(body) /\ Words(body') \cap removed' = {}
           /\ TextWords(ed[e].draft) \cap removed' = {}
           /\ body'.edits = ed[e].draft.edits
  <1>0. /\ ed[e].stored \in Body /\ ed[e].draft \in Text /\ epc[e] = "put"
        /\ TextWords(ed[e].draft) \subseteq Known
        /\ TextWords(ed[e].draft) \cap removed = {} /\ Words(body) \cap removed = {}
        /\ Words(body) \cap TextWords(ed[e].text) \subseteq Words(ed[e].stored)
        /\ ed[e].stored.edits = body.edits
    BY EditingFields DEF DeviceInv, WordsInv, StampInv, ClaimInv, TypeOK, EditorTypes,
       SeenIsKnown, GoneIsGone, EditsCarried, SavesBody, Saving, InFlight
  <1>1. removed' = removed \cup (TextWords(ed[e].text) \ TextWords(ed[e].draft))
    BY DEF SavesBody, Saving
  <1>2. CASE body' = body /\ Words(ed[e].stored) = TextWords(ed[e].draft)
             /\ ed[e].stored.edits = ed[e].draft.edits
    BY <1>0, <1>1, <1>2
  <1>3. CASE body' = CarryCaptureMarkers(ed[e].stored, ed[e].draft)
    <2>1. Words(body') = TextWords(ed[e].draft) /\ body'.edits = ed[e].draft.edits
      BY <1>0, <1>3, Carried
    <2> QED BY <1>0, <1>1, <2>1 DEF Known
  <1> QED BY <1>2, <1>3 DEF SavesBody, Saving

\* What a person took out does not come back, in the body or in what may be saved.
LEMMA GoneNext ==
    ASSUME Calm, OneDevice, DeviceInv, [Next]_vars
    PROVE  GoneIsGone'
  <1>0. /\ WordsInv /\ GoneIsGone /\ SeenIsKnown /\ Words(body) \cap removed = {}
    BY DEF DeviceInv, WordsInv, GoneIsGone
  <1>1. ASSUME NEW e \in Editors, EditorStep(e) PROVE GoneIsGone'
    <2> DEFINE G == /\ epc[e] = "editing" => TextWords(ed[e].text) \cap removed = {}
                    /\ epc[e] \in InFlight => TextWords(ed[e].draft) \cap removed = {}
                    /\ epc[e] \in {"row", "put"} /\ ed[e].saving = "body" =>
                          Words(body) \cap TextWords(ed[e].text) \subseteq Words(ed[e].stored)
    <2>1. G
      BY <1>0 DEF GoneIsGone
    <2>2. SUFFICES (Words(body) \cap removed = {})' /\ G'
      BY DEF OneDevice, GoneIsGone
    <2>3. CASE Leaves(e)
      BY <1>0, <2>1, <2>3 DEF Leaves, Frozen, InFlight
    <2>4. CASE Loads(e)
      <3>1. TextWords(ed'[e].text) = Words(body)
        BY <2>4 DEF Loads, StripCaptureMarkers, TextWords, Words
      <3> QED BY <1>0, <2>1, <2>4, <3>1 DEF Loads, Frozen, InFlight
    <2>5. CASE Begins(e)
      BY <1>0, <2>1, <2>5 DEF Begins, Frozen, InFlight
    <2>6. CASE ReadsBody(e)
      BY <1>0, <2>1, <2>6 DEF ReadsBody, Frozen, SameEdit, InFlight
    <2>7. CASE GoesOn(e)
      BY <1>0, <2>1, <2>7 DEF GoesOn, Frozen, SameEdit, InFlight
    <2>8. CASE SavesBody(e)
      <3>1. epc'[e] = "putRow" /\ SameEdit(e)
        BY <2>8 DEF SavesBody, Saving, WordsInv, StampInv, ClaimInv, TypeOK, EditorTypes,
           DeviceInv
      <3> QED BY <2>8, <3>1, SaveAddsNone DEF SameEdit
    <2>9. CASE Answered(e)
      BY <1>0, <2>1, <2>9 DEF Answered, InFlight
    <2> QED BY <1>0, <1>1, <2>3, <2>4, <2>5, <2>6, <2>7, <2>8, <2>9, DeviceMoves
            DEF DeviceMoved
  <1>2. CASE \A e \in Editors : ~EditorStep(e)
    <2>1. epc' = epc /\ ed' = ed
      BY <1>2, DeviceOrNot DEF editorVars
    <2>2. CASE UNCHANGED <<body, removed>>
      BY <1>0, <2>1, <2>2 DEF GoneIsGone
    <2>3. ASSUME NEW d \in Deliveries, Landing(d) PROVE GoneIsGone'
      <3>1. (Words(body) \cap removed = {})'
        BY <1>0, <2>3, LandsAfresh DEF Known
      <3>2. ASSUME NEW e \in Editors
            PROVE  Words(body') \cap TextWords(ed[e].text) = Words(body) \cap TextWords(ed[e].text)
        BY <1>0, <2>3, LandsAfresh
      <3> QED BY <1>0, <2>1, <2>3, <3>1, <3>2, LandsAfresh DEF GoneIsGone
    <2> QED BY <1>0, <1>2, <2>2, <2>3, NoteOrLanding
  <1> QED BY <1>1, <1>2

\* An edit that was acknowledged is in the text of the device it was told to, and
\* from there in each of its drafts.
LEMMA EditsNext ==
    ASSUME Calm, OneDevice, DeviceInv, [Next]_vars
    PROVE  EditsCarried'
  <1>0. WordsInv /\ EditsCarried /\ acked \subseteq body.edits
    BY DEF DeviceInv, EditsCarried
  <1>1. ASSUME NEW e \in Editors, EditorStep(e) PROVE EditsCarried'
    <2> DEFINE G == /\ epc[e] \in Loaded => /\ acked \subseteq ed[e].text.edits
                                            /\ ed[e].text.edits \subseteq body.edits
                    /\ epc[e] \in InFlight => ed[e].text.edits \subseteq ed[e].draft.edits
                    /\ epc[e] \in Tailing => ed[e].draft.edits \subseteq body.edits
                    /\ epc[e] \in {"row", "put"} /\ ed[e].saving = "body" =>
                          ed[e].stored.edits = body.edits
    <2>1. G
      BY <1>0 DEF EditsCarried
    <2>2. SUFFICES (acked \subseteq body.edits)' /\ G'
      BY DEF OneDevice, EditsCarried
    <2>3. CASE Leaves(e)
      BY <1>0, <2>1, <2>3 DEF Leaves, Frozen, Loaded, InFlight, Tailing
    <2>4. CASE Loads(e)
      <3>1. ed'[e].text.edits = body.edits
        BY <2>4 DEF Loads, StripCaptureMarkers
      <3> QED BY <1>0, <2>1, <2>4, <3>1 DEF Loads, Frozen, Loaded, InFlight, Tailing
    <2>5. CASE Begins(e)
      BY <1>0, <2>1, <2>5 DEF Begins, Frozen, Loaded, InFlight, Tailing
    <2>6. CASE ReadsBody(e)
      BY <1>0, <2>1, <2>6 DEF ReadsBody, Frozen, SameEdit, Loaded, InFlight, Tailing
    <2>7. CASE GoesOn(e)
      <3>1. ed[e].saving = "meta" => ed[e].draft = ed[e].text
        BY <1>0, <2>7 DEF GoesOn, WordsInv, DevicesInStep, Carries
      <3> QED BY <1>0, <2>1, <2>7, <3>1 DEF GoesOn, Frozen, SameEdit, Loaded, InFlight, Tailing
    <2>8. CASE SavesBody(e)
      <3>1. epc[e] = "put" /\ epc'[e] = "putRow" /\ SameEdit(e) /\ acked' = acked
        BY <2>8 DEF SavesBody, Saving, WordsInv, StampInv, ClaimInv, TypeOK, EditorTypes,
           DeviceInv
      <3> QED BY <1>0, <2>1, <2>8, <3>1, SaveAddsNone DEF SameEdit, Loaded, InFlight, Tailing
    <2>9. CASE Answered(e)
      BY <1>0, <2>1, <2>9 DEF Answered, Loaded, InFlight, Tailing
    <2> QED BY <1>0, <1>1, <2>3, <2>4, <2>5, <2>6, <2>7, <2>8, <2>9, DeviceMoves
            DEF DeviceMoved
  <1>2. CASE \A e \in Editors : ~EditorStep(e)
    <2>1. epc' = epc /\ ed' = ed /\ acked' = acked
      BY <1>2, DeviceOrNot DEF editorVars
    <2>2. body'.edits = body.edits
      BY <1>0, <1>2, NoteOrLanding, LandsAfresh
    <2> QED BY <1>0, <2>1, <2>2 DEF EditsCarried
  <1> QED BY <1>1, <1>2

-----------------------------------------------------------------------------
(* One device: what is in the note can be searched for.                    *)

\* A refresh writes the index it made of the body over the row it read.
Refreshed(d) ==
    /\ pc[d] = "refPut" /\ pc' = [pc EXCEPT ![d] = "complete"]
    /\ mem[d].copy.ver = version /\ version' = version + 1
    /\ indexed' = mem[d].copy.indexed
    /\ UNCHANGED <<body, cap, appended>>

IndexMoved ==
    /\ \A x \in Deliveries : pc'[x] = "refPut" =>
          /\ cap'[x] = cap[x]
          /\ \/ pc[x] = "refPut" /\ mem'[x].copy = mem[x].copy
             \/ UNCHANGED <<body, version, indexed>> /\ mem'[x].copy.indexed = Words(body)
    /\ \A x \in Deliveries : pc'[x] = "complete" =>
          cap'[x] = cap[x] /\ (pc[x] = "complete" \/ Refreshed(x))
    /\ \/ UNCHANGED <<version, indexed>>
       \/ version' = version + 1 /\ indexed' = indexed
       \/ \E d \in Deliveries : Refreshed(d)
       \/ \E e \in Editors : EditorStep(e)

\* Where the index on the row, and every copy of it, come from.
LEMMA IndexMoves ==
    ASSUME TypeOK, [Next]_vars
    PROVE  IndexMoved
  <1>0. DeliveryTypes
    BY DEF TypeOK
  <1> USE <1>0 DEF DeliveryTypes, IndexMoved, noteVars
  <1>1. ASSUME NEW d \in Deliveries, NEW c \in Captures, StartDelivery(d, c) PROVE IndexMoved
    BY <1>1 DEF StartDelivery, Goto
  <1>2. ASSUME NEW d \in Deliveries, SetStatus(d) PROVE IndexMoved
    BY <1>2 DEF SetStatus, PutCapture, End, Recall, Goto
  <1>3. ASSUME NEW d \in Deliveries, ClaimRead(d) PROVE IndexMoved
    BY <1>3 DEF ClaimRead, ClaimRefused, End, Recall, Goto
  <1>4. ASSUME NEW d \in Deliveries, ClaimPut(d) PROVE IndexMoved
    BY <1>4 DEF ClaimPut, PutCapture, ClaimRefused, End, Recall, Goto
  <1>5. ASSUME NEW d \in Deliveries, CheckNote(d) PROVE IndexMoved
    BY <1>5 DEF CheckNote, End, Goto
  <1>6. ASSUME NEW d \in Deliveries, StampRead(d) PROVE IndexMoved
    BY <1>6 DEF StampRead, Goto
  <1>7. ASSUME NEW d \in Deliveries, StampPut(d) PROVE IndexMoved
    BY <1>7 DEF StampPut, Goto
  <1>8. ASSUME NEW d \in Deliveries, BodyRead(d) PROVE IndexMoved
    BY <1>8 DEF BodyRead, Goto
  <1>9. ASSUME NEW d \in Deliveries, AppendToNote(d) PROVE IndexMoved
    BY <1>9 DEF AppendToNote, Goto
  <1>10. ASSUME NEW d \in Deliveries, RefreshReadRow(d) PROVE IndexMoved
    BY <1>10 DEF RefreshReadRow, Goto
  <1>11. ASSUME NEW d \in Deliveries, CompleteCaptureAppend(d) PROVE IndexMoved
    BY <1>11 DEF CompleteCaptureAppend, End, Recall, Goto
  <1>12. ASSUME NEW d \in Deliveries, ClearStamp(d) PROVE IndexMoved
    BY <1>12 DEF ClearStamp, ClearNoteAppend, End, Goto
  <1>13. ASSUME NEW d \in Deliveries, ReleaseStamp(d) PROVE IndexMoved
    BY <1>13 DEF ReleaseStamp, ClearNoteAppend, Recall, Goto
  <1>14. ASSUME NEW d \in Deliveries, ReleaseClaim(d) PROVE IndexMoved
    BY <1>14 DEF ReleaseClaim, PutCapture, End, Recall, Goto
  <1>15. ASSUME NEW d \in Deliveries, MarkFailed(d) PROVE IndexMoved
    BY <1>15 DEF MarkFailed, PutCapture, End, Goto
  <1>16. ASSUME NEW d \in Deliveries, Fault(d) PROVE IndexMoved
    BY <1>16 DEF Fault, Goto
  <1>17. ASSUME NEW d \in Deliveries, Crash(d) PROVE IndexMoved
    BY <1>17 DEF Crash, End, Goto
  <1>18. ASSUME NEW d \in Deliveries, RefreshReadBody(d) PROVE IndexMoved
    <2>1. mem[d] \in Memory /\ mem[d].copy \in NoteCopy
      BY MemoryFields
    <2>2. mem'[d] = [mem[d] EXCEPT !.copy = [@ EXCEPT !.indexed = Words(body)]]
      BY <1>18 DEF RefreshReadBody
    <2>3. mem'[d].copy = [mem[d].copy EXCEPT !.indexed = Words(body)]
      BY <2>1, <2>2 DEF Memory
    <2>4. mem'[d].copy.indexed = Words(body)
      BY <2>1, <2>3 DEF NoteCopy
    <2> QED BY <1>18, <2>4 DEF RefreshReadBody, Goto
  <1>19. ASSUME NEW d \in Deliveries, RefreshPut(d) PROVE IndexMoved
    <2>1. CASE PutNote(mem[d].copy) /\ Goto(d, "complete")
      <3>1. Refreshed(d)
        BY <1>19, <2>1 DEF RefreshPut, PutNote, PutNoteHolds, Goto, Refreshed, captureVars
      <3> QED BY <1>19, <3>1 DEF Refreshed, RefreshPut
    <2>2. CASE Goto(d, "refRow") /\ UNCHANGED noteVars
      BY <1>19, <2>2 DEF RefreshPut, Goto
    <2> QED BY <1>19, <2>1, <2>2 DEF RefreshPut
  <1>20. ASSUME NEW e \in Editors, EditorStep(e) PROVE IndexMoved
    <2>1. UNCHANGED deliveryVars
      BY <1>20 DEF EditorStep, SaveStep, LoadRow, LoadBody, BeginBodySave, BeginMetaSave,
         SaveReadBody, SaveReadRow, WriteNoteBody, PutCarryingStamp, PutReread, SaveDies
    <2> QED BY <1>20, <2>1 DEF deliveryVars
  <1>21. CASE AgeStamp
    <2>1. \A x \in Deliveries : mem'[x].copy = mem[x].copy
      <3>1. PICK W \in SUBSET Deliveries :
               mem' = [d \in Deliveries |-> [mem[d] EXCEPT !.waited = @ \/ d \in W]]
        BY <1>21 DEF AgeStamp
      <3>2. ASSUME NEW x \in Deliveries PROVE mem'[x].copy = mem[x].copy
        <4>1. mem[x] \in Memory /\ mem'[x] = [mem[x] EXCEPT !.waited = @ \/ x \in W]
          BY <3>1
        <4> QED BY <4>1 DEF Memory
      <3> QED BY <3>2
    <2> QED BY <1>21, <2>1 DEF AgeStamp
  <1>22. StampCleanRequest \/ ArchiveNote \/ LapseStamp \/ (\E c \in Captures : ExpireClaim(c))
            \/ UNCHANGED vars => IndexMoved
    BY DEF StampCleanRequest, ArchiveNote, LapseStamp, ExpireClaim, deliveryVars, vars
  <1> QED BY <1>1, <1>2, <1>3, <1>4, <1>5, <1>6, <1>7, <1>8, <1>9, <1>10, <1>11, <1>12, <1>13, <1>14, <1>15, <1>16, <1>17, <1>18, <1>19, <1>20, <1>21, <1>22
      DEF Next, WorkerStep, Time

\* An append is done once a refresh has put its words in the index.
LEMMA DoneMoves ==
    ASSUME Calm, WordsInv, [Next]_vars, NEW c \in Captures, Done(c)'
    PROVE  Done(c) \/ \E d \in Deliveries : Refreshed(d) /\ cap[d] = c
  <1>1. Onward /\ IndexMoved
    BY OnwardNext, IndexMoves DEF Calm, WordsInv, StampInv, ClaimInv
  <1> QED BY <1>1 DEF Onward, IndexMoved, Done

\* The index a device's save leaves on the row.
IndexOf(e) ==
    /\ epc[e] \in Answering /\ ed[e].saving = "meta" /\ UpToDate(e) => ed[e].row.indexed = indexed
    /\ epc[e] \in Tailing /\ ed[e].saving = "body" => ed[e].row.indexed = TextWords(ed[e].draft)

\* A save's index is that of the draft it wrote, which has every finished word, and a
\* metadata save hands on the one it read.
LEMMA SaveIndexes ==
    ASSUME Calm, OneDevice, DeviceInv, [Next]_vars, NEW e \in Editors, EditorStep(e)
    PROVE  IndexNames'
  <1>0. /\ WordsInv /\ TypeOK /\ IndexNames /\ IndexOf(e) /\ DeviceMoved(e)
        /\ \A c \in Words(body) : Done(c) => c \in indexed
        /\ version \in Nat /\ ed[e].ver \in Nat /\ ed[e].saving \in {"body", "meta"}
    BY DeviceMoves, EditingFields DEF DeviceInv, WordsInv, StampInv, ClaimInv, TypeOK,
       NoteTypes, EditorTypes, IndexNames, IndexOf
  <1>1. UNCHANGED <<captureVars, deliveryVars>>
    BY DEF EditorStep, SaveStep, LoadRow, LoadBody, BeginBodySave, BeginMetaSave,
       SaveReadBody, SaveReadRow, WriteNoteBody, PutCarryingStamp, PutReread, SaveDies
  <1>2. pc' = pc /\ cap' = cap /\ mem' = mem /\ (\A c : Done(c)' <=> Done(c))
    BY <1>1 DEF deliveryVars, captureVars, Done
  <1> DEFINE DoneIndexed == \A c \in Words(body) : Done(c) => c \in indexed
             CopiesIndexed == \A d \in Deliveries : pc[d] = "refPut" /\ mem[d].copy.ver = version =>
                \A c \in Words(body) : Done(c) \/ c = cap[d] => c \in mem[d].copy.indexed
  <1>3. SUFFICES DoneIndexed' /\ CopiesIndexed' /\ IndexOf(e)'
    BY DEF OneDevice, IndexNames, IndexOf
  <1>4. ASSUME UNCHANGED <<version, indexed>>, Words(body') \subseteq Words(body)
        PROVE  DoneIndexed' /\ CopiesIndexed'
    BY <1>0, <1>2, <1>4 DEF IndexNames
  <1>5. CASE Leaves(e) \/ Loads(e) \/ Begins(e) \/ ReadsBody(e)
    <2>1. UNCHANGED <<version, indexed>> /\ Words(body') \subseteq Words(body)
      BY <1>5 DEF Leaves, Loads, Begins, ReadsBody, Frozen
    <2>2. epc'[e] \notin Answering /\ epc'[e] \notin Tailing
      BY <1>5 DEF Leaves, Loads, Begins, ReadsBody, Answering, Tailing
    <2> QED BY <1>4, <2>1, <2>2 DEF IndexOf
  <1>6. CASE GoesOn(e)
    <2>1. UNCHANGED <<version, indexed>> /\ Words(body') \subseteq Words(body)
      BY <1>6 DEF GoesOn, Frozen
    <2>2. IndexOf(e)'
      BY <1>0, <1>6 DEF IndexOf, GoesOn, Frozen, SameEdit, UpToDate, Loaded, InFlight,
         Answering, Tailing
    <2> QED BY <1>4, <2>1, <2>2
  <1>7. CASE SavesBody(e)
    <2>1. UNCHANGED <<version, indexed>> /\ Words(body') \subseteq Words(body)
      BY <1>7, SaveAddsNone DEF SavesBody
    <2>2. IndexOf(e)'
      BY <1>0, <1>7 DEF IndexOf, SavesBody, SameEdit
    <2> QED BY <1>4, <2>1, <2>2
  <1>8. CASE Answered(e)
    <2>1. DoneIndexed'
      <3> SUFFICES ASSUME NEW c \in Words(body), Done(c) PROVE c \in ed[e].row.indexed
        BY <1>2, <1>8 DEF Answered
      <3>1. UpToDate(e) /\ epc[e] \in Answering /\ epc[e] \in Tailing
        BY <1>0, <1>8 DEF Answered, WordsInv, DevicesInStep, RowStandsFor, UpToDate, Loaded,
           InFlight, Answering, Tailing
      <3>2. CASE ed[e].saving = "meta"
        BY <1>0, <3>1, <3>2 DEF IndexOf
      <3>3. CASE ed[e].saving = "body"
        <4>1. c \in Seen(e) /\ c \notin removed
          BY <1>0, <3>1 DEF WordsInv, DevicesInStep, Abreast, TypeOK, Words, Body,
             DeviceInv, GoneIsGone
        <4>2. TextWords(ed[e].text) \subseteq TextWords(ed[e].draft) \cup removed
          BY <1>0, <3>1, <3>3 DEF WordsInv, DevicesInStep, Carries
        <4> QED BY <1>0, <3>1, <3>3, <4>1, <4>2 DEF IndexOf, Seen
      <3> QED BY <1>0, <3>2, <3>3
    <2>2. ASSUME NEW d \in Deliveries, pc[d] = "refPut" PROVE mem[d].copy.ver # version'
      <3>1. mem[d].copy.ver <= version /\ mem[d].copy.ver \in Nat
        BY <1>0, <2>2, MemoryFields, NoteCopyFields
           DEF WordsInv, StampInv, CopyInv, CopiesFresh, Refreshing, Fresh, FreshAt, TypeOK,
               DeliveryTypes
      <3> QED BY <1>0, <1>8, <3>1 DEF Answered
    <2>3. epc'[e] \notin Answering /\ epc'[e] \notin Tailing
      BY <1>8 DEF Answered, Answering, Tailing
    <2> QED BY <1>2, <2>1, <2>2, <2>3 DEF IndexOf
  <1> QED BY <1>0, <1>5, <1>6, <1>7, <1>8 DEF DeviceMoved

\* A refresh's index is of the body it read, under the version of the row it writes.
LEMMA IndexNext ==
    ASSUME Calm, OneDevice, DeviceInv, [Next]_vars
    PROVE  IndexNames'
  <1>0. /\ WordsInv /\ TypeOK /\ IndexNames /\ version \in Nat /\ IndexMoved
        /\ FinishersLanded
    BY IndexMoves DEF DeviceInv, WordsInv, StampInv, ClaimInv, TypeOK, NoteTypes
  <1>1. CASE \E e \in Editors : EditorStep(e)
    BY <1>1, SaveIndexes
  <1>2. CASE \A e \in Editors : ~EditorStep(e)
    <2>1. epc' = epc /\ ed' = ed
      BY <1>2, DeviceOrNot DEF editorVars
    <2>2. \A x \in Deliveries : pc[x] = "refPut" =>
             mem[x].copy.ver <= version /\ mem[x].copy.ver \in Nat
      BY <1>0, MemoryFields, NoteCopyFields
         DEF WordsInv, StampInv, CopyInv, CopiesFresh, Refreshing, Fresh, FreshAt, TypeOK,
             DeliveryTypes
    <2>3. \A e \in Editors :
             epc[e] \in Loaded => ed[e].ver <= version /\ ed[e].ver \in Nat
      BY <1>0, EditingFields DEF WordsInv, DevicesInStep, RowStandsFor, TypeOK, EditorTypes
    <2>4. ASSUME version' = version + 1
          PROVE  /\ \A x \in Deliveries : ~(pc'[x] = "refPut" /\ mem'[x].copy.ver = version')
                 /\ \A e \in Editors : ~UpToDate(e)'
                 /\ UNCHANGED <<body, removed>>
      <3>1. \A x \in Deliveries : ~(pc'[x] = "refPut" /\ mem'[x].copy.ver = version')
        BY <1>0, <2>2, <2>4 DEF IndexMoved
      <3>2. \A e \in Editors : ~UpToDate(e)'
        BY <1>0, <2>1, <2>3, <2>4 DEF UpToDate
      <3>3. UNCHANGED <<body, removed>>
        BY <1>0, <1>2, <2>4, NoteOrLanding DEF Landing, noteVars
      <3> QED BY <3>1, <3>2, <3>3
    <2>5. ASSUME NEW d \in Deliveries, Refreshed(d) PROVE IndexNames'
      <3>1. version' = version + 1 /\ indexed' = mem[d].copy.indexed
        BY <2>5 DEF Refreshed
      <3>2. \A c \in Captures : Done(c)' => Done(c) \/ c = cap[d]
        BY <1>0, <2>5 DEF Refreshed, Done, TypeOK, DeliveryTypes
      <3>3. Words(body) \subseteq Captures
        BY <1>0 DEF TypeOK, Body, Words
      <3>4. \A c \in Words(body)' : Done(c)' => c \in indexed'
        BY <1>0, <2>4, <2>5, <3>1, <3>2, <3>3 DEF IndexNames, Refreshed
      <3> QED BY <1>0, <2>1, <2>4, <3>1, <3>4 DEF IndexNames
    <2>6. CASE \A d \in Deliveries : ~Refreshed(d)
      <3>1. \A c \in Captures : Done(c)' => Done(c)
        BY <1>0, <2>6, DoneMoves
      <3>2. Words(body) \subseteq Captures /\ Words(body') \subseteq Captures
        BY <1>0, TypeNext DEF TypeOK, Body, Words
      <3>3. CASE version' = version + 1 /\ indexed' = indexed
        <4>1. \A c \in Words(body)' : Done(c)' => c \in indexed'
          BY <1>0, <2>4, <3>1, <3>2, <3>3 DEF IndexNames
        <4> QED BY <1>0, <2>1, <2>4, <3>3, <4>1 DEF IndexNames
      <3>4. CASE UNCHANGED <<version, indexed>>
        <4>1. \A c \in Words(body') : c \in Words(body) \/ (c \notin Known /\ ~Done(c))
          BY <1>0, <1>2, NoteOrLanding, LandsAfresh
        <4>2. \A c \in Words(body)' : Done(c)' => c \in indexed'
          BY <1>0, <3>1, <3>2, <3>4, <4>1 DEF IndexNames
        <4>3. ASSUME NEW x \in Deliveries, pc'[x] = "refPut", mem'[x].copy.ver = version',
                     NEW c \in Words(body'), Done(c)' \/ c = cap'[x]
              PROVE  c \in mem'[x].copy.indexed
          <5>1. CASE body' = body /\ mem'[x].copy.indexed = Words(body)
            BY <4>3, <5>1
          <5>2. CASE pc[x] = "refPut" /\ mem'[x].copy = mem[x].copy
            <6>1. cap'[x] = cap[x] /\ cap[x] \in Known
              BY <1>0, <4>3, <5>2 DEF IndexMoved, FinishersLanded, Finishing
            <6>2. c \in Words(body) /\ (Done(c) \/ c = cap[x])
              BY <3>1, <3>2, <4>1, <4>3, <6>1
            <6> QED BY <1>0, <3>4, <4>3, <5>2, <6>2 DEF IndexNames
          <5> QED BY <1>0, <4>3, <5>1, <5>2 DEF IndexMoved
        <4>4. \A e \in Editors : IndexOf(e)'
          BY <1>0, <2>1, <3>4 DEF IndexNames, IndexOf, UpToDate
        <4> QED BY <4>2, <4>3, <4>4 DEF IndexNames, IndexOf
      <3> QED BY <1>0, <1>2, <2>6, <3>3, <3>4 DEF IndexMoved
    <2> QED BY <2>5, <2>6
  <1> QED BY <1>1, <1>2

\* At first there is nothing to lose.
LEMMA DeviceInit == Init => DeviceInv
  <1> SUFFICES ASSUME Init PROVE DeviceInv
    OBVIOUS
  <1>1. /\ WordsInv /\ Words(body) = {} /\ acked = {}
        /\ \A d \in Deliveries : pc[d] = "idle"
        /\ \A e \in Editors : epc[e] = "away"
    BY WordsInit, Blank DEF Init
  <1>2. GoneIsGone
    BY <1>1 DEF GoneIsGone, InFlight
  <1>3. EditsCarried
    BY <1>1 DEF EditsCarried, Loaded, InFlight, Tailing
  <1>4. IndexNames
    BY <1>1 DEF IndexNames, Answering, Tailing
  <1> QED BY <1>1, <1>2, <1>3, <1>4 DEF DeviceInv

\* One device's invariant is kept by every step.
LEMMA DeviceNext ==
    ASSUME Calm, OneDevice, DeviceInv, [Next]_vars
    PROVE  DeviceInv'
  BY WordsNext, GoneNext, EditsNext, IndexNext DEF DeviceInv

\* With one device, a recording marked appended has its words in the note unless a
\* person took them out, and when nothing is running search finds them (UpdateNote,
\* RefreshNoteIndex, writeNoteBody).
THEOREM AppendedIsThereAlways ==
    ASSUME Calm, OneDevice
    PROVE  Spec => []AppendedIsThere
  <1>1. Init => DeviceInv
    BY DeviceInit
  <1>2. DeviceInv /\ [Next]_vars => DeviceInv'
    BY DeviceNext
  <1>3. DeviceInv => AppendedIsThere
    BY DEF DeviceInv, WordsInv, FinishersLanded, Known, IndexNames, Done, AppendedIsThere,
       AppendedHasLanded, CompletedIsIndexed
  <1> QED BY <1>1, <1>2, <1>3, PTL DEF Spec

\* With one device, an edit the API acknowledged stays in the note, whatever appends,
\* retries and repeated saves come after it (UpdateNote).
THEOREM AckedEditsAreKept ==
    ASSUME Calm, OneDevice
    PROVE  Spec => []AckedEditsSurvive
  <1>1. Init => DeviceInv
    BY DeviceInit
  <1>2. DeviceInv /\ [Next]_vars => DeviceInv'
    BY DeviceNext
  <1>3. DeviceInv => AckedEditsSurvive
    BY DEF DeviceInv, EditsCarried, AckedEditsSurvive
  <1> QED BY <1>1, <1>2, <1>3, PTL DEF Spec

\* With one device, a save takes a recording's words out of the note only when the
\* copy it was made of had them (UpdateNote, writeNoteBody).
THEOREM NothingIsErasedUnseen ==
    ASSUME Calm, OneDevice
    PROVE  Spec => SaveErasesOnlySeen
  <1> DEFINE ErasesSeen ==
        \A c \in Words(body) \ Words(body') :
           \/ \E e \in Editors : epc[e] = "put" /\ c \in TextWords(ed[e].text)
           \/ ~appended[c] /\ \A d \in Deliveries : cap[d] = c => pc[d] \notin Finishing
  <1>1. Init => DeviceInv
    BY DeviceInit
  <1>2. DeviceInv /\ [Next]_vars => DeviceInv'
    BY DeviceNext
  <1>3. DeviceInv /\ [Next]_vars => [ErasesSeen]_vars
    <2> SUFFICES ASSUME DeviceInv, Next, NEW c \in Words(body) \ Words(body')
                 PROVE  \E e \in Editors : epc[e] = "put" /\ c \in TextWords(ed[e].text)
      OBVIOUS
    <2>0. WordsInv /\ TypeOK /\ Words(body) \cap removed = {}
      BY DEF DeviceInv, WordsInv, StampInv, ClaimInv, GoneIsGone
    <2>1. ASSUME NEW d \in Deliveries, Landing(d) PROVE FALSE
      BY <2>0, <2>1, LandsAfresh
    <2>2. ASSUME NEW e \in Editors, Saving(e)
          PROVE  epc[e] = "put" /\ c \in TextWords(ed[e].text)
      <3>1. body = ed[e].stored /\ epc[e] = "put"
        BY <2>2 DEF Saving
      <3>2. Words(ed[e].stored) \subseteq Seen(e)
        BY <2>0, <3>1 DEF WordsInv, DevicesInStep, Carries
      <3> QED BY <2>0, <3>1, <3>2 DEF Seen
    <2> QED BY <2>0, <2>1, <2>2, BodyWrites DEF Calm
  <1> QED BY <1>1, <1>2, <1>3, PTL DEF Spec, SaveErasesOnlySeen

=============================================================================
