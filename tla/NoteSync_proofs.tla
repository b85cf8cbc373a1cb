-------------------------- MODULE NoteSync_proofs --------------------------
(***************************************************************************)
(* The note editor, its queue and the server, proved for any number of     *)
(* words, visits, attempts, mishaps and news: first the types, with any of *)
(* the windows open, then what is kept with every window closed.           *)
(*                                                                         *)
(* Inv says of the screen that acts, the copy, the queue and the pass over *)
(* it what each knows of the note at the version it would write over, and  *)
(* where each word it shows is found again.  One lemma per action shows    *)
(* that the action keeps it; the four theorems at the end are read off it. *)
(***************************************************************************)
EXTENDS NoteSync, FiniteSetTheorems, TLAPS

-----------------------------------------------------------------------------
(* The types *)

Sets == UNION {[F -> SUBSET Words] : F \in SUBSET Fields}
Patches == [ver : Nat, set : Sets]
Notes == [draft : Drafts, ver : Nat]
Theirs == [draft : Drafts, ver : Nat, adds : BOOLEAN]
Models == [draft : Drafts, saved : Drafts, server : Drafts, ver : Nat, state : SaveStates,
           theirs : Theirs]
Seens == [read : BOOLEAN, entry : Entries]
Sights == [seen : Seens, base : Nat]
Answers == {"idle", "sent", "stored", "refused", "busy", "failed", "offline"}
Flights == [pc : Answers, sent : Drafts, patch : Patches, sees : Sights]
Editors == [at : {"out", "open", "gone"}, m : Models,
            timer : {"none", "debounce", "wait", "spent"}, sees : Sights, again : BOOLEAN,
            rebased : BOOLEAN, waits : Nat, asking : BOOLEAN, fly : Flights]

NoteType == note \in [ver : Nat, draft : Drafts, busy : BOOLEAN, done : SUBSET Nat]
DevType == dev \in [q : Entries, seen : Seens, cache : Notes, keys : Nat]
EdType == ed \in [Visits -> Editors]
NetType == net \in [online : BOOLEAN, flush : [pc : Answers, entry : Entries]]
TruthType == truth \in [typed : SUBSET Own, landed : SUBSET Words, given : SUBSET Words]
LeftType == left \in [mishaps : Nat, news : Nat]

(* An entry a pass sends has a try left: a refusal or a failure retires it   *)
(* at the ceiling, and never past it.                                        *)
TriesLeft == net.flush.pc # "idle" => net.flush.entry.tries < MaxAttempts

Types == NoteType /\ DevType /\ EdType /\ NetType /\ TruthType /\ LeftType /\ TriesLeft

-----------------------------------------------------------------------------
(* The operators *)

LEMMA NothingIsASet == <<>> \in Sets /\ DOMAIN <<>> = {}
<1>1. <<>> \in [{} -> SUBSET Words]
  OBVIOUS
<1>. QED
  BY <1>1 DEF Sets

LEMMA SetsAreSets ==
  ASSUME NEW s, NEW F \in SUBSET Fields, s \in [F -> SUBSET Words]
  PROVE  s \in Sets
BY DEF Sets

LEMMA SetsHaveFields ==
  ASSUME NEW s \in Sets
  PROVE  /\ DOMAIN s \in SUBSET Fields /\ s \in [DOMAIN s -> SUBSET Words]
         /\ \A f \in DOMAIN s : s[f] \in SUBSET Words
BY DEF Sets

LEMMA DraftsAreSets == Drafts \subseteq Sets
BY DEF Drafts, Sets

LEMMA OverIsASet ==
  ASSUME NEW s \in Sets, NEW t \in Sets
  PROVE  Upon(s, t) \in Sets /\ DOMAIN (Upon(s, t)) = DOMAIN s \cup DOMAIN t
<1>. DEFINE D == DOMAIN s \cup DOMAIN t
<1>1. D \in SUBSET Fields
  BY SetsHaveFields
<1>2. Upon(s, t) \in [D -> SUBSET Words]
  BY SetsHaveFields DEF Upon
<1>. QED
  BY <1>1, <1>2, SetsAreSets

LEMMA OverADraft ==
  ASSUME NEW s \in Sets, NEW d \in Drafts
  PROVE  Upon(s, d) \in Drafts
<1>1. DOMAIN s \cup DOMAIN d = Fields
  BY SetsHaveFields DEF Drafts
<1>. QED
  BY <1>1, SetsHaveFields DEF Drafts, Upon

LEMMA ADraftOver ==
  ASSUME NEW d \in Drafts, NEW s \in Sets
  PROVE  Upon(d, s) = d
<1>1. DOMAIN s \subseteq Fields /\ DOMAIN d = Fields
  BY SetsHaveFields DEF Drafts
<1>. QED
  BY <1>1 DEF Drafts, Upon

LEMMA BlankIsADraft == Blank \in Drafts
BY DEF Blank, Drafts

LEMMA NothingIsTyped ==
  /\ NoEntry \in Entries /\ Unread \in Seens /\ Blind \in Sights /\ Grounded \in Flights
  /\ Note(Blank, 0) \in Notes
<1>1. 0 \in 0..MaxAttempts
  BY BoundsAssumption
<1>2. NoEntry \in Entries
  BY <1>1, NothingIsASet DEF NoEntry, Patch, Entries, Sets
<1>3. Unread \in Seens /\ Blind \in Sights
  BY <1>2 DEF Unread, Blind, Sees, Seens, Sights
<1>4. Patch(0, <<>>) \in Patches
  BY NothingIsASet DEF Patch, Patches
<1>. QED
  BY <1>2, <1>3, <1>4, BlankIsADraft DEF Grounded, Flights, Answers, Note, Notes

LEMMA EntriesAreEntries ==
  /\ Entries = [key : Nat, patch : Patches, tries : 0..MaxAttempts]
BY DEF Entries, Patches, Sets

LEMMA InitialIsAModel ==
  ASSUME NEW n \in Notes
  PROVE  InitialEditor(n) \in Models
BY BlankIsADraft DEF InitialEditor, Models, Notes, NoTheirs, Theirs, SaveStates

LEMMA UnopenedIsAnEditor == Unopened \in Editors
<1>1. InitialEditor(Note(Blank, 0)) \in Models
  BY NothingIsTyped, InitialIsAModel
<1>. QED
  BY <1>1, NothingIsTyped DEF Unopened, Editors

LEMMA PatchIsAPatch ==
  ASSUME NEW m \in Models
  PROVE  PatchFor(m) \in Patches
<1>. DEFINE F == {g \in Fields : m.draft[g] # m.server[g]}
            s == [f \in F |-> m.draft[f]]
<1>1. m.draft \in Drafts /\ m.ver \in Nat
  BY DEF Models
<1>2. F \in SUBSET Fields /\ s \in [F -> SUBSET Words]
  BY <1>1 DEF Drafts
<1>3. s \in Sets
  BY <1>2, SetsAreSets
<1>. QED
  BY <1>1, <1>3 DEF PatchFor, Patch, Patches

LEMMA OverIsAPatch ==
  ASSUME NEW p \in Patches, NEW q \in Patches
  PROVE  Over(p, q) \in Patches
BY OverIsASet DEF Over, Patch, Patches

LEMMA EditIsAModel ==
  ASSUME NEW m \in Models, NEW f \in Fields, NEW w \in SUBSET Words
  PROVE  ApplyEdit(m, f, w) \in Models
<1>1. [m.draft EXCEPT ![f] = w] \in Drafts
  BY DEF Models, Drafts
<1>. QED
  BY <1>1 DEF ApplyEdit, Models, SaveStates

LEMMA SavesAreModels ==
  ASSUME NEW m \in Models, NEW sent \in Drafts, NEW version \in Nat
  PROVE  /\ SaveStart(m) \in Models /\ SaveSuccess(m, sent, version) \in Models
         /\ SaveQueued(m, sent) \in Models /\ SaveError(m) \in Models
         /\ SaveDeferred(m) \in Models /\ Rebase(m, version) \in Models
BY BlankIsADraft DEF SaveStart, SaveSuccess, SaveQueued, SaveError, SaveDeferred, Rebase,
     Models, SaveStates, NoTheirs, Theirs

LEMMA ChoicesAreModels ==
  ASSUME NEW m \in Models, NEW mine \in Drafts, NEW n,
         n.draft \in Drafts, n.ver \in Nat
  PROVE  /\ Conflict(m, mine, n) \in Models /\ TakeTheirs(m) \in Models
         /\ KeepMine(m) \in Models /\ KeepBoth(m) \in Models
<1>1. AddsParagraph(m.saved, n.draft) \in BOOLEAN
  BY DEF AddsParagraph
<1>2. Conflict(m, mine, n) \in Models
  BY <1>1 DEF Conflict, Models, SaveStates, Theirs
<1>3. InitialEditor(Note(m.theirs.draft, m.theirs.ver)) \in Models
  BY InitialIsAModel DEF Note, Notes, Models, Theirs
<1>4. TakeTheirs(m) \in Models
  BY <1>3 DEF TakeTheirs, Models, SaveStates
<1>5. KeepMine(m) \in Models
  BY BlankIsADraft DEF KeepMine, Models, SaveStates, NoTheirs, Theirs
<1>6. KeepBoth(m) \in Models
  <2>. DEFINE d == [m.draft EXCEPT !["body"] = @ \cup {Paragraph}]
  <2>1. d \in Drafts
    BY DEF Models, Drafts, Words, Fields
  <2>2. KeepBoth(m) = [KeepMine(m) EXCEPT !.draft = d]
    BY <1>5 DEF KeepBoth, KeepMine, Models
  <2>. QED
    BY <1>5, <2>1, <2>2 DEF Models
<1>. QED
  BY <1>2, <1>4, <1>5, <1>6

LEMMA BeginIsAnEditor ==
  ASSUME NEW e \in Editors, NEW sees \in Sights
  PROVE  Begin(e, sees) \in Editors
<1>. DEFINE mine == PatchFor(e.m)
            p == IF Held(sees.seen) = "pending" THEN Over(sees.seen.entry.patch, mine) ELSE mine
            fly == [pc |-> "sent", sent |-> e.m.draft, sees |-> sees, patch |-> p]
<1>1. e.m \in Models /\ sees.seen.entry.patch \in Patches
  BY EntriesAreEntries DEF Editors, Sights, Seens
<1>2. p \in Patches
  BY <1>1, PatchIsAPatch, OverIsAPatch
<1>3. fly \in Flights
  BY <1>1, <1>2 DEF Flights, Answers, Models
<1>4. SaveStart(e.m) \in Models
  BY <1>1, SavesAreModels, BlankIsADraft
<1>5. Begin(e, sees) = e \/ Begin(e, sees) = [e EXCEPT !.m = SaveStart(@), !.fly = fly]
  BY DEF Begin
<1>. QED
  BY <1>3, <1>4, <1>5 DEF Editors

LEMMA SaveIsAnEditor ==
  ASSUME NEW e \in Editors, NEW sees \in Sights
  PROVE  Save(e, sees) \in Editors /\ Settled(e, sees) \in Editors
<1>1. [e EXCEPT !.again = TRUE] \in Editors
  BY DEF Editors
<1>2. [e EXCEPT !.fly = Grounded, !.again = FALSE] \in Editors
  BY NothingIsTyped DEF Editors
<1>. QED
  BY <1>1, <1>2, BeginIsAnEditor DEF Save, Settled

LEMMA RestedIsAnEditor ==
  ASSUME NEW e \in Editors
  PROVE  Rested(e) \in Editors
<1>. DEFINE d == IF e.m.state \in {"error", "conflict"} THEN e.m.draft ELSE Blank
            m == [Unopened.m EXCEPT !.draft = d]
<1>1. d \in Drafts /\ Unopened.m \in Models
  BY BlankIsADraft, UnopenedIsAnEditor DEF Editors, Models
<1>2. m \in Models
  BY <1>1 DEF Models
<1>3. [Unopened EXCEPT !.at = "gone", !.m = m] \in Editors
  BY <1>2, UnopenedIsAnEditor DEF Editors
<1>4. [Unopened EXCEPT !.at = "gone", !.m.draft = d] = [Unopened EXCEPT !.at = "gone", !.m = m]
  BY UnopenedIsAnEditor DEF Editors
<1>. QED
  BY <1>3, <1>4 DEF Rested

-----------------------------------------------------------------------------
(* The types are kept *)

LEMMA Undisturbed ==
  ASSUME Types
  PROVE  /\ (UNCHANGED note => NoteType') /\ (UNCHANGED dev => DevType')
         /\ (UNCHANGED ed => EdType') /\ (UNCHANGED net => NetType' /\ TriesLeft')
         /\ (UNCHANGED truth => TruthType') /\ (UNCHANGED left => LeftType')
         /\ (Mishap \/ News => LeftType')
BY DEF Types, NoteType, DevType, EdType, NetType, TruthType, LeftType, TriesLeft, Mishap, News

LEMMA SetIsTyped ==
  ASSUME EdType, NEW i \in Visits, NEW e \in Editors, Set(i, e)
  PROVE  EdType' /\ ed' = [ed EXCEPT ![i] = Rested(e)]
BY RestedIsAnEditor DEF Set, EdType

LEMMA ClosureIsASight ==
  ASSUME DevType, NEW e \in Editors
  PROVE  Rendered \in Sights /\ Closure(e) \in Sights
BY DEF DevType, Rendered, Sees, Sights, Closure, Editors, Notes

LEMMA ReadsAreSights ==
  ASSUME DevType, NEW e \in Editors, NEW d, d.seen \in Seens, d.cache \in Notes,
         NEW sees \in Reads(e, d)
  PROVE  sees \in Sights
<1>1. Sees(d.seen, d.cache.ver) \in Sights
  BY DEF Sees, Sights, Notes
<1>. QED
  BY <1>1, ClosureIsASight DEF Reads, Editors

LEMMA OnNoteIsAnEditor ==
  ASSUME NEW e \in Editors, NEW n \in Notes
  PROVE  OnNote(e, n) \in Editors
<1>1. InitialEditor(n) \in Models /\ Rebase(e.m, n.ver) \in Models
  BY InitialIsAModel, SavesAreModels, BlankIsADraft DEF Editors, Notes
<1>. QED
  BY <1>1 DEF OnNote, Editors

LEMMA RecordIsTyped ==
  ASSUME EdType, NEW i \in Visits, NEW e \in Editors, NEW n \in Notes, Record(i, e, n)
  PROVE  EdType'
<1>1. \A j \in Visits : (IF j = i THEN Rested(e) ELSE OnNote(ed[j], n)) \in Editors
  BY RestedIsAnEditor, OnNoteIsAnEditor DEF EdType
<1>. QED
  BY <1>1 DEF Record, EdType

LEMMA UpdateIsTyped ==
  ASSUME NoteType, TruthType, NEW d \in Drafts, Write(d)
  PROVE  NoteType' /\ TruthType'
<1>1. WordsOf(d) \subseteq Words
  BY DEF WordsOf, Drafts
<1>2. note.ver + 1 \in Nat
  BY DEF NoteType
<1>3. NoteType'
  BY <1>2 DEF Write, NoteType
<1>4. TruthType'
  BY <1>1 DEF Write, TruthType
<1>. QED
  BY <1>3, <1>4

LEMMA ForgottenIsTyped ==
  ASSUME DevType
  PROVE  /\ Forgotten \in [q : Entries, seen : Seens, cache : Notes, keys : Nat]
         /\ \A held \in Seens : Forget(held) \in [q : Entries, seen : Seens, cache : Notes, keys : Nat]
BY NothingIsTyped DEF DevType, Forgotten, Forget, Read, Seens

LEMMA ServerIsTyped ==
  ASSUME Types, StampNote \/ FileParagraph \/ EditElsewhere \/ CleanBump
  PROVE  Types'
<1>1. CASE StampNote
  <2>1. NoteType'
    BY <1>1 DEF StampNote, Types, NoteType
  <2>. QED
    BY <1>1, <2>1, Undisturbed DEF StampNote, Types
<1>2. CASE FileParagraph
  <2>. DEFINE d == [note.draft EXCEPT !["body"] = @ \cup {Paragraph}]
  <2>1. d \in Drafts
    BY DEF Types, NoteType, Drafts, Words, Fields
  <2>2. note' = [note EXCEPT !.ver = @ + 1, !.draft = d, !.busy = FALSE]
    BY <1>2 DEF FileParagraph, Types, NoteType
  <2>3. NoteType'
    <3>1. note.ver + 1 \in Nat
      BY DEF Types, NoteType
    <3>. HIDE DEF d
    <3>. QED
      BY <2>1, <2>2, <3>1 DEF Types, NoteType
  <2>4. TruthType'
    BY <1>2 DEF FileParagraph, Types, TruthType, Words
  <2>. QED
    BY <1>2, <2>3, <2>4, Undisturbed DEF FileParagraph, Types
<1>3. CASE EditElsewhere
  <2>1. [note.draft EXCEPT !["body"] = @ \cup {Elsewhere}] \in Drafts
    BY DEF Types, NoteType, Drafts, Words, Fields
  <2>2. NoteType' /\ TruthType'
    BY <1>3, <2>1, UpdateIsTyped DEF EditElsewhere, Types
  <2>. QED
    BY <1>3, <2>2, Undisturbed DEF EditElsewhere, Types
<1>4. CASE CleanBump
  <2>1. NoteType'
    BY <1>4 DEF CleanBump, Types, NoteType
  <2>. QED
    BY <1>4, <2>1, Undisturbed DEF CleanBump, Types
<1>. QED
  BY <1>1, <1>2, <1>3, <1>4

LEMMA PageIsTyped ==
  ASSUME Types, GoOffline \/ GoOnline \/ Reload
  PROVE  Types'
<1>1. CASE GoOffline \/ GoOnline
  <2>1. NetType' /\ TriesLeft'
    BY <1>1 DEF GoOffline, GoOnline, Types, NetType, TriesLeft
  <2>. QED
    BY <1>1, <2>1, Undisturbed DEF GoOffline, GoOnline, Types
<1>2. CASE Reload
  <2>. DEFINE d(i) == IF Open(i) THEN Blank ELSE ed[i].m.draft
              m(i) == [Unopened.m EXCEPT !.draft = d(i)]
              e(i) == IF ed[i].at = "out" THEN ed[i] ELSE [Unopened EXCEPT !.at = "gone", !.m = m(i)]
  <2>1. \A i \in Visits : m(i) \in Models
    BY BlankIsADraft, UnopenedIsAnEditor DEF Types, EdType, Editors, Models
  <2>2. \A i \in Visits : e(i) \in Editors
    BY <2>1, UnopenedIsAnEditor DEF Types, EdType, Editors
  <2>3. ed' = [i \in Visits |-> e(i)]
    BY <1>2, UnopenedIsAnEditor DEF Reload, Editors
  <2>4. EdType'
    BY <2>2, <2>3 DEF EdType
  <2>5. \A i \in Visits : WordsOf(ed[i].m.draft) \subseteq Words
    BY DEF Types, EdType, Editors, Models, Drafts, WordsOf
  <2>. DEFINE given == UNION {WordsOf(ed[i].m.draft) :
                          i \in {j \in Visits : Open(j) /\ HasUnsavedWork(ed[j].m)}}
  <2>6. given \subseteq Words
    BY <2>5
  <2>7. truth' = [truth EXCEPT !.given = @ \cup given]
    BY <1>2 DEF Reload
  <2>8. TruthType'
    <3>. HIDE DEF given
    <3>. QED
      BY <2>6, <2>7 DEF Types, TruthType
  <2>9. DevType'
    BY <1>2, NothingIsTyped DEF Reload, Types, DevType
  <2>10. NetType' /\ TriesLeft'
    BY <1>2, NothingIsTyped DEF Reload, Types, NetType, TriesLeft, NoFlush, Answers
  <2>. QED
    BY <1>2, <2>4, <2>8, <2>9, <2>10, Undisturbed DEF Reload, Types
<1>. QED
  BY <1>1, <1>2

LEMMA SetKeepsTypes ==
  ASSUME Types, NEW i \in Visits, NEW e \in Editors, Set(i, e),
         UNCHANGED note, UNCHANGED dev, UNCHANGED net, UNCHANGED truth, LeftType'
  PROVE  Types'
BY SetIsTyped, Undisturbed DEF Types

LEMMA ScreenIsTyped ==
  ASSUME Types, NEW i \in Visits,
         \/ Visit(i) \/ Leave(i) \/ Debounce(i) \/ WaitOver(i) \/ SaveNow(i)
         \/ \E f \in Fields : Type(i, f)
  PROVE  Types'
<1>1. ed[i] \in Editors /\ ed[i].m \in Models /\ ed[i].sees \in Sights
  BY DEF Types, EdType, Editors
<1>2. Rendered \in Sights
  BY <1>1, ClosureIsASight DEF Types
<1>3. CASE Visit(i)
  <2>1. InitialEditor(dev.cache) \in Models
    BY InitialIsAModel DEF Types, DevType
  <2>2. EdType'
    BY <1>3, <2>1, UnopenedIsAnEditor DEF Visit, Types, EdType, Editors
  <2>. QED
    BY <1>3, <2>2, Undisturbed DEF Visit, Types
<1>4. CASE Leave(i)
  <2>. DEFINE gone == [ed[i] EXCEPT !.at = "gone", !.sees = Rendered, !.asking = FALSE]
              quiet == [gone EXCEPT !.timer = "none"]
              e == IF gone.timer = "none" THEN gone ELSE Save(quiet, gone.sees)
  <2>1. gone \in Editors /\ gone.sees \in Sights
    BY <1>1, <1>2 DEF Editors
  <2>2. quiet \in Editors
    BY <2>1 DEF Editors
  <2>3. e \in Editors
    BY <2>1, <2>2, SaveIsAnEditor
  <2>4. Set(i, e)
    BY <1>4 DEF Leave
  <2>. HIDE DEF e
  <2>. QED
    BY <1>4, <2>3, <2>4, SetKeepsTypes, Undisturbed DEF Leave
<1>5. CASE Debounce(i)
  <2>. DEFINE e == [ed[i] EXCEPT !.timer = "spent", !.sees = Blind]
  <2>1. e \in Editors
    BY <1>1, NothingIsTyped DEF Editors
  <2>2. Save(e, ed[i].sees) \in Editors
    BY <1>1, <2>1, SaveIsAnEditor
  <2>3. Set(i, Save(e, ed[i].sees))
    BY <1>5 DEF Debounce
  <2>. HIDE DEF e
  <2>. QED
    BY <1>5, <2>2, <2>3, SetKeepsTypes, Undisturbed DEF Debounce
<1>6. CASE WaitOver(i)
  <2>. DEFINE e == [ed[i] EXCEPT !.timer = "none"]
  <2>1. e \in Editors
    BY <1>1 DEF Editors
  <2>2. Save(e, Closure(e)) \in Editors
    BY <2>1, SaveIsAnEditor, ClosureIsASight DEF Types
  <2>3. Set(i, Save(e, Closure(e)))
    BY <1>6 DEF WaitOver
  <2>. HIDE DEF e
  <2>. QED
    BY <1>6, <2>2, <2>3, SetKeepsTypes, Undisturbed DEF WaitOver
<1>7. CASE SaveNow(i)
  <2>. DEFINE e == [ed[i] EXCEPT !.timer = "none", !.sees = Blind]
  <2>1. e \in Editors
    BY <1>1, NothingIsTyped DEF Editors
  <2>2. Save(e, Rendered) \in Editors
    BY <1>2, <2>1, SaveIsAnEditor
  <2>3. Set(i, Save(e, Rendered))
    BY <1>7 DEF SaveNow
  <2>. HIDE DEF e
  <2>. QED
    BY <1>7, <2>2, <2>3, SetKeepsTypes, Undisturbed DEF SaveNow
<1>8. ASSUME NEW f \in Fields, Type(i, f)
      PROVE  Types'
  <2>. DEFINE w == Cardinality(truth.typed) + 1
              m == ApplyEdit(ed[i].m, f, ed[i].m.draft[f] \cup {w})
              e == [ed[i] EXCEPT !.m = m, !.timer = "debounce", !.sees = Rendered]
  <2>1. w \in Own
    BY <1>8 DEF Type
  <2>2. ed[i].m.draft[f] \cup {w} \in SUBSET Words
    BY <1>1, <2>1 DEF Models, Drafts, Words
  <2>3. m \in Models
    BY <1>1, <2>2, EditIsAModel
  <2>4. e \in Editors
    BY <1>1, <1>2, <2>3 DEF Editors
  <2>5. Set(i, e)
    BY <1>8 DEF Type
  <2>6. TruthType'
    BY <1>8, <2>1 DEF Type, Types, TruthType
  <2>. HIDE DEF e
  <2>. QED
    BY <1>8, <2>4, <2>5, <2>6, SetIsTyped, Undisturbed DEF Type, Types
<1>. QED
  BY <1>3, <1>4, <1>5, <1>6, <1>7, <1>8

LEMMA AnsweredIsAnEditor ==
  ASSUME NEW e \in Editors, NEW what \in Answers
  PROVE  [e EXCEPT !.fly.pc = what] \in Editors
<1>. DEFINE f == [e.fly EXCEPT !.pc = what]
<1>1. f \in Flights
  BY DEF Editors, Flights
<1>2. [e EXCEPT !.fly.pc = what] = [e EXCEPT !.fly = f]
  BY DEF Editors
<1>. QED
  BY <1>1, <1>2 DEF Editors

LEMMA WireIsTyped ==
  ASSUME Types, NEW i \in Visits, Arrive(i) \/ Unreachable(i) \/ Disturbed(i)
  PROVE  Types'
<1>. DEFINE f == ed[i].fly
            stores == Update(f.patch) /\ UNCHANGED <<dev, net>>
<1>1. ed[i] \in Editors /\ f \in Flights /\ f.patch.set \in Sets
  BY DEF Types, EdType, Editors, Flights, Patches
<1>2. Upon(f.patch.set, note.draft) \in Drafts
  BY <1>1, OverADraft DEF Types, NoteType
<1>3. Update(f.patch) => NoteType' /\ TruthType'
  BY <1>2, UpdateIsTyped DEF Update, Types
<1>4. \A what \in Answers : [ed[i] EXCEPT !.fly.pc = what] \in Editors
  BY <1>1, AnsweredIsAnEditor
<1>5. Answer(f.patch) \in Answers
  BY DEF Answer, Answers
<1>6. \E what \in Answers : Set(i, [ed[i] EXCEPT !.fly.pc = what])
  BY <1>5 DEF Arrive, Unreachable, Disturbed, Answered, Answers
<1>7. EdType'
  BY <1>4, <1>6, SetIsTyped DEF Types
<1>8. NoteType' /\ TruthType'
  BY <1>3, Undisturbed DEF Arrive, Unreachable, Disturbed
<1>. QED
  BY <1>7, <1>8, Undisturbed DEF Arrive, Unreachable, Disturbed, Types

LEMMA AnswerIsTyped ==
  ASSUME Types, NEW i \in Visits, Failed(i) \/ Deferred(i) \/ Refused(i)
  PROVE  Types'
<1>1. ed[i] \in Editors /\ ed[i].m \in Models /\ ed[i].m.draft \in Drafts
  BY DEF Types, EdType, Editors, Models
<1>2. note.draft \in Drafts /\ note.ver \in Nat
  BY DEF Types, NoteType
<1>3. \A e \in Editors, d \in Editors : Settled(e, Closure(d)) \in Editors
  BY SaveIsAnEditor, ClosureIsASight DEF Types
<1>4. \A m \in Models : [ed[i] EXCEPT !.m = m] \in Editors
  BY <1>1 DEF Editors
<1>5. SaveError(ed[i].m) \in Models /\ SaveDeferred(ed[i].m) \in Models /\ Rebase(ed[i].m, note.ver) \in Models
      /\ Conflict(ed[i].m, ed[i].m.draft, note) \in Models
  BY <1>1, <1>2, SavesAreModels, ChoicesAreModels
<1>6. CASE Failed(i)
  <2>1. Settled([ed[i] EXCEPT !.m = SaveError(ed[i].m)], Closure(ed[i])) \in Editors
    BY <1>1, <1>3, <1>4, <1>5
  <2>2. Set(i, Settled([ed[i] EXCEPT !.m = SaveError(ed[i].m)], Closure(ed[i])))
    BY <1>6 DEF Failed
  <2>. QED
    BY <1>6, <2>1, <2>2, SetKeepsTypes, Undisturbed DEF Failed
<1>7. CASE Deferred(i)
  <2>. DEFINE f == IF ed[i].waits >= WaitLimit
                   THEN [ed[i] EXCEPT !.m = SaveError(ed[i].m), !.waits = 0]
                   ELSE [ed[i] EXCEPT !.m = SaveDeferred(ed[i].m), !.waits = ed[i].waits + 1, !.timer = "wait"]
  <2>1. ed[i].waits + 1 \in Nat
    BY <1>1 DEF Editors
  <2>2. f \in Editors
    BY <1>1, <1>5, <2>1 DEF Editors
  <2>3. Settled(f, Closure(ed[i])) \in Editors
    BY <1>1, <1>3, <2>2
  <2>4. Set(i, Settled(f, Closure(ed[i])))
    BY <1>7 DEF Deferred
  <2>. HIDE DEF f
  <2>. QED
    BY <1>7, <2>3, <2>4, SetKeepsTypes, Undisturbed DEF Deferred
<1>8. CASE Refused(i)
  <2>. DEFINE shown == [ed[i] EXCEPT !.m = Conflict(ed[i].m, ed[i].m.draft, note), !.waits = 0]
              carried == [ed[i] EXCEPT !.m = Rebase(ed[i].m, note.ver), !.rebased = TRUE, !.again = TRUE,
                                       !.waits = 0]
              failed == [ed[i] EXCEPT !.m = SaveError(ed[i].m), !.waits = 0]
  <2>1. shown \in Editors /\ carried \in Editors /\ failed \in Editors
    BY <1>1, <1>5 DEF Editors
  <2>2. \E e \in {shown, carried, failed} : Set(i, Settled(e, Closure(ed[i])))
    BY <1>8 DEF Refused
  <2>3. PICK e \in {shown, carried, failed} : Set(i, Settled(e, Closure(ed[i])))
    BY <2>2
  <2>4. Settled(e, Closure(ed[i])) \in Editors
    BY <1>1, <1>3, <2>1, <2>3
  <2>. QED
    BY <1>8, <2>3, <2>4, SetKeepsTypes, Undisturbed DEF Refused
<1>. QED
  BY <1>6, <1>7, <1>8

LEMMA StoredIsTyped ==
  ASSUME Types, NEW i \in Visits, Stored(i)
  PROVE  Types'
<1>. DEFINE e == ed[i]
            n == Note(e.fly.sent, e.fly.patch.ver + 1)
            m == SaveSuccess(e.m, e.fly.sent, n.ver)
            d == IF e.fly.sees.seen = Read(NoEntry) THEN dev ELSE Forget(e.fly.sees.seen)
            e2 == [e EXCEPT !.m = m, !.rebased = FALSE, !.waits = 0]
<1>1. e \in Editors /\ e.m \in Models /\ e.fly \in Flights
  BY DEF Types, EdType, Editors
<1>2. e.fly.sent \in Drafts /\ e.fly.patch.ver + 1 \in Nat /\ e.fly.sees.seen \in Seens
  BY <1>1 DEF Flights, Patches, Sights
<1>3. n \in Notes /\ n.ver \in Nat
  BY <1>2 DEF Note, Notes
<1>4. m \in Models
  BY <1>1, <1>2, <1>3, SavesAreModels
<1>5. e2 \in Editors
  BY <1>1, <1>4 DEF Editors
<1>6. d \in [q : Entries, seen : Seens, cache : Notes, keys : Nat]
  BY <1>2, ForgottenIsTyped DEF Types, DevType
<1>7. PICK sees \in Reads(e, d) : Record(i, Settled(e2, sees), n)
  BY DEF Stored
<1>8. dev' = [d EXCEPT !.cache = n] /\ UNCHANGED <<note, net, truth, left>>
  BY DEF Stored
<1>. HIDE DEF n, m, d, e2
<1>9. sees \in Sights
  BY <1>1, <1>6, <1>7, ReadsAreSights DEF Types
<1>10. EdType'
  BY <1>3, <1>5, <1>7, <1>9, SaveIsAnEditor, RecordIsTyped DEF Types
<1>11. DevType'
  BY <1>3, <1>6, <1>8 DEF DevType
<1>. QED
  BY <1>8, <1>10, <1>11, Undisturbed DEF Types

LEMMA QueueIsTyped ==
  ASSUME Types, NEW i \in Visits, Queue(i)
  PROVE  Types'
<1>. DEFINE e == ed[i]
            entry == Enqueued(e.fly.patch)
            n == Note(e.fly.sent, e.fly.sees.base)
            d == [q |-> entry, seen |-> Read(entry), cache |-> n, keys |-> entry.key]
            e2 == [e EXCEPT !.m = SaveQueued(e.m, e.fly.sent)]
<1>1. e \in Editors /\ e.m \in Models /\ e.fly \in Flights
  BY DEF Types, EdType, Editors
<1>2. e.fly.sent \in Drafts /\ e.fly.patch \in Patches /\ e.fly.sees.base \in Nat
  BY <1>1 DEF Flights, Sights
<1>3. n \in Notes
  BY <1>2 DEF Note, Notes
<1>4. dev.q.patch \in Patches /\ dev.keys + 1 \in Nat /\ 0 \in 0..MaxAttempts
  BY EntriesAreEntries, BoundsAssumption DEF Types, DevType
<1>5. entry \in Entries /\ entry.key \in Nat
  BY <1>2, <1>4, OverIsAPatch, EntriesAreEntries DEF Enqueued
<1>6. d \in [q : Entries, seen : Seens, cache : Notes, keys : Nat]
  BY <1>3, <1>5 DEF Read, Seens
<1>7. e2 \in Editors
  BY <1>1, <1>2, SavesAreModels, BoundsAssumption DEF Editors
<1>8. PICK sees \in Reads(e, d) : Record(i, Settled(e2, sees), n)
  BY DEF Queue
<1>9. dev' = d /\ UNCHANGED <<note, net, left>>
  BY DEF Queue
<1>10. TruthType'
  BY DEF Queue, Overtaken, Types, TruthType
<1>. HIDE DEF n, d, e2
<1>11. sees \in Sights
  BY <1>1, <1>6, <1>8, ReadsAreSights DEF Types
<1>12. EdType'
  BY <1>3, <1>7, <1>8, <1>11, SaveIsAnEditor, RecordIsTyped DEF Types
<1>13. DevType'
  BY <1>6, <1>9 DEF DevType
<1>. QED
  BY <1>9, <1>10, <1>12, <1>13, Undisturbed DEF Types

LEMMA ChoiceIsTyped ==
  ASSUME Types, NEW i \in Visits,
         TakeTheirsTap(i) \/ KeepTap(i) \/ AskBack(i) \/ AnswerBack(i)
  PROVE  Types'
<1>. DEFINE m == ed[i].m
<1>1. ed[i] \in Editors /\ m \in Models /\ m.theirs \in Theirs /\ m.draft \in Drafts
  BY DEF Types, EdType, Editors, Models
<1>2. Rendered \in Sights
  BY <1>1, ClosureIsASight DEF Types
<1>3. note.draft \in Drafts /\ note.ver \in Nat
  BY DEF Types, NoteType
<1>4. \A w \in SUBSET Words : Gives(w) => TruthType'
  BY DEF Gives, Types, TruthType
<1>5. \A d \in Drafts : \A b : Missing(d, b) \in SUBSET Words
  BY DEF Missing, Drafts
<1>6. TakeTheirs(m) \in Models /\ KeepMine(m) \in Models /\ KeepBoth(m) \in Models
  BY <1>1, <1>3, ChoicesAreModels
<1>7. CASE TakeTheirsTap(i)
  <2>1. [ed[i] EXCEPT !.m = TakeTheirs(m)] \in Editors
    BY <1>1, <1>6 DEF Editors
  <2>2. EdType'
    BY <1>7, <2>1, SetIsTyped DEF TakeTheirsTap, Types
  <2>3. DevType'
    BY <1>7, ForgottenIsTyped DEF TakeTheirsTap, Types, DevType
  <2>4. TruthType'
    BY <1>1, <1>4, <1>5, <1>7 DEF TakeTheirsTap
  <2>. QED
    BY <1>7, <2>2, <2>3, <2>4, Undisturbed DEF TakeTheirsTap, Types
<1>8. CASE KeepTap(i)
  <2>. DEFINE kept(k) == Save([ed[i] EXCEPT !.m = k, !.timer = "none"], Rendered)
  <2>1. \A k \in Models : kept(k) \in Editors
    <3>. TAKE k \in Models
    <3>1. [ed[i] EXCEPT !.m = k, !.timer = "none"] \in Editors
      BY <1>1 DEF Editors
    <3>. QED
      BY <1>2, <3>1, SaveIsAnEditor
  <2>2. \E k \in {KeepMine(m), KeepBoth(m)} : Set(i, kept(k))
    BY <1>8 DEF KeepTap
  <2>3. EdType'
    BY <1>6, <2>1, <2>2, SetIsTyped DEF Types
  <2>4. TruthType'
    <3>1. m.theirs.draft \in Drafts
      BY <1>1 DEF Theirs
    <3>. QED
      BY <1>4, <1>5, <1>8, <3>1 DEF KeepTap
  <2>. QED
    BY <1>8, <2>3, <2>4, Undisturbed DEF KeepTap, Types
<1>9. CASE AskBack(i)
  <2>1. [ed[i] EXCEPT !.asking = TRUE] \in Editors
    BY <1>1 DEF Editors
  <2>. QED
    BY <1>9, <2>1, SetKeepsTypes, Undisturbed DEF AskBack
<1>10. CASE AnswerBack(i)
  <2>. DEFINE e == [ed[i] EXCEPT !.asking = FALSE]
              c == Conflict(m, HeldOver(m.draft), note)
  <2>1. HeldOver(m.draft) \in Drafts
    BY <1>1, OverADraft, EntriesAreEntries DEF HeldOver, Types, DevType, Patches
  <2>2. c \in Models
    BY <1>1, <1>3, <2>1, ChoicesAreModels
  <2>3. KeepMine(c) \in Models
    BY <1>3, <2>1, <2>2, ChoicesAreModels
  <2>4. e \in Editors /\ e.m = m
    BY <1>1 DEF Editors
  <2>5. [e EXCEPT !.m = c] \in Editors /\ [e EXCEPT !.m = KeepMine(c)] \in Editors
    BY <2>2, <2>3, <2>4 DEF Editors
  <2>6. Save([e EXCEPT !.m = KeepMine(c)], Rendered) \in Editors
    BY <1>2, <2>5, SaveIsAnEditor
  <2>7. \E x \in {e, [e EXCEPT !.m = c], Save([e EXCEPT !.m = KeepMine(c)], Rendered)} : Set(i, x)
    BY <1>10, <2>4 DEF AnswerBack
  <2>8. EdType'
    BY <2>4, <2>5, <2>6, <2>7, SetIsTyped DEF Types
  <2>9. DevType'
    BY <1>10, ForgottenIsTyped, Undisturbed DEF AnswerBack, Types, DevType
  <2>. QED
    BY <1>10, <2>8, <2>9, Undisturbed DEF AnswerBack, Types
<1>. QED
  BY <1>7, <1>8, <1>9, <1>10

LEMMA ReadIsTyped ==
  ASSUME Types, ReadQueue \/ Fetch
  PROVE  Types'
<1>1. CASE ReadQueue
  <2>1. DevType'
    BY <1>1 DEF ReadQueue, Read, Types, DevType, Seens
  <2>. QED
    BY <1>1, <2>1, Undisturbed DEF ReadQueue, Types
<1>2. CASE Fetch
  <2>. DEFINE n == Note(note.draft, note.ver)
  <2>1. n \in Notes
    BY DEF Types, NoteType, Note, Notes
  <2>2. ed' = [j \in Visits |-> OnNote(ed[j], n)] /\ dev' = [dev EXCEPT !.cache = n]
    BY <1>2 DEF Fetch
  <2>. HIDE DEF n
  <2>3. \A j \in Visits : OnNote(ed[j], n) \in Editors
    BY <2>1, OnNoteIsAnEditor DEF Types, EdType
  <2>4. EdType' /\ DevType'
    BY <2>1, <2>2, <2>3 DEF Types, EdType, DevType
  <2>. QED
    BY <1>2, <2>4, Undisturbed DEF Fetch, Types
<1>. QED
  BY <1>1, <1>2

LEMMA FlushIsTyped ==
  ASSUME Types, FlushStart \/ FlushArrive \/ FlushDisturbed \/ FlushSettle
  PROVE  Types'
<1>. DEFINE entry == net.flush.entry
<1>1. entry \in Entries /\ entry.tries \in 0..MaxAttempts /\ entry.key \in Nat /\ entry.patch.set \in Sets
  BY EntriesAreEntries DEF Types, NetType, Patches
<1>2. dev.q \in Entries /\ dev.q.tries \in 0..MaxAttempts
  BY EntriesAreEntries DEF Types, DevType
<1>3. \A what \in Answers : net.flush.pc # "idle" /\ Flushing(what) => NetType' /\ TriesLeft'
  <2>. SUFFICES ASSUME NEW what \in Answers, net.flush.pc # "idle", Flushing(what)
                PROVE  NetType' /\ TriesLeft'
    OBVIOUS
  <2>. DEFINE f == [net.flush EXCEPT !.pc = what]
  <2>1. f \in [pc : Answers, entry : Entries] /\ f.entry = entry
    BY DEF Types, NetType
  <2>2. net' = [net EXCEPT !.flush = f]
    BY DEF Flushing, Types, NetType
  <2>3. NetType' /\ net'.flush.entry = entry
    BY <2>1, <2>2 DEF Types, NetType
  <2>. QED
    BY <2>3 DEF Types, TriesLeft
<1>4. CASE FlushStart
  <2>1. dev.q.tries < MaxAttempts
    BY <1>2, <1>4, BoundsAssumption DEF FlushStart, IsDead
  <2>2. NetType' /\ TriesLeft'
    BY <1>2, <1>4, <2>1 DEF FlushStart, Types, NetType, TriesLeft, Answers
  <2>. QED
    BY <1>4, <2>2, Undisturbed DEF FlushStart, Types
<1>5. CASE FlushArrive
  <2>. DEFINE d == Upon(entry.patch.set, note.draft)
              a == IF entry.key \in note.done THEN "stored" ELSE Answer(entry.patch)
  <2>1. d \in Drafts /\ WordsOf(d) \subseteq Words
    <3>1. d \in Drafts
      BY <1>1, OverADraft DEF Types, NoteType
    <3>. QED
      BY <3>1 DEF WordsOf, Drafts
  <2>2. a \in Answers /\ "offline" \in Answers
    BY DEF Answer, Answers
  <2>3. NetType' /\ TriesLeft'
    BY <1>3, <1>5, <2>2 DEF FlushArrive
  <2>4. LeftType'
    BY <1>5, Undisturbed DEF FlushArrive
  <2>5. CASE UNCHANGED <<note, truth>>
    BY <1>5, <2>3, <2>4, <2>5, Undisturbed DEF FlushArrive, Types
  <2>6. CASE ~UNCHANGED <<note, truth>>
    <3>1. /\ note' = [note EXCEPT !.ver = note.ver + 1, !.draft = d, !.done = note.done \cup {entry.key}]
          /\ truth' = [truth EXCEPT !.landed = truth.landed \cup WordsOf(d)]
      BY <1>5, <2>6 DEF FlushArrive
    <3>. HIDE DEF d
    <3>2. note.ver + 1 \in Nat /\ note.done \cup {entry.key} \in SUBSET Nat
      BY <1>1 DEF Types, NoteType
    <3>3. NoteType'
      BY <2>1, <3>1, <3>2 DEF Types, NoteType
    <3>4. TruthType'
      BY <2>1, <3>1 DEF Types, TruthType
    <3>. QED
      BY <1>5, <2>3, <2>4, <3>3, <3>4, Undisturbed DEF FlushArrive, Types
  <2>. QED
    BY <2>5, <2>6
<1>6. CASE FlushDisturbed
  <2>1. NetType' /\ TriesLeft'
    BY <1>3, <1>6 DEF FlushDisturbed, Answers
  <2>. QED
    BY <1>6, <2>1, Undisturbed DEF FlushDisturbed, Types
<1>7. CASE FlushSettle
  <2>1. MaxAttempts \in 0..MaxAttempts
    BY BoundsAssumption
  <2>2. net.flush.pc = "failed" => entry.tries + 1 \in 0..MaxAttempts
    BY <1>1, BoundsAssumption DEF Types, TriesLeft
  <2>3. Outcome \in Entries
    BY <1>1, <1>2, <2>1, <2>2, NothingIsTyped, EntriesAreEntries DEF Outcome
  <2>4. Settle(Outcome) \in Entries
    BY <1>2, <2>3 DEF Settle
  <2>5. DevType'
    BY <1>7, <2>4 DEF FlushSettle, Types, DevType
  <2>6. NetType' /\ TriesLeft'
    BY <1>7, NothingIsTyped DEF FlushSettle, NoFlush, Types, NetType, TriesLeft, Answers
  <2>. QED
    BY <1>7, <2>5, <2>6, Undisturbed DEF FlushSettle, Types
<1>. QED
  BY <1>4, <1>5, <1>6, <1>7

LEMMA StepIsTyped ==
  ASSUME Types, [Next]_vars
  PROVE  Types'
<1>1. CASE UNCHANGED vars
  BY <1>1, Undisturbed DEF vars, Types
<1>2. CASE Next
  BY <1>2, ServerIsTyped, PageIsTyped, ScreenIsTyped, WireIsTyped, AnswerIsTyped, StoredIsTyped,
     QueueIsTyped, ChoiceIsTyped, ReadIsTyped, FlushIsTyped DEF Next
<1>. QED
  BY <1>1, <1>2

LEMMA StartIsTyped ==
  ASSUME Init
  PROVE  Types
<1>1. NoteType /\ TruthType /\ LeftType
  BY BlankIsADraft, BoundsAssumption DEF Init, NoteType, TruthType, LeftType
<1>2. DevType
  BY BlankIsADraft, NothingIsTyped DEF Init, DevType, Note, Notes
<1>3. EdType
  BY UnopenedIsAnEditor DEF Init, EdType
<1>4. NetType /\ TriesLeft
  BY NothingIsTyped DEF Init, NetType, TriesLeft, NoFlush, Answers
<1>. QED
  BY <1>1, <1>2, <1>3, <1>4 DEF Types

(* Every part keeps its type, whatever the bounds and with every window open: *)
(* an entry of the queue is never tried more than MaxAttempts times, and what *)
(* is queued, sent and folded together is always a PATCH of known fields.     *)
THEOREM Typing == Spec => []TypeOK
<1>1. Types => TypeOK
  BY DEF Types, TypeOK, NoteType, DevType, EdType, NetType, Editors, Models, Flights, Seens, Notes, Answers
<1>2. Spec => []Types
  BY StartIsTyped, StepIsTyped, PTL DEF Spec
<1>. QED
  BY <1>1, <1>2, PTL

-----------------------------------------------------------------------------
(* The inductive invariant                                                    *)
(*                                                                            *)
(* Everything is said of a screen e, the note n the server has, the entry q   *)
(* of the queue and the words H that were given up.                           *)

Idle(e) == e.fly.pc = "idle"
Acts(e) == e.at = "open" \/ (e.at = "gone" /\ (~Idle(e) \/ e.timer = "wait"))
Quiet == {"clean", "saved", "queued"}

Has(q, g) == IF g \in DOMAIN q.patch.set THEN q.patch.set[g] ELSE {}

\* Where a word of field g is found again, and a draft all of whose words are.
Found(n, q, H, g) == n.draft[g] \cup Has(q, g) \cup H
Findable(n, q, H, d) == \A g \in Fields : d[g] \subseteq Found(n, q, H, g)

\* A draft that may be written over the note: nothing there is unknown to it.
Knows(n, H, d) == \A g \in Fields : n.draft[g] \subseteq d[g] \cup H

\* A copy at version v goes out as the newest, or the queued edit it holds does.
Newest(n, q, v) == v = n.ver \/ (q # NoEntry /\ q.patch.ver = n.ver)

(* What a screen shows is of a version the server had, and when it is the     *)
(* newest, knows the note.                                                    *)
Dated(e, n) == e.m.ver <= n.ver /\ e.sees.base <= n.ver
Informed(e, n, q, H) ==
  e.m.state # "conflict" /\ Newest(n, q, e.m.ver) => Knows(n, H, e.m.draft)

(* The words last saved and the server's last copy are still on the screen,   *)
(* and the latter are still to be found.                                      *)
Covers(e, n, q, H) ==
  e.m.state # "conflict" => \A g \in Fields :
    /\ e.m.saved[g] \subseteq e.m.draft[g] \cup H
    /\ e.m.server[g] \subseteq e.m.draft[g] \cup H
    /\ e.m.server[g] \subseteq Found(n, q, H, g)

(* A screen that says nothing, Saved, or waiting to sync, has nothing else.   *)
SaysSo(e, n, q, H) ==
  e.m.state \in Quiet => e.m.draft = e.m.saved /\ Findable(n, q, H, e.m.draft)

(* Both sides of a conflict are held, with what the queue holds.              *)
Chooses(e, n, q, H) ==
  e.m.state = "conflict" =>
    /\ Idle(e) /\ e.m.theirs.ver <= n.ver
    /\ e.m.theirs.ver = n.ver => Knows(n, H, e.m.theirs.draft)
    /\ \A g \in Fields :
          /\ e.m.theirs.draft[g] \subseteq n.draft[g] \cup H
          /\ e.m.saved[g] \subseteq e.m.draft[g] \cup e.m.theirs.draft[g] \cup H
          /\ Has(q, g) \subseteq e.m.draft[g]
    /\ q # NoEntry => q.patch.ver <= e.m.theirs.ver

Shape(e) ==
  /\ ~Idle(e) => e.m.state \in {"saving", "dirty"}
  /\ Idle(e) => e.m.state # "saving"
  /\ e.at = "gone" => e.timer \in {"none", "wait"}
  /\ e.asking => e.at = "open" /\ Idle(e) /\ e.m.state \in Quiet

(* What is typed and not sent will be: a timer is armed, or a save asked for. *)
Waits(e) == e.timer \in {"debounce", "wait"}
Armed(e) ==
  /\ Idle(e) /\ e.m.state = "dirty" => Waits(e)
  /\ ~Idle(e) /\ e.m.draft # e.fly.sent => e.again \/ Waits(e)

(* An entry queued from this screen since a closure last read the queue.      *)
QueuedHere(e, q, H) ==
  /\ q.patch.ver <= e.m.ver
  /\ \A g \in DOMAIN q.patch.set :
        /\ q.patch.set[g] \subseteq e.m.draft[g]
        /\ e.m.server[g] \subseteq q.patch.set[g] \cup H
        /\ e.m.saved[g] \subseteq q.patch.set[g] \cup H
Missed(s, q) == q # NoEntry /\ s.seen.read /\ s.seen.entry.key # q.key
Behind(e, q, H) ==
  /\ e.timer = "debounce" \/ e.at = "gone"
  /\ e.m.state \in {"dirty", "saving", "error"}
  /\ Missed(e.sees, q)
  => QueuedHere(e, q, H) /\ (~Idle(e) => e.fly.sent = e.m.draft)

(* What is on the wire: the fields that differ from the server's, as they     *)
(* were sent, over what is queued.                                            *)
Sends(e, H) ==
  LET f == e.fly IN
    /\ f.patch.ver = e.m.ver /\ DOMAIN f.patch.set \subseteq Fields
    /\ \A g \in Fields :
          /\ f.sent[g] \subseteq e.m.draft[g] /\ e.m.server[g] \subseteq f.sent[g] \cup H
          /\ g \in DOMAIN f.patch.set => f.patch.set[g] = f.sent[g]
          /\ g \notin DOMAIN f.patch.set => f.sent[g] = e.m.server[g]
Lands(f, n, H) ==
  /\ f.sees.base <= n.ver
  /\ f.pc # "stored" /\ f.patch.ver = n.ver => Knows(n, H, f.sent)
  /\ f.pc = "stored" =>
        /\ f.patch.ver < n.ver
        /\ f.patch.ver + 1 = n.ver => Knows(n, H, f.sent)
        /\ \A g \in DOMAIN f.patch.set : f.sent[g] \subseteq n.draft[g] \cup H
ReadsIt(s, q) == s.seen.read /\ s.seen.entry.key = q.key
Replaces(f, n, q, H) ==
  q # NoEntry =>
    /\ \A g \in DOMAIN q.patch.set :
          /\ q.patch.set[g] \subseteq f.sent[g]
          /\ g \in DOMAIN f.patch.set \/ f.sent[g] \subseteq q.patch.set[g] \cup H
          /\ g \in DOMAIN f.patch.set \/ f.sees.seen.read \/ f.sent[g] \subseteq n.draft[g] \cup H
    /\ ReadsIt(f.sees, q) => DOMAIN q.patch.set \subseteq DOMAIN f.patch.set
    /\ ReadsIt(f.sees, q) \/ q.patch.ver <= f.patch.ver
Flies(e, n, q, H) ==
  ~Idle(e) => Sends(e, H) /\ Lands(e.fly, n, H) /\ Replaces(e.fly, n, q, H)

Sane(e, n, q, H) ==
  /\ Dated(e, n) /\ Informed(e, n, q, H) /\ Covers(e, n, q, H) /\ SaysSo(e, n, q, H)
  /\ Chooses(e, n, q, H) /\ Shape(e) /\ Behind(e, q, H) /\ Flies(e, n, q, H)
Good(e, n, q, H) == Sane(e, n, q, H) /\ Armed(e)

Given == truth.given
Q == dev.q.patch.set

OneScreen == \A i, j \in Visits : Acts(ed[i]) /\ Acts(ed[j]) => i = j
Screens ==
  \A i \in Visits : /\ ed[i].at = "out" => ed[i] = Unopened
                    /\ ed[i].asking => Acts(ed[i])
                    /\ Acts(ed[i]) => Good(ed[i], note, dev.q, Given)

(* The device: nothing on it is newer than the note, and what was read of the *)
(* queue is what it holds.                                                    *)
DeviceInv ==
  /\ dev.cache.ver <= note.ver /\ dev.q.patch.ver <= note.ver
  /\ dev.seen.read /\ dev.q # NoEntry => dev.seen.entry.key = dev.q.key
  /\ dev.q.key = 0 => dev.q = NoEntry
  /\ note.done \subseteq 1..dev.keys

(* A copy or an entry that may go out as the newest knows the note; an entry  *)
(* that was stored is on it.                                                  *)
Aware ==
  /\ Newest(note, dev.q, dev.cache.ver) => Knows(note, Given, dev.cache.draft)
  /\ dev.q # NoEntry /\ dev.q.patch.ver = note.ver =>
        \A g \in DOMAIN Q : note.draft[g] \subseteq Q[g] \cup Given
  /\ dev.q.key \in note.done => \A g \in DOMAIN Q : Q[g] \subseteq note.draft[g] \cup Given

(* The copy a screen is opened from shows what is to be found, and what the   *)
(* screen it is open on is sending again.                                     *)
Resent(g) == UNION {ed[i].m.draft[g] \ ed[i].m.server[g] : i \in {j \in Visits : Open(j)}}
CacheInv ==
  \A g \in Fields : dev.cache.draft[g] \subseteq Found(note, dev.q, Given, g) \cup Resent(g)

FlushInv ==
  LET x == net.flush.entry IN
  net.flush.pc # "idle" =>
    /\ x.key \in 1..dev.keys /\ x.patch.ver <= note.ver
    /\ net.flush.pc = "stored" => x.key \in note.done
    /\ \A g \in DOMAIN x.patch.set :
          IF x.key \in note.done THEN x.patch.set[g] \subseteq note.draft[g] \cup Given
          ELSE x.patch.ver = note.ver => note.draft[g] \subseteq x.patch.set[g] \cup Given

(* A key names one edit, wherever it was read to.                             *)
Copies ==
  {NoEntry, dev.q, dev.seen.entry, net.flush.entry}
    \cup {ed[i].sees.seen.entry : i \in Visits} \cup {ed[i].fly.sees.seen.entry : i \in Visits}
KeysInv ==
  \A x \in Copies : x.key <= dev.keys /\ \A y \in Copies : x.key = y.key => x.patch = y.patch

(* Every word was typed here, filed or written elsewhere; the next is new.    *)
Known == truth.typed \cup {Paragraph, Elsewhere}
FromSomebody ==
  /\ Given \subseteq Known
  /\ \A g \in Fields : /\ note.draft[g] \subseteq Known /\ Has(dev.q, g) \subseteq Known
                       /\ Has(net.flush.entry, g) \subseteq Known
                       /\ \A i \in Visits : ed[i].m.draft[g] \subseteq Known
NewWords == IsFiniteSet(truth.typed) /\ \A w \in truth.typed : w <= Cardinality(truth.typed)

Drafted(g) == UNION {ed[i].m.draft[g] : i \in Visits}
AllKept ==
  \A w \in truth.typed \ Given : \E g \in Fields : w \in Found(note, dev.q, Given, g) \cup Drafted(g)
OnServer == \A w \in truth.landed \ Given : \E g \in Fields : w \in note.draft[g]

Core ==
  /\ OneScreen /\ Screens /\ DeviceInv /\ Aware /\ CacheInv /\ FlushInv /\ KeysInv
  /\ FromSomebody /\ NewWords /\ AllKept /\ OnServer

(* Where words were overtaken none counts any more.                           *)
Inv == Types /\ (Core \/ Words \subseteq Given)

-----------------------------------------------------------------------------
(* The save                                                                   *)

(* The closure a save reads through: of the entry the queue holds, or of one  *)
(* from before this screen queued it.                                         *)
SeesRight(s, e, n, q, H) ==
  /\ s.base <= n.ver
  /\ q # NoEntry =>
        IF ReadsIt(s, q) THEN s.seen.entry.patch = q.patch
        ELSE /\ QueuedHere(e, q, H)
             /\ s.seen.read \/ \A g \in DOMAIN q.patch.set : e.m.server[g] \subseteq n.draft[g] \cup H

Shown(f) ==
  LET s == f.sees.seen.entry.patch.set IN
  f.pc = "sent" => /\ DOMAIN s \subseteq DOMAIN f.patch.set
                   /\ \A g \in DOMAIN s : s[g] \subseteq f.sent[g] /\ f.patch.set[g] = f.sent[g]

(* With every window closed, what a request goes over is shown by the draft   *)
(* it sends.                                                                  *)
LEMMA FitsIsShown ==
  ASSUME Windows = {}, NEW f, Fits(f)
  PROVE  Shown(f) /\ (f.pc = "sent" => f.sees.seen.read \/ dev.q = NoEntry)
<1>. DEFINE s == f.sees.seen.entry.patch.set
<1>1. f.pc = "sent" =>
        /\ \A g \in DOMAIN s : s[g] \subseteq f.sent[g] /\ Upon(f.patch.set, s)[g] = f.sent[g]
        /\ DOMAIN s \subseteq DOMAIN f.patch.set
        /\ (f.sees.seen.read \/ dev.q = NoEntry)
  BY DEF Fits
<1>2. \A g \in DOMAIN s : g \in DOMAIN f.patch.set => Upon(f.patch.set, s)[g] = f.patch.set[g]
  BY DEF Upon
<1>. QED
  BY <1>1, <1>2 DEF Shown

(* A save that begins sends what is on the screen, over what the queue holds. *)
LEMMA BeginKeeps ==
  ASSUME NEW e \in Editors, NEW s \in Sights, NEW q \in Entries, NEW n, n.ver \in Nat, NEW H,
         Sane(e, n, q, H), Idle(e),
         e.m.state \in {"dirty", "error"} => SeesRight(s, e, n, q, H) /\ Shown(Begin(e, s).fly)
  PROVE  Good(Begin(e, s), n, q, H)
<1>1. CASE e.m.state \notin {"dirty", "error"}
  BY <1>1 DEF Begin, Good, Armed
<1>2. CASE e.m.state \in {"dirty", "error"}
  <2>. DEFINE mine == PatchFor(e.m)
              p == IF Held(s.seen) = "pending" THEN Over(s.seen.entry.patch, mine) ELSE mine
              b == Begin(e, s)
              old == s.seen.entry.patch.set
  <2>1. /\ b.m = [e.m EXCEPT !.state = "saving"]
        /\ b.fly = [pc |-> "sent", sent |-> e.m.draft, sees |-> s, patch |-> p]
        /\ b.at = e.at /\ b.timer = e.timer /\ b.sees = e.sees /\ b.asking = e.asking
        /\ b.again = e.again
    BY <1>2 DEF Begin, SaveStart, Editors
  <2>2. /\ b.m.draft = e.m.draft /\ b.m.saved = e.m.saved /\ b.m.server = e.m.server
        /\ b.m.ver = e.m.ver /\ b.m.state = "saving" /\ b.m.theirs = e.m.theirs
    BY <2>1 DEF Editors, Models
  <2>3. /\ mine.ver = e.m.ver /\ DOMAIN mine.set = {g \in Fields : e.m.draft[g] # e.m.server[g]}
        /\ \A g \in DOMAIN mine.set : mine.set[g] = e.m.draft[g]
    BY DEF PatchFor, Patch
  <2>4. DOMAIN old \subseteq Fields
    BY SetsHaveFields, EntriesAreEntries DEF Sights, Seens, Patches
  <2>5. /\ p.ver = e.m.ver /\ DOMAIN mine.set \subseteq DOMAIN p.set
        /\ DOMAIN p.set \subseteq Fields
        /\ \A g \in DOMAIN p.set : p.set[g] = IF g \in DOMAIN mine.set THEN mine.set[g] ELSE old[g]
        /\ \A g \in DOMAIN p.set : g \in DOMAIN mine.set \/ g \in DOMAIN old
    BY <2>3, <2>4 DEF Over, Patch, Upon
  <2>6. /\ DOMAIN old \subseteq DOMAIN p.set
        /\ \A g \in DOMAIN old : old[g] \subseteq e.m.draft[g] /\ p.set[g] = e.m.draft[g]
    BY <1>2, <2>1 DEF Shown
  <2>7. \A g \in DOMAIN p.set : p.set[g] = e.m.draft[g]
    BY <2>3, <2>5, <2>6
  <2>. HIDE DEF mine, p, b, old
  <2>8. Dated(b, n) /\ Informed(b, n, q, H) /\ Covers(b, n, q, H) /\ SaysSo(b, n, q, H) /\ Chooses(b, n, q, H)
    BY <1>2, <2>1, <2>2 DEF Sane, Dated, Informed, Covers, SaysSo, Chooses, Quiet
  <2>9. Shape(b) /\ Armed(b)
    BY <1>2, <2>1, <2>2 DEF Sane, Shape, Armed, Idle, Quiet
  <2>10. Behind(b, q, H)
    BY <1>2, <2>1, <2>2 DEF Sane, Behind, QueuedHere, Idle
  <2>11. Sends(b, H)
    BY <1>2, <2>1, <2>2, <2>3, <2>5, <2>7 DEF Sends, Sane, Covers
  <2>12. Lands(b.fly, n, H)
    BY <1>2, <2>1, <2>2, <2>5 DEF Lands, Sane, Informed, Newest, SeesRight
  <2>13. Replaces(b.fly, n, q, H)
    <3>. SUFFICES ASSUME q # NoEntry PROVE Replaces(b.fly, n, q, H)
      BY DEF Replaces
    <3>0. DOMAIN q.patch.set \subseteq Fields
      BY SetsHaveFields, EntriesAreEntries DEF Patches
    <3>1. CASE ReadsIt(s, q)
      <4>1. q.patch.set = old
        BY <1>2, <3>1 DEF SeesRight, old
      <4>. QED
        BY <2>1, <2>6, <3>1, <4>1 DEF Replaces
    <3>2. CASE ~ReadsIt(s, q)
      <4>1. QueuedHere(e, q, H) /\ (s.seen.read \/ \A g \in DOMAIN q.patch.set : e.m.server[g] \subseteq n.draft[g] \cup H)
        BY <1>2, <3>2 DEF SeesRight
      <4>2. \A g \in DOMAIN q.patch.set : g \notin DOMAIN p.set => e.m.draft[g] = e.m.server[g]
        BY <2>3, <2>5, <3>0
      <4>. QED
        BY <2>1, <2>5, <3>2, <4>1, <4>2 DEF Replaces, QueuedHere
    <3>. QED
      BY <3>1, <3>2
  <2>. QED
    BY <2>8, <2>9, <2>10, <2>11, <2>12, <2>13 DEF Good, Sane, Flies, b
<1>. QED
  BY <1>1, <1>2

(* A save asked for while one runs is remembered; else it begins.             *)
LEMMA SaveKeeps ==
  ASSUME NEW e \in Editors, NEW s \in Sights, NEW q \in Entries, NEW n, n.ver \in Nat, NEW H,
         Sane(e, n, q, H),
         Idle(e) /\ e.m.state \in {"dirty", "error"} => SeesRight(s, e, n, q, H) /\ Shown(Save(e, s).fly)
  PROVE  Good(Save(e, s), n, q, H)
<1>1. CASE Idle(e)
  BY <1>1, BeginKeeps DEF Save, Idle
<1>2. CASE ~Idle(e)
  <2>1. Save(e, s) = [e EXCEPT !.again = TRUE]
    BY <1>2 DEF Save, Idle
  <2>. QED
    BY <1>2, <2>1 DEF Good, Sane, Dated, Informed, Covers, SaysSo, Chooses, Shape, Behind, Flies, Armed, Idle,
                      Sends, QueuedHere, Editors
<1>. QED
  BY <1>1, <1>2

Grounds(e) == [e EXCEPT !.fly = Grounded, !.again = FALSE]

(* A save that is over: the one asked for meanwhile begins.                   *)
LEMMA SettledKeeps ==
  ASSUME NEW e \in Editors, NEW s \in Sights, NEW q \in Entries, NEW n, n.ver \in Nat, NEW H,
         Sane(Grounds(e), n, q, H),
         e.m.state = "dirty" => e.again \/ Waits(e),
         e.again /\ e.m.state \in {"dirty", "error"} =>
            SeesRight(s, Grounds(e), n, q, H) /\ Shown(Settled(e, s).fly)
  PROVE  Good(Settled(e, s), n, q, H)
<1>. DEFINE g == Grounds(e)
<1>1. g \in Editors /\ g.fly.pc = "idle" /\ g.m = e.m /\ g.timer = e.timer /\ ~g.again
  BY NothingIsTyped DEF Grounds, Editors, Grounded
<1>2. Settled(e, s) = IF e.again THEN Begin(g, s) ELSE g
  BY DEF Settled, Grounds
<1>. HIDE DEF g
<1>3. Sane(g, n, q, H) /\ (e.again /\ e.m.state \in {"dirty", "error"} =>
            SeesRight(s, g, n, q, H) /\ Shown(Settled(e, s).fly))
  BY DEF g
<1>4. CASE e.again
  BY <1>1, <1>2, <1>3, <1>4, BeginKeeps DEF Idle
<1>5. CASE ~e.again
  BY <1>1, <1>2, <1>3, <1>5 DEF Good, Armed, Idle, Waits
<1>. QED
  BY <1>4, <1>5

(* A screen that rests leaves behind what it could not save, and nothing else *)
(* that is not to be found.                                                   *)
LEMMA RestedLeaves ==
  ASSUME NEW e \in Editors, NEW q, NEW n, NEW H, Good(e, n, q, H), e.at # "out"
  PROVE  /\ Rested(e).at = e.at /\ (Rested(e).asking => Acts(Rested(e)))
         /\ e.at = "open" \/ Acts(e) \/ Acts(Rested(e)) => Rested(e) = e
         /\ \A g \in Fields : /\ Rested(e).m.draft[g] \subseteq e.m.draft[g]
                              /\ e.m.draft[g] \subseteq Rested(e).m.draft[g] \cup Found(n, q, H, g)
         /\ Rested(e) # e => /\ Rested(e).sees.seen.entry = NoEntry
                             /\ Rested(e).fly.sees.seen.entry = NoEntry
<1>1. CASE Acts(e) \/ e.at = "open"
  <2>1. Rested(e) = e /\ Acts(e)
    BY <1>1 DEF Rested, Acts, Idle
  <2>. QED
    BY <1>1, <2>1
<1>2. CASE ~Acts(e) /\ e.at # "open"
  <2>. DEFINE d == IF e.m.state \in {"error", "conflict"} THEN e.m.draft ELSE Blank
              m == [Unopened.m EXCEPT !.draft = d]
  <2>1. e.at = "gone" /\ Idle(e) /\ e.timer # "wait"
    BY <1>2 DEF Acts, Editors
  <2>2. Unopened.m \in Models /\ Unopened \in Editors
    BY UnopenedIsAnEditor DEF Editors
  <2>3. Rested(e) = [Unopened EXCEPT !.at = "gone", !.m = m]
    BY <2>1, <2>2 DEF Rested, Idle, Editors
  <2>4. m.draft = d
    BY <2>2 DEF Models
  <2>5. Unopened.sees = Blind /\ Unopened.fly = Grounded /\ Unopened.timer = "none" /\ ~Unopened.asking
    BY DEF Unopened
  <2>. HIDE DEF m, d
  <2>6. /\ Rested(e).at = "gone" /\ Rested(e).m.draft = d /\ Rested(e).sees = Blind
        /\ Rested(e).fly = Grounded /\ Rested(e).timer = "none" /\ ~Rested(e).asking
    BY <2>2, <2>3, <2>4, <2>5 DEF Editors
  <2>7. ~Acts(Rested(e))
    BY <2>6 DEF Acts, Idle, Grounded
  <2>8. e.m.state \in Quiet \cup {"error", "conflict"}
    BY <2>1 DEF Good, Sane, Shape, Armed, Waits, Quiet, Editors, Models, SaveStates
  <2>9. \A g \in Fields : Blank[g] = {}
    BY DEF Blank
  <2>10. \A g \in Fields : /\ d[g] \subseteq e.m.draft[g]
                           /\ e.m.draft[g] \subseteq d[g] \cup Found(n, q, H, g)
    BY <2>8, <2>9 DEF d, Good, Sane, SaysSo, Findable
  <2>. QED
    BY <1>2, <2>1, <2>6, <2>7, <2>10 DEF Blind, Unread, Sees, Grounded
<1>. QED
  BY <1>1, <1>2

(* The note moves on: what was known of it is known of it or out of date.     *)
Moves(n, n2, H, H2) ==
  /\ n.ver \in Nat /\ n2.ver \in Nat /\ n.ver <= n2.ver
  /\ n2.ver = n.ver => n2.draft = n.draft
  /\ \A g \in Fields : n.draft[g] \subseteq n2.draft[g] \cup H2
  /\ H \subseteq H2

(* A screen stands when the note moves on under it.                           *)
LEMMA GoodMoves ==
  ASSUME NEW e \in Editors, NEW q \in Entries, NEW n, NEW n2, NEW H, NEW H2,
         Good(e, n, q, H), Moves(n, n2, H, H2), q.patch.ver <= n.ver
  PROVE  Good(e, n2, q, H2)
<1>0. /\ e.m.ver \in Nat /\ e.sees.base \in Nat /\ e.m.theirs.ver \in Nat /\ q.patch.ver \in Nat
      /\ e.fly.patch.ver \in Nat /\ e.fly.sees.base \in Nat
  BY EntriesAreEntries DEF Editors, Models, Theirs, Sights, Flights, Patches
<1>a. \A g \in Fields : Found(n, q, H, g) \subseteq Found(n2, q, H2, g)
  BY DEF Moves, Found
<1>b. \A d : Knows(n, H, d) /\ n2.ver = n.ver => Knows(n2, H2, d)
  BY DEF Moves, Knows
<1>1. Dated(e, n2)
  BY <1>0 DEF Good, Sane, Dated, Moves
<1>2. Informed(e, n2, q, H2)
  <2>1. Dated(e, n) /\ Informed(e, n, q, H)
    BY DEF Good, Sane
  <2>2. Newest(n2, q, e.m.ver) => n2.ver = n.ver /\ Newest(n, q, e.m.ver)
    BY <1>0, <2>1 DEF Newest, Dated, Moves
  <2>. QED
    BY <1>b, <2>1, <2>2 DEF Informed
<1>3. Covers(e, n2, q, H2)
  BY <1>a DEF Good, Sane, Covers, Moves
<1>4. SaysSo(e, n2, q, H2)
  BY <1>a DEF Good, Sane, SaysSo, Findable
<1>5. Chooses(e, n2, q, H2)
  <2>. SUFFICES ASSUME e.m.state = "conflict" PROVE Chooses(e, n2, q, H2)
    BY DEF Chooses
  <2>1. Chooses(e, n, q, H)
    BY DEF Good, Sane
  <2>2. e.m.theirs.ver <= n2.ver /\ (e.m.theirs.ver = n2.ver => n2.ver = n.ver)
    BY <1>0, <2>1 DEF Chooses, Moves
  <2>. QED
    BY <1>b, <2>1, <2>2 DEF Chooses, Moves
<1>6. Behind(e, q, H2)
  BY DEF Good, Sane, Behind, QueuedHere, Moves
<1>7. Flies(e, n2, q, H2)
  <2>. SUFFICES ASSUME ~Idle(e) PROVE Sends(e, H2) /\ Lands(e.fly, n2, H2) /\ Replaces(e.fly, n2, q, H2)
    BY DEF Flies
  <2>1. Sends(e, H) /\ Lands(e.fly, n, H) /\ Replaces(e.fly, n, q, H)
    BY DEF Good, Sane, Flies
  <2>2. Sends(e, H2)
    BY <2>1 DEF Sends, Moves
  <2>3. Lands(e.fly, n2, H2)
    <3>0. Dated(e, n)
      BY DEF Good, Sane
    <3>1. e.fly.patch.ver <= n.ver
      BY <2>1, <3>0 DEF Sends, Dated
    <3>2. e.fly.patch.ver = n2.ver => n2.ver = n.ver
      BY <1>0, <3>1 DEF Moves
    <3>3. CASE e.fly.pc = "stored"
      <4>1. e.fly.patch.ver < n2.ver /\ (e.fly.patch.ver + 1 = n2.ver => n2.ver = n.ver)
        BY <1>0, <2>1, <3>3 DEF Lands, Moves
      <4>2. e.fly.sees.base <= n2.ver
        BY <1>0, <2>1 DEF Lands, Moves
      <4>3. DOMAIN e.fly.patch.set \subseteq Fields
        BY <2>1 DEF Sends
      <4>4. \A g \in DOMAIN e.fly.patch.set : e.fly.sent[g] \subseteq n2.draft[g] \cup H2
        BY <2>1, <3>3, <4>3 DEF Lands, Moves
      <4>. QED
        BY <1>b, <2>1, <3>3, <4>1, <4>2, <4>4 DEF Lands
    <3>4. CASE e.fly.pc # "stored"
      <4>2. e.fly.sees.base <= n2.ver
        BY <1>0, <2>1 DEF Lands, Moves
      <4>. QED
        BY <1>b, <2>1, <3>2, <3>4, <4>2 DEF Lands
    <3>. QED
      BY <3>3, <3>4
  <2>4. Replaces(e.fly, n2, q, H2)
    <3>1. DOMAIN q.patch.set \subseteq Fields
      BY SetsHaveFields, EntriesAreEntries DEF Patches
    <3>. QED
      BY <2>1, <3>1 DEF Replaces, Moves
  <2>. QED
    BY <2>2, <2>3, <2>4
<1>8. Shape(e) /\ Armed(e)
  BY DEF Good, Sane
<1>. QED
  BY <1>1, <1>2, <1>3, <1>4, <1>5, <1>6, <1>7, <1>8 DEF Good, Sane

(* The entry is retried, retired, or gone with its words on the server.       *)
Settles(q, q2, n, H) ==
  \/ q2 # NoEntry /\ q # NoEntry /\ q2.key = q.key /\ q2.patch = q.patch
  \/ q2 = NoEntry /\ \A g \in Fields : Has(q, g) \subseteq n.draft[g] \cup H

(* An empty queue holds no word.                                              *)
LEMMA NothingIsHeld == \A g : Has(NoEntry, g) = {}
  BY NothingIsASet DEF Has, NoEntry, Patch

(* What leaves the queue with its entry is found on the note.                 *)
LEMMA SettlesFinds ==
  ASSUME NEW q \in Entries, NEW q2, NEW n, NEW H, Settles(q, q2, n, H)
  PROVE  \A g \in Fields : Found(n, q, H, g) = Found(n, q2, H, g)
BY NothingIsHeld DEF Settles, Found, Has

(* A screen stands when the entry is settled.                                 *)
LEMMA GoodSettles ==
  ASSUME NEW e \in Editors, NEW q \in Entries, NEW q2 \in Entries, NEW n, NEW H,
         Good(e, n, q, H), Settles(q, q2, n, H)
  PROVE  Good(e, n, q2, H)
<1>a. \A g \in Fields : Found(n, q, H, g) = Found(n, q2, H, g)
  BY SettlesFinds
<1>b. \A g \in Fields : Has(q2, g) \subseteq Has(q, g)
  BY NothingIsHeld DEF Settles, Has
<1>c. q2 # NoEntry => q # NoEntry /\ q2.key = q.key /\ q2.patch = q.patch
  BY DEF Settles
<1>1. Dated(e, n) /\ Shape(e) /\ Armed(e)
  BY DEF Good, Sane
<1>2. Informed(e, n, q2, H)
  BY <1>c DEF Good, Sane, Informed, Newest
<1>3. Covers(e, n, q2, H) /\ SaysSo(e, n, q2, H)
  BY <1>a DEF Good, Sane, Covers, SaysSo, Findable
<1>4. Chooses(e, n, q2, H)
  BY <1>b, <1>c DEF Good, Sane, Chooses
<1>5. Behind(e, q2, H)
  BY <1>c DEF Good, Sane, Behind, Missed, QueuedHere
<1>6. Flies(e, n, q2, H)
  <2>. SUFFICES ASSUME ~Idle(e) PROVE Sends(e, H) /\ Lands(e.fly, n, H) /\ Replaces(e.fly, n, q2, H)
    BY DEF Flies
  <2>. QED
    BY <1>c DEF Good, Sane, Flies, Replaces, ReadsIt
<1>. QED
  BY <1>1, <1>2, <1>3, <1>4, <1>5, <1>6 DEF Good, Sane

-----------------------------------------------------------------------------
(* One screen moves                                                           *)

Turn(i, e) == ed' = [j \in Visits |-> IF j = i THEN Rested(e) ELSE ed[j]]
Alone(i) == \A j \in Visits \ {i} : ~Acts(ed[j])

(* An action of one screen turns that one.                                    *)
LEMMA SetTurns ==
  ASSUME Types, NEW i \in Visits, NEW e, Set(i, e)
  PROVE  Turn(i, e) /\ Fits(e.fly)
BY DEF Set, Turn, Types, EdType

(* So does an answer that is written to the caches: no other screen reads     *)
(* them.                                                                      *)
LEMMA RecordTurns ==
  ASSUME NEW i \in Visits, NEW e, NEW n, Alone(i), Record(i, e, n)
  PROVE  Turn(i, e) /\ Fits(e.fly)
BY DEF Record, Turn, Alone, OnNote, Acts

(* No two screens act at once.                                                *)
LEMMA OthersAreOff ==
  ASSUME OneScreen, NEW i \in Visits, Acts(ed[i])
  PROVE  Alone(i)
BY DEF OneScreen, Alone

(* One good screen for another.                                               *)
LEMMA ScreensTurn ==
  ASSUME Screens, NEW i \in Visits, Alone(i), NEW e \in Editors, e.at # "out", Turn(i, e),
         Good(e, note', dev'.q, Given')
  PROVE  OneScreen' /\ Screens' /\ Alone(i)'
<1>. DEFINE r == Rested(e)
<1>1. r.at = e.at /\ (Acts(r) => r = e) /\ (r.asking => Acts(r))
  BY RestedLeaves
<1>2. ed' = [j \in Visits |-> IF j = i THEN r ELSE ed[j]]
  BY DEF Turn
<1>. HIDE DEF r
<1>3. ed'[i] = r /\ \A j \in Visits \ {i} : ed'[j] = ed[j]
  BY <1>2
<1>4. Alone(i)'
  BY <1>3 DEF Alone, Acts, Idle
<1>5. OneScreen'
  BY <1>4 DEF OneScreen, Alone
<1>6. Screens'
  <2>. SUFFICES ASSUME NEW j \in Visits
                PROVE  /\ ed'[j].at = "out" => ed'[j] = Unopened
                       /\ ed'[j].asking => Acts(ed'[j])
                       /\ Acts(ed'[j]) => Good(ed'[j], note', dev'.q, Given')
    BY DEF Screens
  <2>1. CASE j = i
    BY <1>1, <1>3, <2>1
  <2>2. CASE j # i
    BY <1>3, <2>2 DEF Alone, Screens
  <2>. QED
    BY <2>1, <2>2
<1>. QED
  BY <1>4, <1>5, <1>6

(* What the copy may show beside what is to be found is on the one screen.    *)
Ahead(e, g) == IF e.at = "open" THEN e.m.draft[g] \ e.m.server[g] ELSE {}

(* What the copy may show beside what is found is on the screen that acts.    *)
LEMMA ResentIsThere ==
  ASSUME NEW i \in Visits, Alone(i), NEW g
  PROVE  Resent(g) = Ahead(ed[i], g)
BY DEF Resent, Ahead, Alone, Acts, Open

(* The copy still shows no more than that.                                    *)
LEMMA CacheTurns ==
  ASSUME NEW i \in Visits, Alone(i)', NEW e \in Editors, e.at # "out", Turn(i, e),
         Good(e, note', dev'.q, Given'),
         \A g \in Fields : dev'.cache.draft[g] \subseteq Found(note', dev'.q, Given', g) \cup Ahead(e, g)
  PROVE  CacheInv'
<1>1. ed'[i] = Rested(e)
  BY DEF Turn
<1>2. Rested(e).at = e.at /\ (e.at = "open" => Rested(e) = e)
  BY RestedLeaves
<1>3. \A g : Ahead(e, g) = Ahead(ed'[i], g)
  BY <1>1, <1>2 DEF Ahead
<1>4. \A g : Resent(g)' = Ahead(ed'[i], g)
  BY DEF Resent, Ahead, Alone, Acts, Open
<1>. QED
  BY <1>3, <1>4 DEF CacheInv

(* The edits a screen holds are known by their keys.                          *)
LEMMA KeysTurn ==
  ASSUME KeysInv, NEW i \in Visits, NEW e \in Editors, e.at # "out", Turn(i, e),
         Good(e, note', dev'.q, Given'),
         e.sees.seen.entry \in Copies \cup {dev'.q}, e.fly.sees.seen.entry \in Copies \cup {dev'.q},
         dev'.q \in Copies, dev'.seen.entry \in Copies, dev'.keys = dev.keys, net'.flush.entry \in Copies
  PROVE  KeysInv'
<1>1. ed'[i] = Rested(e) /\ \A j \in Visits \ {i} : ed'[j] = ed[j]
  BY DEF Turn
<1>2. ed'[i].sees.seen.entry \in Copies /\ ed'[i].fly.sees.seen.entry \in Copies
  BY <1>1, RestedLeaves DEF Copies
<1>3. \A j \in Visits : ed'[j].sees.seen.entry \in Copies /\ ed'[j].fly.sees.seen.entry \in Copies
  BY <1>1, <1>2 DEF Copies
<1>4. NoEntry \in Copies
  BY DEF Copies
<1>5. Copies' \subseteq Copies
  BY <1>3, <1>4 DEF Copies
<1>. QED
  BY <1>5 DEF KeysInv

(* What was written is kept: what leaves a screen or the queue is elsewhere.  *)
LEMMA WordsTurn ==
  ASSUME AllKept, NEW i \in Visits, NEW e \in Editors, e.at # "out", Turn(i, e),
         Good(e, note', dev'.q, Given'), Given \subseteq Given',
         \A g \in Fields : note.draft[g] \cup Has(dev.q, g) \cup ed[i].m.draft[g]
                             \subseteq e.m.draft[g] \cup Found(note', dev'.q, Given', g),
         \A w \in truth'.typed \ truth.typed : \E g \in Fields : w \in e.m.draft[g]
  PROVE  AllKept'
<1>. SUFFICES ASSUME NEW w \in truth'.typed \ Given'
              PROVE  \E g \in Fields : w \in Found(note', dev'.q, Given', g) \cup Drafted(g)'
  BY DEF AllKept
<1>1. ed'[i] = Rested(e) /\ \A j \in Visits \ {i} : ed'[j] = ed[j]
  BY DEF Turn
<1>2. \A g \in Fields : e.m.draft[g] \subseteq ed'[i].m.draft[g] \cup Found(note', dev'.q, Given', g)
  BY <1>1, RestedLeaves
<1>3. PICK g \in Fields : w \in e.m.draft[g] \/ w \in Found(note, dev.q, Given, g) \cup Drafted(g)
  BY DEF AllKept
<1>4. CASE w \in e.m.draft[g] \cup note.draft[g] \cup Has(dev.q, g) \cup ed[i].m.draft[g]
  BY <1>2, <1>4 DEF Drafted
<1>5. CASE \E j \in Visits \ {i} : w \in ed[j].m.draft[g]
  BY <1>1, <1>5 DEF Drafted
<1>. QED
  BY <1>3, <1>4, <1>5 DEF Found, Drafted

(* A screen makes up no word.                                                 *)
LEMMA KnownTurn ==
  ASSUME FromSomebody, NEW i \in Visits, NEW e \in Editors, e.at # "out", Turn(i, e),
         Good(e, note', dev'.q, Given'), truth.typed \subseteq truth'.typed, Given' \subseteq Known',
         \A g \in Fields : /\ note'.draft[g] \subseteq Known' /\ Has(dev'.q, g) \subseteq Known'
                           /\ Has(net'.flush.entry, g) \subseteq Known' /\ e.m.draft[g] \subseteq Known'
  PROVE  FromSomebody'
<1>1. ed'[i] = Rested(e) /\ \A j \in Visits \ {i} : ed'[j] = ed[j]
  BY DEF Turn
<1>2. \A g \in Fields : ed'[i].m.draft[g] \subseteq Known'
  BY <1>1, RestedLeaves
<1>3. \A j \in Visits \ {i} : \A g \in Fields : ed'[j].m.draft[g] \subseteq Known'
  BY <1>1 DEF FromSomebody, Known
<1>. QED
  BY <1>2, <1>3 DEF FromSomebody

(* Only the screen moves.                                                     *)
LEMMA OnScreen ==
  ASSUME Types, Core, NEW i \in Visits, Alone(i), NEW e \in Editors, e.at # "out", Turn(i, e),
         UNCHANGED <<note, dev, net>>, truth'.landed = truth.landed,
         Given \subseteq Given', Given' \subseteq Known', truth.typed \subseteq truth'.typed, NewWords',
         \A w \in truth'.typed \ truth.typed : \E g \in Fields : w \in e.m.draft[g],
         Good(e, note, dev.q, Given'),
         e.sees.seen.entry \in Copies, e.fly.sees.seen.entry \in Copies,
         \A g \in Fields : /\ e.m.draft[g] \subseteq Known'
                           /\ ed[i].m.draft[g] \subseteq e.m.draft[g] \cup Found(note, dev.q, Given', g)
                           /\ dev.cache.draft[g] \subseteq Found(note, dev.q, Given', g) \cup Ahead(e, g)
  PROVE  Core'
<1>1. OneScreen' /\ Screens' /\ Alone(i)'
  BY ScreensTurn DEF Core
<1>2. CacheInv'
  BY <1>1, CacheTurns
<1>3. KeysInv'
  BY KeysTurn DEF Core, Copies
<1>4. AllKept'
  BY WordsTurn DEF Core, Found
<1>5. FromSomebody'
  BY KnownTurn DEF Core, FromSomebody, Known
<1>6. DeviceInv' /\ OnServer'
  BY DEF Core, DeviceInv, OnServer
<1>7. Aware'
  <2>1. Aware /\ DOMAIN Q \subseteq Fields
    BY SetsHaveFields, EntriesAreEntries DEF Core, Types, DevType, Patches, Q
  <2>2. Q' = Q /\ Newest(note', dev'.q, dev'.cache.ver) = Newest(note, dev.q, dev.cache.ver)
    BY DEF Q, Newest
  <2>3. Knows(note, Given, dev.cache.draft) => Knows(note', Given', dev'.cache.draft)
    BY DEF Knows
  <2>. QED
    BY <2>1, <2>2, <2>3 DEF Aware
<1>8. FlushInv'
  <2>1. DOMAIN net.flush.entry.patch.set \subseteq Fields
    BY SetsHaveFields, EntriesAreEntries DEF Types, NetType, Patches
  <2>. QED
    BY <2>1 DEF Core, FlushInv
<1>. QED
  BY <1>1, <1>2, <1>3, <1>4, <1>5, <1>6, <1>7, <1>8 DEF Core

(* Nothing is typed or given up, and the draft stands.                        *)
LEMMA OnScreenAlone ==
  ASSUME Types, Core, NEW i \in Visits, Acts(ed[i]), NEW e \in Editors, Turn(i, e),
         UNCHANGED <<note, dev, net, truth>>, Good(e, note, dev.q, Given),
         e.sees.seen.entry \in Copies, e.fly.sees.seen.entry \in Copies,
         e.at = ed[i].at, e.m.draft = ed[i].m.draft, e.m.server = ed[i].m.server
  PROVE  Core'
<1>1. Alone(i) /\ e.at # "out"
  BY OthersAreOff DEF Core, Acts
<1>2. \A g : Resent(g) = Ahead(ed[i], g) /\ Ahead(ed[i], g) = Ahead(e, g)
  BY <1>1, ResentIsThere DEF Ahead
<1>3. NewWords'
  BY DEF Core, NewWords
<1>4. Known' = Known /\ Given' = Given
  BY DEF Known, Given
<1>5. Given \subseteq Known /\ \A g \in Fields : ed[i].m.draft[g] \subseteq Known
  BY DEF Core, FromSomebody
<1>6. \A g \in Fields : dev.cache.draft[g] \subseteq Found(note, dev.q, Given, g) \cup Ahead(e, g)
  BY <1>2 DEF Core, CacheInv
<1>7. truth'.typed = truth.typed /\ truth'.landed = truth.landed
  OBVIOUS
<1>8. \A g \in Fields : /\ e.m.draft[g] \subseteq Known'
                        /\ ed[i].m.draft[g] \subseteq e.m.draft[g] \cup Found(note, dev.q, Given', g)
                        /\ dev.cache.draft[g] \subseteq Found(note, dev.q, Given', g) \cup Ahead(e, g)
  BY <1>4, <1>5, <1>6
<1>9. Given \subseteq Given' /\ Given' \subseteq Known' /\ Good(e, note, dev.q, Given')
  BY <1>4, <1>5
<1>. QED
  BY <1>1, <1>3, <1>7, <1>8, <1>9, OnScreen

-----------------------------------------------------------------------------
(* The closures                                                               *)

(* What a save leaves of the screen.                                          *)
LEMMA SaveLooks ==
  ASSUME NEW e \in Editors, NEW s
  PROVE  LET b == Save(e, s) IN
         /\ b.at = e.at /\ b.sees = e.sees /\ b.timer = e.timer
         /\ b.m.draft = e.m.draft /\ b.m.server = e.m.server
         /\ b.fly.sees \in {e.fly.sees, s}
         /\ Idle(e) /\ e.m.state \in {"dirty", "error"} => b.fly.pc = "sent" /\ b.fly.sees = s
<1>1. SaveStart(e.m).draft = e.m.draft /\ SaveStart(e.m).server = e.m.server
  BY DEF SaveStart, Editors, Models
<1>2. CASE ~Idle(e)
  BY <1>2 DEF Save, Idle, Editors
<1>3. CASE Idle(e) /\ e.m.state \notin {"dirty", "error"}
  BY <1>3 DEF Save, Begin, Idle
<1>4. CASE Idle(e) /\ e.m.state \in {"dirty", "error"}
  BY <1>1, <1>4 DEF Save, Begin, Idle, Editors
<1>. QED
  BY <1>2, <1>3, <1>4

(* What a save that is over leaves of the screen.                             *)
LEMMA SettledLooks ==
  ASSUME NEW e \in Editors, NEW s
  PROVE  LET b == Settled(e, s) IN
         /\ b.at = e.at /\ b.sees = e.sees /\ b.timer = e.timer
         /\ b.m.draft = e.m.draft /\ b.m.server = e.m.server
         /\ b.fly.sees \in {Blind, s}
         /\ e.again /\ e.m.state \in {"dirty", "error"} => b.fly.pc = "sent" /\ b.fly.sees = s
<1>. DEFINE g == Grounds(e)
<1>1. /\ g \in Editors /\ g.fly.pc = "idle" /\ g.fly.sees = Blind /\ g.m = e.m
      /\ g.timer = e.timer /\ g.at = e.at /\ g.sees = e.sees
  BY NothingIsTyped DEF Grounds, Editors, Grounded
<1>2. Settled(e, s) = IF e.again THEN Save(g, s) ELSE g
  BY <1>1 DEF Settled, Grounds, Save
<1>. HIDE DEF g
<1>3. CASE e.again
  BY <1>1, <1>2, <1>3, SaveLooks DEF Idle
<1>4. CASE ~e.again
  BY <1>1, <1>2, <1>4
<1>. QED
  BY <1>3, <1>4

(* A save of a good screen, its request let through.                          *)
LEMMA SaveGoes ==
  ASSUME Windows = {}, NEW e \in Editors, NEW s \in Sights, NEW q \in Entries,
         NEW n, n.ver \in Nat, NEW H, Sane(e, n, q, H), Fits(Save(e, s).fly),
         Idle(e) /\ e.m.state \in {"dirty", "error"} /\ (s.seen.read \/ dev.q = NoEntry) => SeesRight(s, e, n, q, H)
  PROVE  Good(Save(e, s), n, q, H)
<1>1. ASSUME Idle(e), e.m.state \in {"dirty", "error"}
      PROVE  SeesRight(s, e, n, q, H) /\ Shown(Save(e, s).fly)
  BY <1>1, SaveLooks, FitsIsShown
<1>. QED
  BY <1>1, SaveKeeps

(* The same for the one asked for meanwhile.                                  *)
LEMMA SettledGoes ==
  ASSUME Windows = {}, NEW e \in Editors, NEW s \in Sights, NEW q \in Entries,
         NEW n, n.ver \in Nat, NEW H, Sane(Grounds(e), n, q, H), Fits(Settled(e, s).fly),
         e.m.state = "dirty" => e.again \/ Waits(e),
         e.again /\ e.m.state \in {"dirty", "error"} /\ (s.seen.read \/ dev.q = NoEntry)
            => SeesRight(s, Grounds(e), n, q, H)
  PROVE  Good(Settled(e, s), n, q, H)
<1>1. ASSUME e.again, e.m.state \in {"dirty", "error"}
      PROVE  SeesRight(s, Grounds(e), n, q, H) /\ Shown(Settled(e, s).fly)
  BY <1>1, SettledLooks, FitsIsShown
<1>. QED
  BY <1>1, SettledKeeps

(* A closure from before this screen queued its edit is over that edit.       *)
LEMMA SightIsRight ==
  ASSUME KeysInv, NEW s \in Sights, s.seen.entry \in Copies, s.base <= note.ver,
         NEW e, NEW H, Missed(s, dev.q) => QueuedHere(e, dev.q, H), s.seen.read \/ dev.q = NoEntry
  PROVE  SeesRight(s, e, note, dev.q, H)
<1>1. s.seen.entry.key = dev.q.key => s.seen.entry.patch = dev.q.patch
  BY DEF KeysInv, Copies
<1>. QED
  BY <1>1 DEF SeesRight, Missed, ReadsIt

(* The last render shows the queue as it is, or a queue not read.             *)
LEMMA RenderedIsRight ==
  ASSUME Types, Core
  PROVE  /\ Rendered \in Sights /\ Rendered.seen.entry \in Copies /\ Rendered.base <= note.ver
         /\ Rendered.base \in Nat /\ ~Missed(Rendered, dev.q)
BY DEF Types, DevType, Notes, Rendered, Sees, Sights, Core, DeviceInv, Copies, Missed

(* What is known of a screen that acts.                                       *)
LEMMA ScreenIsGood ==
  ASSUME Types, Core, NEW i \in Visits, Acts(ed[i])
  PROVE  /\ ed[i] \in Editors /\ ed[i].m \in Models /\ Good(ed[i], note, dev.q, Given)
         /\ dev.q \in Entries /\ note.ver \in Nat /\ ed[i].sees \in Sights
         /\ ed[i].sees.seen.entry \in Copies /\ ed[i].fly.sees.seen.entry \in Copies
         /\ NoEntry \in Copies /\ Alone(i)
BY OthersAreOff DEF Types, EdType, NoteType, DevType, Editors, Core, Screens, Copies

(* A closure that has read nothing holds no edit.                             *)
LEMMA BlindSeesNothing == Blind.seen.entry = NoEntry
BY DEF Blind, Sees, Unread

(* A closure held by a screen: the last rendered, or one kept.                *)
LEMMA ClosureIsRight ==
  ASSUME Types, Core, NEW i \in Visits, Acts(ed[i]), ed[i].m.state \in {"dirty", "saving", "error"}
  PROVE  LET s == Closure(ed[i]) IN
         /\ s \in Sights /\ s.seen.entry \in Copies /\ s.base <= note.ver
         /\ Missed(s, dev.q) => QueuedHere(ed[i], dev.q, Given) /\ (~Idle(ed[i]) => ed[i].fly.sent = ed[i].m.draft)
<1>1. Good(ed[i], note, dev.q, Given) /\ ed[i].sees \in Sights /\ ed[i].sees.seen.entry \in Copies
  BY ScreenIsGood
<1>2. CASE ed[i].at = "gone"
  BY <1>1, <1>2 DEF Closure, Good, Sane, Dated, Behind
<1>3. CASE ed[i].at # "gone"
  BY <1>3, RenderedIsRight DEF Closure
<1>. QED
  BY <1>2, <1>3

-----------------------------------------------------------------------------
(* The timers                                                                 *)

(* The debounce fires with the closure of the last word typed.                *)
LEMMA DebounceKeeps ==
  ASSUME Windows = {}, Types, Core, NEW i \in Visits, Debounce(i)
  PROVE  Core'
<1>. DEFINE e == [ed[i] EXCEPT !.timer = "spent", !.sees = Blind]
            s == ed[i].sees
            b == Save(e, s)
<1>1. Acts(ed[i]) /\ ed[i].timer = "debounce" /\ ed[i].at = "open"
  BY DEF Debounce, Open, Acts
<1>2. /\ ed[i] \in Editors /\ Good(ed[i], note, dev.q, Given) /\ s \in Sights /\ dev.q \in Entries
      /\ note.ver \in Nat /\ s.seen.entry \in Copies /\ ed[i].fly.sees.seen.entry \in Copies /\ NoEntry \in Copies
  BY <1>1, ScreenIsGood
<1>3. /\ e \in Editors /\ e.m = ed[i].m /\ e.fly = ed[i].fly /\ e.at = ed[i].at /\ e.asking = ed[i].asking
      /\ e.timer = "spent" /\ e.sees = Blind
  BY <1>2, NothingIsTyped DEF Editors
<1>4. Set(i, b) /\ UNCHANGED <<note, dev, net, truth, left>>
  BY DEF Debounce
<1>. HIDE DEF e
<1>5. Sane(e, note, dev.q, Given)
  <2>1. Sane(ed[i], note, dev.q, Given)
    BY <1>2 DEF Good
  <2>2. Dated(e, note)
    BY <1>2, <1>3, <2>1 DEF Sane, Dated, Blind, Sees
  <2>3. Behind(e, dev.q, Given)
    BY <1>1, <1>3 DEF Behind
  <2>4. Shape(e)
    BY <1>1, <1>3, <2>1 DEF Sane, Shape, Idle
  <2>. QED
    BY <1>3, <2>1, <2>2, <2>3, <2>4 DEF Sane, Informed, Covers, SaysSo, Chooses, Flies, Sends, Idle
<1>6. ASSUME Idle(e), e.m.state \in {"dirty", "error"}, s.seen.read \/ dev.q = NoEntry
      PROVE  SeesRight(s, e, note, dev.q, Given)
  <2>1. Missed(s, dev.q) => QueuedHere(e, dev.q, Given)
    BY <1>1, <1>2, <1>3, <1>6 DEF Good, Sane, Behind, QueuedHere
  <2>2. s.base <= note.ver
    BY <1>2 DEF Good, Sane, Dated
  <2>. QED
    BY <1>2, <1>6, <2>1, <2>2, SightIsRight DEF Core
<1>7. Turn(i, b) /\ Fits(b.fly)
  BY <1>4, SetTurns
<1>8. Good(b, note, dev.q, Given)
  BY <1>2, <1>3, <1>5, <1>6, <1>7, SaveGoes
<1>9. /\ b.at = ed[i].at /\ b.m.draft = ed[i].m.draft /\ b.m.server = ed[i].m.server
      /\ b.sees.seen.entry \in Copies /\ b.fly.sees.seen.entry \in Copies
  BY <1>2, <1>3, SaveLooks, BlindSeesNothing
<1>10. b \in Editors
  BY <1>2, <1>3, SaveIsAnEditor
<1>. HIDE DEF b
<1>. QED
  BY <1>1, <1>4, <1>7, <1>8, <1>9, <1>10, OnScreenAlone

(* The wait for an append is over.                                            *)
LEMMA WaitOverKeeps ==
  ASSUME Windows = {}, Types, Core, NEW i \in Visits, WaitOver(i)
  PROVE  Core'
<1>. DEFINE e == [ed[i] EXCEPT !.timer = "none"]
            s == Closure(e)
            b == Save(e, s)
<1>0. ed[i] \in Editors /\ (ed[i].at = "out" => ed[i] = Unopened)
  BY DEF Types, EdType, Core, Screens
<1>1. Acts(ed[i]) /\ ed[i].timer = "wait"
  BY <1>0 DEF WaitOver, Acts, Unopened, Editors
<1>2. /\ Good(ed[i], note, dev.q, Given) /\ dev.q \in Entries
      /\ note.ver \in Nat /\ ed[i].sees.seen.entry \in Copies /\ ed[i].fly.sees.seen.entry \in Copies
  BY <1>1, ScreenIsGood
<1>3. /\ e \in Editors /\ e.m = ed[i].m /\ e.fly = ed[i].fly /\ e.at = ed[i].at /\ e.asking = ed[i].asking
      /\ e.timer = "none" /\ e.sees = ed[i].sees /\ s = Closure(ed[i])
  BY <1>0 DEF Editors, Closure
<1>4. Set(i, b) /\ UNCHANGED <<note, dev, net, truth, left>>
  BY DEF WaitOver
<1>5. s \in Sights
  BY <1>3, ClosureIsASight DEF Types
<1>. HIDE DEF e, s
<1>6. Sane(e, note, dev.q, Given)
  <2>1. Sane(ed[i], note, dev.q, Given)
    BY <1>2 DEF Good
  <2>2. Behind(e, dev.q, Given)
    BY <1>1, <1>3, <2>1 DEF Sane, Behind, QueuedHere, Idle
  <2>3. Shape(e)
    BY <1>1, <1>3, <2>1 DEF Sane, Shape, Idle
  <2>. QED
    BY <1>3, <2>1, <2>2, <2>3 DEF Sane, Dated, Informed, Covers, SaysSo, Chooses, Flies, Sends, Idle
<1>7. s.seen.entry \in Copies
  BY <1>2, <1>3, RenderedIsRight DEF Closure
<1>8. ASSUME Idle(e), e.m.state \in {"dirty", "error"}, s.seen.read \/ dev.q = NoEntry
      PROVE  SeesRight(s, e, note, dev.q, Given)
  <2>1. s.base <= note.ver /\ (Missed(s, dev.q) => QueuedHere(ed[i], dev.q, Given))
    BY <1>1, <1>3, <1>8, ClosureIsRight
  <2>2. Missed(s, dev.q) => QueuedHere(e, dev.q, Given)
    BY <1>3, <2>1 DEF QueuedHere
  <2>. QED
    BY <1>5, <1>7, <1>8, <2>1, <2>2, SightIsRight DEF Core
<1>9. Turn(i, b) /\ Fits(b.fly)
  BY <1>4, SetTurns
<1>10. Good(b, note, dev.q, Given)
  BY <1>2, <1>3, <1>5, <1>6, <1>8, <1>9, SaveGoes
<1>11. /\ b.at = ed[i].at /\ b.m.draft = ed[i].m.draft /\ b.m.server = ed[i].m.server
       /\ b.sees.seen.entry \in Copies /\ b.fly.sees.seen.entry \in Copies
  BY <1>2, <1>3, <1>7, SaveLooks
<1>12. b \in Editors
  BY <1>3, <1>5, SaveIsAnEditor
<1>. HIDE DEF b
<1>. QED
  BY <1>1, <1>4, <1>9, <1>10, <1>11, <1>12, OnScreenAlone

(* A blur, or Try again.                                                      *)
LEMMA SaveNowKeeps ==
  ASSUME Windows = {}, Types, Core, NEW i \in Visits, SaveNow(i)
  PROVE  Core'
<1>. DEFINE e == [ed[i] EXCEPT !.timer = "none", !.sees = Blind]
            b == Save(e, Rendered)
<1>1. Acts(ed[i]) /\ ed[i].at = "open"
  BY DEF SaveNow, Open, Acts
<1>2. /\ ed[i] \in Editors /\ Good(ed[i], note, dev.q, Given) /\ dev.q \in Entries
      /\ note.ver \in Nat /\ ed[i].fly.sees.seen.entry \in Copies /\ NoEntry \in Copies
  BY <1>1, ScreenIsGood
<1>3. /\ e \in Editors /\ e.m = ed[i].m /\ e.fly = ed[i].fly /\ e.at = ed[i].at /\ e.asking = ed[i].asking
      /\ e.timer = "none" /\ e.sees = Blind
  BY <1>2, NothingIsTyped DEF Editors
<1>4. Set(i, b) /\ UNCHANGED <<note, dev, net, truth, left>>
  BY DEF SaveNow
<1>. HIDE DEF e
<1>5. Sane(e, note, dev.q, Given)
  <2>1. Sane(ed[i], note, dev.q, Given)
    BY <1>2 DEF Good
  <2>2. Dated(e, note)
    BY <1>2, <1>3, <2>1 DEF Sane, Dated, Blind, Sees
  <2>3. Behind(e, dev.q, Given)
    BY <1>1, <1>3 DEF Behind
  <2>4. Shape(e)
    BY <1>1, <1>3, <2>1 DEF Sane, Shape, Idle
  <2>. QED
    BY <1>3, <2>1, <2>2, <2>3, <2>4 DEF Sane, Informed, Covers, SaysSo, Chooses, Flies, Sends, Idle
<1>6. ASSUME Idle(e), e.m.state \in {"dirty", "error"}, Rendered.seen.read \/ dev.q = NoEntry
      PROVE  SeesRight(Rendered, e, note, dev.q, Given)
  BY <1>6, RenderedIsRight, SightIsRight DEF Core
<1>7. Turn(i, b) /\ Fits(b.fly)
  BY <1>4, SetTurns
<1>8. Good(b, note, dev.q, Given)
  BY <1>2, <1>3, <1>5, <1>6, <1>7, SaveGoes, RenderedIsRight
<1>9. /\ b.at = ed[i].at /\ b.m.draft = ed[i].m.draft /\ b.m.server = ed[i].m.server
      /\ b.sees.seen.entry \in Copies /\ b.fly.sees.seen.entry \in Copies
  BY <1>2, <1>3, SaveLooks, BlindSeesNothing, RenderedIsRight
<1>10. b \in Editors
  BY <1>3, SaveIsAnEditor, RenderedIsRight
<1>. HIDE DEF b
<1>. QED
  BY <1>1, <1>4, <1>7, <1>8, <1>9, <1>10, OnScreenAlone

-----------------------------------------------------------------------------
(* Coming, going, typing                                                      *)

(* A screen left flushes its debounce, or rests with nothing more to send.    *)
LEMMA LeaveKeeps ==
  ASSUME Windows = {}, Types, Core, NEW i \in Visits, Leave(i)
  PROVE  Core'
<1>. DEFINE gone == [ed[i] EXCEPT !.at = "gone", !.sees = Rendered, !.asking = FALSE]
            quiet == [gone EXCEPT !.timer = "none"]
            b == IF gone.timer = "none" THEN gone ELSE Save(quiet, gone.sees)
<1>1. Acts(ed[i]) /\ ed[i].at = "open"
  BY DEF Leave, Open, Acts
<1>2. /\ ed[i] \in Editors /\ Good(ed[i], note, dev.q, Given) /\ dev.q \in Entries
      /\ note.ver \in Nat /\ ed[i].fly.sees.seen.entry \in Copies /\ Alone(i)
  BY <1>1, ScreenIsGood
<1>r. /\ Rendered \in Sights /\ Rendered.seen.entry \in Copies /\ Rendered.base <= note.ver
      /\ ~Missed(Rendered, dev.q)
  BY RenderedIsRight
<1>3. /\ gone \in Editors /\ gone.sees = Rendered /\ gone.timer = ed[i].timer
      /\ gone.m = ed[i].m /\ gone.fly = ed[i].fly /\ gone.at = "gone" /\ gone.again = ed[i].again
  BY <1>2, <1>r DEF Editors
<1>4. /\ quiet \in Editors /\ quiet.m = ed[i].m /\ quiet.fly = ed[i].fly /\ quiet.at = "gone"
      /\ ~quiet.asking /\ quiet.timer = "none" /\ quiet.sees = Rendered
  BY <1>2, <1>r DEF Editors
<1>5. Set(i, b) /\ UNCHANGED <<note, dev, net, truth, left>> /\ ~Resends(i)
  BY DEF Leave
<1>6. gone.timer = "none" => quiet = gone
  BY <1>2 DEF Editors
<1>. HIDE DEF gone, quiet
<1>7. Sane(quiet, note, dev.q, Given)
  <2>1. Sane(ed[i], note, dev.q, Given)
    BY <1>2 DEF Good
  <2>2. Dated(quiet, note)
    BY <1>4, <1>r, <2>1 DEF Sane, Dated
  <2>3. Behind(quiet, dev.q, Given)
    BY <1>4, <1>r DEF Behind
  <2>4. Shape(quiet)
    BY <1>4, <2>1 DEF Sane, Shape, Idle
  <2>. QED
    BY <1>4, <2>1, <2>2, <2>3, <2>4 DEF Sane, Informed, Covers, SaysSo, Chooses, Flies, Sends, Idle
<1>8. Turn(i, b) /\ Fits(b.fly)
  BY <1>5, SetTurns
<1>9. Good(b, note, dev.q, Given)
  <2>1. CASE gone.timer = "none"
    BY <1>2, <1>3, <1>6, <1>7, <2>1 DEF Good, Armed, Idle, Waits
  <2>2. CASE gone.timer # "none"
    <3>1. Rendered.seen.read \/ dev.q = NoEntry => SeesRight(Rendered, quiet, note, dev.q, Given)
      BY <1>r, SightIsRight DEF Core
    <3>. QED
      BY <1>2, <1>3, <1>4, <1>7, <1>8, <1>r, <2>2, <3>1, SaveGoes
  <2>. QED
    BY <2>1, <2>2
<1>10. /\ b \in Editors /\ b.at = "gone" /\ b.m.draft = ed[i].m.draft /\ b.m.server = ed[i].m.server
       /\ b.sees = Rendered /\ b.fly.sees \in {ed[i].fly.sees, Rendered}
  BY <1>3, <1>4, <1>r, SaveLooks, SaveIsAnEditor
<1>. HIDE DEF b
<1>11. \A g \in Fields : HeldOver(Blank)[g] = Has(dev.q, g)
  BY DEF HeldOver, Upon, Blank, Has
<1>12. \A g \in Fields : dev.cache.draft[g] \subseteq Found(note, dev.q, Given, g)
  <2>1. \A g \in Fields : dev.cache.draft[g] \cap ed[i].m.draft[g] \subseteq ed[i].m.server[g] \cup Has(dev.q, g)
    BY <1>5, <1>11 DEF Resends
  <2>2. \A g \in Fields : Resent(g) = ed[i].m.draft[g] \ ed[i].m.server[g]
    BY <1>1, <1>2, ResentIsThere DEF Ahead
  <2>. QED
    BY <2>1, <2>2 DEF Core, CacheInv, Found
<1>13. Known' = Known /\ Given' = Given /\ truth'.typed = truth.typed /\ truth'.landed = truth.landed
  BY <1>5 DEF Known, Given
<1>14. Given \subseteq Known /\ \A g \in Fields : b.m.draft[g] \subseteq Known
  BY <1>10 DEF Core, FromSomebody
<1>15. NewWords'
  BY <1>13 DEF Core, NewWords
<1>16. b.sees.seen.entry \in Copies /\ b.fly.sees.seen.entry \in Copies
  BY <1>2, <1>10, <1>r
<1>17. \A g \in Fields : /\ b.m.draft[g] \subseteq Known'
                         /\ ed[i].m.draft[g] \subseteq b.m.draft[g] \cup Found(note, dev.q, Given', g)
                         /\ dev.cache.draft[g] \subseteq Found(note, dev.q, Given', g) \cup Ahead(b, g)
  BY <1>10, <1>12, <1>13, <1>14
<1>18. UNCHANGED <<note, dev, net>> /\ b.at # "out"
  BY <1>5, <1>10
<1>. QED
  BY <1>2, <1>8, <1>9, <1>10, <1>13, <1>14, <1>15, <1>16, <1>17, <1>18, OnScreen

(* A screen is opened over the copy, which shows nothing that is not found.   *)
LEMMA VisitKeeps ==
  ASSUME Windows = {}, Types, Core, NEW i \in Visits, Visit(i)
  PROVE  Core'
<1>. DEFINE m == InitialEditor(dev.cache)
            b == [Unopened EXCEPT !.at = "open", !.m = m]
<1>1. \A j \in Visits : ~Acts(ed[j])
  BY DEF Visit, Nobody, Open, Lingers, Acts, Idle
<1>2. ed[i] = Unopened /\ dev.q \in Entries /\ dev.cache \in Notes /\ note.ver \in Nat
  BY DEF Visit, Core, Screens, Types, DevType, NoteType
<1>3. /\ m \in Models /\ m.draft = dev.cache.draft /\ m.saved = dev.cache.draft /\ m.server = dev.cache.draft
      /\ m.ver = dev.cache.ver /\ m.state = "clean"
  BY <1>2, InitialIsAModel DEF InitialEditor
<1>4. Unopened \in Editors /\ Unopened.fly = Grounded /\ Unopened.sees = Blind /\ Unopened.timer = "none" /\ ~Unopened.asking
  BY UnopenedIsAnEditor DEF Unopened
<1>u. \A g \in Fields : Unopened.m.draft[g] = {}
  BY DEF Unopened, InitialEditor, Note, Blank
<1>. HIDE DEF m
<1>5. /\ b \in Editors /\ b.m = m /\ b.at = "open" /\ b.fly = Grounded /\ b.sees = Blind
      /\ b.timer = "none" /\ ~b.asking
  BY <1>3, <1>4 DEF Editors
<1>6. ed' = [ed EXCEPT ![i] = b] /\ UNCHANGED <<note, dev, net, truth, left>>
  BY DEF Visit, m
<1>. HIDE DEF b
<1>7. Rested(b) = b /\ Turn(i, b)
  <2>1. Rested(b) = b
    BY <1>5 DEF Rested
  <2>. QED
    BY <1>6, <2>1 DEF Turn, Types, EdType
<1>8. Alone(i) /\ \A g \in Fields : Resent(g) = {}
  BY <1>1 DEF Alone, Resent, Open, Acts
<1>9. \A g \in Fields : dev.cache.draft[g] \subseteq Found(note, dev.q, Given, g)
  BY <1>8 DEF Core, CacheInv
<1>10. Good(b, note, dev.q, Given)
  <2>1. Dated(b, note)
    BY <1>2, <1>3, <1>5 DEF Dated, Core, DeviceInv, Blind, Sees
  <2>2. Informed(b, note, dev.q, Given)
    BY <1>3, <1>5 DEF Informed, Core, Aware
  <2>3. Covers(b, note, dev.q, Given) /\ SaysSo(b, note, dev.q, Given) /\ Chooses(b, note, dev.q, Given)
    BY <1>3, <1>5, <1>9 DEF Covers, SaysSo, Chooses, Findable
  <2>4. Shape(b) /\ Armed(b) /\ Behind(b, dev.q, Given) /\ Flies(b, note, dev.q, Given)
    BY <1>3, <1>5 DEF Shape, Armed, Behind, Flies, Idle, Grounded, Quiet
  <2>. QED
    BY <2>1, <2>2, <2>3, <2>4 DEF Good, Sane
<1>13. Known' = Known /\ Given' = Given /\ truth'.typed = truth.typed /\ truth'.landed = truth.landed
  BY <1>6 DEF Known, Given
<1>14. Given \subseteq Known /\ \A g \in Fields : b.m.draft[g] \subseteq Known
  BY <1>3, <1>5, <1>9 DEF Core, FromSomebody, Found
<1>15. NewWords'
  BY <1>13 DEF Core, NewWords
<1>16. b.sees.seen.entry \in Copies /\ b.fly.sees.seen.entry \in Copies
  BY <1>5 DEF Copies, Blind, Sees, Unread, Grounded
<1>17. \A g \in Fields : /\ b.m.draft[g] \subseteq Known'
                         /\ ed[i].m.draft[g] \subseteq b.m.draft[g] \cup Found(note, dev.q, Given', g)
                         /\ dev.cache.draft[g] \subseteq Found(note, dev.q, Given', g) \cup Ahead(b, g)
  BY <1>2, <1>9, <1>13, <1>14, <1>u
<1>18. UNCHANGED <<note, dev, net>> /\ b.at # "out"
  BY <1>5, <1>6
<1>. QED
  BY <1>5, <1>7, <1>8, <1>10, <1>13, <1>14, <1>15, <1>16, <1>17, <1>18, OnScreen

(* A word is typed: it is new, and on the screen.                             *)
LEMMA TypeKeeps ==
  ASSUME Windows = {}, Types, Core, NEW i \in Visits, NEW f \in Fields, Type(i, f)
  PROVE  Core'
<1>. DEFINE w == Cardinality(truth.typed) + 1
            d == [ed[i].m.draft EXCEPT ![f] = @ \cup {w}]
            m == ApplyEdit(ed[i].m, f, ed[i].m.draft[f] \cup {w})
            b == [ed[i] EXCEPT !.m = m, !.timer = "debounce", !.sees = Rendered]
<1>1. Acts(ed[i]) /\ ed[i].at = "open" /\ w \in Own /\ ~ed[i].asking
  BY DEF Type, Open, Acts, Unhurried
<1>2. /\ ed[i] \in Editors /\ ed[i].m \in Models /\ Good(ed[i], note, dev.q, Given) /\ dev.q \in Entries
      /\ note.ver \in Nat /\ ed[i].fly.sees.seen.entry \in Copies /\ Alone(i)
  BY <1>1, ScreenIsGood
<1>r. /\ Rendered \in Sights /\ Rendered.seen.entry \in Copies /\ Rendered.base <= note.ver
      /\ ~Missed(Rendered, dev.q)
  BY RenderedIsRight
<1>3. Set(i, b) /\ UNCHANGED <<note, dev, net, left>> /\ truth' = [truth EXCEPT !.typed = @ \cup {w}]
  BY DEF Type
<1>4. Turn(i, b)
  BY <1>3, SetTurns
<1>n. Cardinality(truth.typed) \in Nat /\ w \notin Known /\ NewWords'
  <2>1. IsFiniteSet(truth.typed) /\ \A v \in truth.typed : v <= Cardinality(truth.typed)
    BY DEF Core, NewWords
  <2>2. Cardinality(truth.typed) \in Nat
    BY <2>1, FS_CardinalityType
  <2>3. truth.typed \subseteq Nat /\ truth \in [typed : SUBSET Own, landed : SUBSET Words, given : SUBSET Words]
    BY WordsAssumption DEF Types, TruthType
  <2>4. w \notin truth.typed
    BY <2>1, <2>2, <2>3
  <2>5. truth'.typed = truth.typed \cup {w}
    BY <1>3, <2>3
  <2>6. IsFiniteSet(truth'.typed) /\ Cardinality(truth'.typed) = w
    BY <2>1, <2>4, <2>5, FS_AddElement
  <2>7. NewWords'
    BY <2>1, <2>2, <2>3, <2>5, <2>6 DEF NewWords
  <2>. QED
    BY <1>1, <2>2, <2>4, <2>7, WordsAssumption DEF Known
<1>t. truth'.typed = truth.typed \cup {w} /\ truth'.landed = truth.landed /\ Given' = Given
  BY <1>3 DEF Types, TruthType, Given
<1>. HIDE DEF w
<1>5. d \in Drafts /\ \A g \in Fields : ed[i].m.draft[g] \subseteq d[g] /\ d[g] \subseteq ed[i].m.draft[g] \cup {w}
  BY <1>1, <1>2 DEF Models, Drafts, Words
<1>6. w \in d[f]
  BY <1>2 DEF Models, Drafts
<1>. HIDE DEF d
<1>7. /\ m \in Models /\ m.draft = d /\ m.saved = ed[i].m.saved /\ m.server = ed[i].m.server /\ m.ver = ed[i].m.ver
      /\ m.theirs = ed[i].m.theirs
      /\ m.state = IF ed[i].m.state = "conflict" THEN "conflict" ELSE IF d = ed[i].m.saved THEN "clean" ELSE "dirty"
  <2>1. m \in Models
    BY <1>1, <1>2, EditIsAModel DEF Models, Drafts, Words
  <2>. QED
    BY <1>2, <2>1 DEF ApplyEdit, Models, d
<1>. HIDE DEF m
<1>8. /\ b \in Editors /\ b.m = m /\ b.timer = "debounce" /\ b.sees = Rendered /\ b.fly = ed[i].fly
      /\ b.at = "open" /\ ~b.asking /\ b.again = ed[i].again
  BY <1>1, <1>2, <1>7, <1>r DEF Editors
<1>. HIDE DEF b
<1>9. Sane(ed[i], note, dev.q, Given)
  BY <1>2 DEF Good
<1>10. m.state = IF ed[i].m.state = "conflict" THEN "conflict" ELSE "dirty"
  <2>. SUFFICES ASSUME ed[i].m.state # "conflict" PROVE d # ed[i].m.saved
    BY <1>7
  <2>1. ed[i].m.saved[f] \subseteq ed[i].m.draft[f] \cup Given
    BY <1>9 DEF Sane, Covers
  <2>2. w \notin ed[i].m.saved[f]
    BY <1>n, <2>1 DEF Core, FromSomebody
  <2>. QED
    BY <1>6, <2>2
<1>11. Good(b, note, dev.q, Given)
  <2>1. Dated(b, note)
    BY <1>7, <1>8, <1>9, <1>r DEF Dated, Sane
  <2>2. Informed(b, note, dev.q, Given)
    BY <1>5, <1>7, <1>8, <1>9, <1>10 DEF Informed, Sane, Knows
  <2>3. Covers(b, note, dev.q, Given)
    BY <1>5, <1>7, <1>8, <1>9, <1>10 DEF Covers, Sane
  <2>4. SaysSo(b, note, dev.q, Given)
    BY <1>8, <1>10 DEF SaysSo, Quiet
  <2>5. Chooses(b, note, dev.q, Given)
    BY <1>5, <1>7, <1>8, <1>9, <1>10 DEF Chooses, Sane, Idle
  <2>6. Shape(b) /\ Behind(b, dev.q, Given) /\ Armed(b)
    BY <1>8, <1>9, <1>10, <1>r DEF Shape, Behind, Armed, Sane, Idle, Waits, Chooses
  <2>7. Flies(b, note, dev.q, Given)
    BY <1>5, <1>7, <1>8, <1>9 DEF Flies, Sane, Idle, Sends
  <2>. QED
    BY <2>1, <2>2, <2>3, <2>4, <2>5, <2>6, <2>7 DEF Good, Sane
<1>12. Known' = Known \cup {w}
  BY <1>t DEF Known
<1>13. Given \subseteq Known /\ \A g \in Fields : ed[i].m.draft[g] \subseteq Known
  BY DEF Core, FromSomebody
<1>14. \A g \in Fields : dev.cache.draft[g] \subseteq Found(note, dev.q, Given, g) \cup Ahead(b, g)
  <2>1. \A g \in Fields : Resent(g) = ed[i].m.draft[g] \ ed[i].m.server[g]
    BY <1>1, <1>2, ResentIsThere DEF Ahead
  <2>. QED
    BY <1>5, <1>7, <1>8, <2>1 DEF Core, CacheInv, Ahead
<1>15. \A g \in Fields : /\ b.m.draft[g] \subseteq Known'
                         /\ ed[i].m.draft[g] \subseteq b.m.draft[g] \cup Found(note, dev.q, Given', g)
                         /\ dev.cache.draft[g] \subseteq Found(note, dev.q, Given', g) \cup Ahead(b, g)
  BY <1>5, <1>7, <1>8, <1>12, <1>13, <1>14, <1>t
<1>16. b.sees.seen.entry \in Copies /\ b.fly.sees.seen.entry \in Copies
  BY <1>2, <1>8, <1>r
<1>17. \A v \in truth'.typed \ truth.typed : \E g \in Fields : v \in b.m.draft[g]
  BY <1>6, <1>7, <1>8, <1>t
<1>18. UNCHANGED <<note, dev, net>> /\ b.at # "out"
  BY <1>3, <1>8
<1>19. Good(b, note, dev.q, Given') /\ Given \subseteq Given' /\ Given' \subseteq Known'
  BY <1>11, <1>12, <1>13, <1>t
<1>20. truth'.landed = truth.landed /\ truth.typed \subseteq truth'.typed /\ NewWords' /\ Alone(i) /\ b \in Editors
  BY <1>2, <1>8, <1>n, <1>t
<1>. QED
  BY <1>4, <1>15, <1>16, <1>17, <1>18, <1>19, <1>20, OnScreen

-----------------------------------------------------------------------------
(* The answers that leave the note alone                                      *)

(* What an answer leaves of the screen.                                       *)
LEMMA AnsweredLooks ==
  ASSUME NEW e \in Editors, NEW what \in Answers
  PROVE  LET b == [e EXCEPT !.fly.pc = what] IN
         /\ b \in Editors /\ b.m = e.m /\ b.at = e.at /\ b.sees = e.sees /\ b.timer = e.timer
         /\ b.again = e.again /\ b.asking = e.asking
         /\ b.fly.pc = what /\ b.fly.sent = e.fly.sent /\ b.fly.patch = e.fly.patch /\ b.fly.sees = e.fly.sees
<1>1. [e EXCEPT !.fly.pc = what] \in Editors
  BY AnsweredIsAnEditor
<1>. QED
  BY <1>1 DEF Editors, Flights

(* An answer that stores nothing.                                             *)
LEMMA AnsweredKeeps ==
  ASSUME Types, Core, NEW i \in Visits, ed[i].fly.pc = "sent",
         NEW what \in {"busy", "refused", "failed", "offline"},
         Answered(i, what), UNCHANGED <<note, dev, net, truth>>
  PROVE  Core'
<1>. DEFINE b == [ed[i] EXCEPT !.fly.pc = what]
<1>0. ed[i] \in Editors /\ (ed[i].at = "out" => ed[i] = Unopened)
  BY DEF Types, EdType, Core, Screens
<1>1. Acts(ed[i]) /\ ~Idle(ed[i])
  BY <1>0 DEF Acts, Unopened, Editors, Idle, Grounded
<1>2. /\ Good(ed[i], note, dev.q, Given)
      /\ ed[i].sees.seen.entry \in Copies /\ ed[i].fly.sees.seen.entry \in Copies
  BY <1>1, ScreenIsGood
<1>3. /\ b \in Editors /\ b.m = ed[i].m /\ b.at = ed[i].at /\ b.sees = ed[i].sees /\ b.timer = ed[i].timer
      /\ b.again = ed[i].again /\ b.asking = ed[i].asking
      /\ b.fly.pc = what /\ b.fly.sent = ed[i].fly.sent /\ b.fly.patch = ed[i].fly.patch
      /\ b.fly.sees = ed[i].fly.sees
  <2>1. what \in Answers
    BY DEF Answers
  <2>. QED
    BY <1>0, <2>1, AnsweredLooks
<1>4. Turn(i, b)
  BY SetTurns DEF Answered
<1>. HIDE DEF b
<1>5. Good(b, note, dev.q, Given)
  <2>1. Sane(ed[i], note, dev.q, Given) /\ Armed(ed[i])
    BY <1>2 DEF Good
  <2>2. ~Idle(b)
    BY <1>3 DEF Idle
  <2>3. Flies(b, note, dev.q, Given)
    BY <1>1, <1>3, <2>1 DEF Sane, Flies, Sends, Lands, Replaces, ReadsIt
  <2>. QED
    BY <1>1, <1>3, <2>1, <2>2, <2>3
       DEF Good, Sane, Armed, Waits, Dated, Informed, Covers, SaysSo, Chooses, Shape, Behind, QueuedHere
<1>. QED
  BY <1>1, <1>2, <1>3, <1>4, <1>5, OnScreenAlone

(* A PATCH that is refused, held off, lost on its way, or fails.              *)
LEMMA UnansweredKeeps ==
  ASSUME Types, Core, NEW i \in Visits,
         \/ Arrive(i) /\ Answer(ed[i].fly.patch) # "stored"
         \/ Unreachable(i)
         \/ Disturbed(i) /\ "answers" \notin Windows
  PROVE  Core'
<1>1. Answer(ed[i].fly.patch) \in {"busy", "refused", "stored"}
  BY DEF Answer
<1>2. ed[i].fly.pc = "sent" /\ UNCHANGED <<note, dev, net, truth>>
  BY <1>1 DEF Arrive, Unreachable, Disturbed
<1>3. \E what \in {"busy", "refused", "failed", "offline"} : Answered(i, what)
  BY <1>1 DEF Arrive, Unreachable, Disturbed
<1>. QED
  BY <1>2, <1>3, AnsweredKeeps

-----------------------------------------------------------------------------
(* What is made of them                                                       *)

(* A screen with its request taken off the wire.                              *)
LEMMA GroundsLooks ==
  ASSUME NEW e \in Editors
  PROVE  LET g == Grounds(e) IN
         /\ g \in Editors /\ g.fly = Grounded /\ g.m = e.m /\ g.at = e.at /\ g.sees = e.sees
         /\ g.timer = e.timer /\ g.asking = e.asking
BY NothingIsTyped DEF Grounds, Editors

(* A save that is over on a screen, its draft and the server's copy left.     *)
LEMMA SettlingKeeps ==
  ASSUME Windows = {}, Types, Core, NEW i \in Visits, Acts(ed[i]), NEW f \in Editors,
         NEW s \in Sights, s.seen.entry \in Copies, s.base <= note.ver,
         Set(i, Settled(f, s)), UNCHANGED <<note, dev, net, truth>>,
         f.at = ed[i].at, f.sees = ed[i].sees, f.m.draft = ed[i].m.draft,
         Sane(Grounds(f), note, dev.q, Given), f.m.state = "dirty" => f.again \/ Waits(f),
         f.again /\ f.m.state \in {"dirty", "error"} /\ Missed(s, dev.q) => QueuedHere(f, dev.q, Given),
         \A g \in Fields : dev.cache.draft[g] \subseteq Found(note, dev.q, Given, g) \cup Ahead(f, g)
  PROVE  Core'
<1>. DEFINE b == Settled(f, s)
<1>1. /\ ed[i] \in Editors /\ dev.q \in Entries /\ note.ver \in Nat /\ ed[i].sees.seen.entry \in Copies
      /\ NoEntry \in Copies /\ Alone(i)
  BY ScreenIsGood
<1>2. Turn(i, b) /\ Fits(b.fly)
  BY SetTurns
<1>3. ASSUME f.again, f.m.state \in {"dirty", "error"}, s.seen.read \/ dev.q = NoEntry
      PROVE  SeesRight(s, Grounds(f), note, dev.q, Given)
  <2>1. Missed(s, dev.q) => QueuedHere(Grounds(f), dev.q, Given)
    BY <1>3, GroundsLooks DEF QueuedHere
  <2>. QED
    BY <1>3, <2>1, SightIsRight DEF Core
<1>4. Good(b, note, dev.q, Given)
  BY <1>1, <1>2, <1>3, SettledGoes
<1>5. /\ b \in Editors /\ b.at = ed[i].at /\ b.m.draft = ed[i].m.draft /\ b.m.server = f.m.server
      /\ b.sees.seen.entry \in Copies /\ b.fly.sees.seen.entry \in Copies
  BY <1>1, SettledLooks, SaveIsAnEditor, BlindSeesNothing
<1>6. \A g : Ahead(f, g) = Ahead(b, g)
  BY <1>5 DEF Ahead
<1>. HIDE DEF b
<1>13. Known' = Known /\ Given' = Given /\ truth'.typed = truth.typed /\ truth'.landed = truth.landed
  BY DEF Known, Given
<1>14. Given \subseteq Known /\ \A g \in Fields : b.m.draft[g] \subseteq Known
  BY <1>5 DEF Core, FromSomebody
<1>15. NewWords'
  BY <1>13 DEF Core, NewWords
<1>17. \A g \in Fields : /\ b.m.draft[g] \subseteq Known'
                         /\ ed[i].m.draft[g] \subseteq b.m.draft[g] \cup Found(note, dev.q, Given', g)
                         /\ dev.cache.draft[g] \subseteq Found(note, dev.q, Given', g) \cup Ahead(b, g)
  BY <1>5, <1>6, <1>13, <1>14
<1>18. b.at # "out"
  BY <1>5 DEF Acts
<1>. QED
  BY <1>1, <1>2, <1>4, <1>5, <1>13, <1>14, <1>15, <1>17, <1>18, OnScreen

(* The screen acts, and knows what it sent.                                   *)
LEMMA FlyingIsGood ==
  ASSUME Types, Core, NEW i \in Visits, ed[i].fly.pc # "idle"
  PROVE  /\ Acts(ed[i]) /\ ed[i] \in Editors /\ ed[i].m \in Models /\ Sane(ed[i], note, dev.q, Given)
         /\ ed[i].m.state \in {"saving", "dirty"}
         /\ \A g \in Fields : dev.cache.draft[g] \subseteq Found(note, dev.q, Given, g) \cup Ahead(ed[i], g)
         /\ LET s == Closure(ed[i]) IN
            /\ s \in Sights /\ s.seen.entry \in Copies /\ s.base <= note.ver
            /\ Missed(s, dev.q) => QueuedHere(ed[i], dev.q, Given) /\ ed[i].fly.sent = ed[i].m.draft
<1>0. ed[i] \in Editors /\ (ed[i].at = "out" => ed[i] = Unopened)
  BY DEF Types, EdType, Core, Screens
<1>1. Acts(ed[i]) /\ ~Idle(ed[i])
  BY <1>0 DEF Acts, Unopened, Editors, Idle, Grounded
<1>2. Sane(ed[i], note, dev.q, Given) /\ ed[i].m \in Models /\ Alone(i)
  BY <1>1, ScreenIsGood DEF Good
<1>3. ed[i].m.state \in {"saving", "dirty"}
  BY <1>1, <1>2 DEF Sane, Shape
<1>4. \A g : Resent(g) = Ahead(ed[i], g)
  BY <1>2, ResentIsThere
<1>. QED
  BY <1>0, <1>1, <1>2, <1>3, <1>4, ClosureIsRight DEF Core, CacheInv

(* Storage refuses, the server fails, the fetch after a refusal does: the     *)
(* words are only on this screen, and it says so.                             *)
LEMMA ErrorIsSane ==
  ASSUME NEW e \in Editors, NEW f \in Editors, NEW n, NEW q, NEW H, ~Idle(e), Sane(e, n, q, H),
         f.m = SaveError(e.m), f.at = e.at, f.sees = e.sees, f.timer = e.timer, f.asking = e.asking
  PROVE  Sane(Grounds(f), n, q, H)
<1>. DEFINE g == Grounds(f)
<1>1. /\ g.fly = Grounded /\ g.m = f.m /\ g.at = e.at /\ g.sees = e.sees /\ g.timer = e.timer
      /\ g.asking = e.asking
  BY GroundsLooks
<1>2. /\ f.m.draft = e.m.draft /\ f.m.saved = e.m.saved /\ f.m.server = e.m.server /\ f.m.ver = e.m.ver
      /\ f.m.state = "error"
  BY DEF SaveError, Editors, Models
<1>. HIDE DEF g
<1>3. Idle(g)
  BY <1>1 DEF Idle, Grounded
<1>4. e.m.state \in {"saving", "dirty"}
  BY DEF Sane, Shape
<1>5. Behind(g, q, H)
  BY <1>1, <1>2, <1>3, <1>4 DEF Sane, Behind, QueuedHere
<1>6. Shape(g) /\ Flies(g, n, q, H) /\ SaysSo(g, n, q, H) /\ Chooses(g, n, q, H)
  BY <1>1, <1>2, <1>3 DEF Sane, Shape, Flies, SaysSo, Chooses, Quiet
<1>7. Dated(g, n) /\ Informed(g, n, q, H) /\ Covers(g, n, q, H)
  BY <1>1, <1>2, <1>4 DEF Sane, Dated, Informed, Covers
<1>. QED
  BY <1>5, <1>6, <1>7 DEF Sane, g

(* A save that failed, whatever failed it.                                    *)
LEMMA ErrorKeeps ==
  ASSUME Windows = {}, Types, Core, NEW i \in Visits, ed[i].fly.pc # "idle", NEW f \in Editors,
         Set(i, Settled(f, Closure(ed[i]))), UNCHANGED <<note, dev, net, truth>>,
         f.m = SaveError(ed[i].m), f.at = ed[i].at, f.sees = ed[i].sees, f.timer = ed[i].timer,
         f.asking = ed[i].asking
  PROVE  Core'
<1>1. /\ Acts(ed[i]) /\ ed[i] \in Editors /\ ed[i].m \in Models /\ Sane(ed[i], note, dev.q, Given)
      /\ Closure(ed[i]) \in Sights /\ Closure(ed[i]).seen.entry \in Copies /\ Closure(ed[i]).base <= note.ver
      /\ Missed(Closure(ed[i]), dev.q) => QueuedHere(ed[i], dev.q, Given)
  BY FlyingIsGood
<1>2. /\ f.m.draft = ed[i].m.draft /\ f.m.saved = ed[i].m.saved /\ f.m.server = ed[i].m.server
      /\ f.m.ver = ed[i].m.ver /\ f.m.state = "error"
  BY <1>1 DEF SaveError, Models
<1>3. Sane(Grounds(f), note, dev.q, Given)
  BY <1>1, ErrorIsSane DEF Idle
<1>4. QueuedHere(ed[i], dev.q, Given) => QueuedHere(f, dev.q, Given)
  BY <1>2 DEF QueuedHere
<1>5. \A g \in Fields : dev.cache.draft[g] \subseteq Found(note, dev.q, Given, g) \cup Ahead(f, g)
  BY <1>2, FlyingIsGood DEF Ahead
<1>. QED
  BY <1>1, <1>2, <1>3, <1>4, <1>5, SettlingKeeps

(* The server fails, or storage refuses the edit.                             *)
LEMMA FailedKeeps ==
  ASSUME Windows = {}, Types, Core, NEW i \in Visits, Failed(i)
  PROVE  Core'
<1>. DEFINE f == [ed[i] EXCEPT !.m = SaveError(ed[i].m)]
<1>1. ed[i] \in Editors /\ SaveError(ed[i].m) \in Models
  BY SavesAreModels, BlankIsADraft DEF Types, EdType, Editors
<1>2. /\ f \in Editors /\ f.m = SaveError(ed[i].m) /\ f.at = ed[i].at /\ f.sees = ed[i].sees
      /\ f.timer = ed[i].timer /\ f.asking = ed[i].asking
  BY <1>1 DEF Editors
<1>3. ed[i].fly.pc # "idle" /\ Set(i, Settled(f, Closure(ed[i]))) /\ UNCHANGED <<note, dev, net, truth>>
  BY DEF Failed
<1>. QED
  BY <1>2, <1>3, ErrorKeeps

(* An append holds the note: the save waits, or gives up waiting.             *)
LEMMA DeferredKeeps ==
  ASSUME Windows = {}, Types, Core, NEW i \in Visits, Deferred(i)
  PROVE  Core'
<1>. DEFINE e == ed[i]
            x == [e EXCEPT !.m = SaveError(e.m), !.waits = 0]
            f == [e EXCEPT !.m = SaveDeferred(e.m), !.waits = e.waits + 1, !.timer = "wait"]
<1>1. /\ Acts(e) /\ e \in Editors /\ e.m \in Models /\ Sane(e, note, dev.q, Given)
      /\ Closure(e) \in Sights /\ Closure(e).seen.entry \in Copies /\ Closure(e).base <= note.ver
      /\ (Missed(Closure(e), dev.q) => QueuedHere(e, dev.q, Given))
      /\ e.fly.pc # "idle" /\ e.m.state \in {"saving", "dirty"}
  BY FlyingIsGood DEF Deferred
<1>2. SaveError(e.m) \in Models /\ SaveDeferred(e.m) \in Models /\ e.waits + 1 \in Nat
  BY <1>1, SavesAreModels, BlankIsADraft DEF Editors
<1>3. /\ x \in Editors /\ x.m = SaveError(e.m) /\ x.at = e.at /\ x.sees = e.sees
      /\ x.timer = e.timer /\ x.asking = e.asking
  BY <1>1, <1>2 DEF Editors
<1>4. /\ f \in Editors /\ f.m = SaveDeferred(e.m) /\ f.at = e.at /\ f.sees = e.sees
      /\ f.timer = "wait" /\ f.asking = e.asking
  BY <1>1, <1>2 DEF Editors
<1>5. UNCHANGED <<note, dev, net, truth>> /\ (Set(i, Settled(x, Closure(e))) \/ Set(i, Settled(f, Closure(e))))
  BY DEF Deferred
<1>6. CASE Set(i, Settled(x, Closure(e)))
  BY <1>1, <1>3, <1>5, <1>6, ErrorKeeps
<1>7. CASE Set(i, Settled(f, Closure(e)))
  <2>1. /\ f.m.draft = e.m.draft /\ f.m.saved = e.m.saved /\ f.m.server = e.m.server
        /\ f.m.ver = e.m.ver /\ f.m.state = "dirty"
    BY <1>1, <1>4 DEF SaveDeferred, Models
  <2>. DEFINE g == Grounds(f)
  <2>2. /\ g.fly = Grounded /\ g.m = f.m /\ g.at = e.at /\ g.sees = e.sees /\ g.timer = "wait"
        /\ g.asking = e.asking
    BY <1>4, GroundsLooks
  <2>. HIDE DEF g, f
  <2>3. Idle(g) /\ ~Idle(e)
    BY <1>1, <2>2 DEF Idle, Grounded
  <2>4. Sane(g, note, dev.q, Given)
    <3>1. Behind(g, dev.q, Given)
      BY <1>1, <2>1, <2>2, <2>3 DEF Sane, Behind, QueuedHere
    <3>2. Shape(g) /\ Flies(g, note, dev.q, Given) /\ SaysSo(g, note, dev.q, Given) /\ Chooses(g, note, dev.q, Given)
      BY <1>1, <2>1, <2>2, <2>3 DEF Sane, Shape, Flies, SaysSo, Chooses, Quiet
    <3>3. Dated(g, note) /\ Informed(g, note, dev.q, Given) /\ Covers(g, note, dev.q, Given)
      BY <1>1, <2>1, <2>2 DEF Sane, Dated, Informed, Covers
    <3>. QED
      BY <3>1, <3>2, <3>3 DEF Sane
  <2>5. QueuedHere(e, dev.q, Given) => QueuedHere(f, dev.q, Given)
    BY <2>1 DEF QueuedHere
  <2>6. \A h \in Fields : dev.cache.draft[h] \subseteq Found(note, dev.q, Given, h) \cup Ahead(f, h)
    BY <1>1, <1>4, <2>1, FlyingIsGood DEF Ahead
  <2>. QED
    BY <1>1, <1>4, <1>5, <1>7, <2>1, <2>4, <2>5, <2>6, SettlingKeeps DEF Waits, g
<1>. QED
  BY <1>5, <1>6, <1>7

(* What a conflict leaves of the model.                                       *)
LEMMA ConflictLooks ==
  ASSUME NEW m \in Models, NEW mine, NEW n
  PROVE  LET c == Conflict(m, mine, n) IN
         /\ c.draft = mine /\ c.saved = m.saved /\ c.server = m.server /\ c.ver = m.ver
         /\ c.state = "conflict" /\ c.theirs.draft = n.draft /\ c.theirs.ver = n.ver
BY DEF Conflict, Models

(* A lost version check: the words are carried over, or both copies shown.    *)
LEMMA RefusedKeeps ==
  ASSUME Windows = {}, Types, Core, NEW i \in Visits, Refused(i)
  PROVE  Core'
<1>. DEFINE e == ed[i]
            shown == [e EXCEPT !.m = Conflict(e.m, e.m.draft, note), !.waits = 0]
            carried == [e EXCEPT !.m = Rebase(e.m, note.ver), !.rebased = TRUE, !.again = TRUE, !.waits = 0]
            failed == [e EXCEPT !.m = SaveError(e.m), !.waits = 0]
<1>1. /\ Acts(e) /\ e \in Editors /\ e.m \in Models /\ Sane(e, note, dev.q, Given)
      /\ Closure(e) \in Sights /\ Closure(e).seen.entry \in Copies /\ Closure(e).base <= note.ver
      /\ (Missed(Closure(e), dev.q) => QueuedHere(e, dev.q, Given))
      /\ e.fly.pc # "idle" /\ e.m.state \in {"saving", "dirty"}
      /\ \A g \in Fields : dev.cache.draft[g] \subseteq Found(note, dev.q, Given, g) \cup Ahead(e, g)
  BY FlyingIsGood DEF Refused
<1>2. /\ SaveError(e.m) \in Models /\ Rebase(e.m, note.ver) \in Models
      /\ Conflict(e.m, e.m.draft, note) \in Models
  BY <1>1, SavesAreModels, ChoicesAreModels, BlankIsADraft DEF Types, NoteType, Models
<1>3. /\ failed \in Editors /\ failed.m = SaveError(e.m) /\ failed.at = e.at /\ failed.sees = e.sees
      /\ failed.timer = e.timer /\ failed.asking = e.asking
  BY <1>1, <1>2 DEF Editors
<1>4. /\ shown \in Editors /\ shown.m = Conflict(e.m, e.m.draft, note) /\ shown.at = e.at
      /\ shown.sees = e.sees /\ shown.timer = e.timer /\ shown.asking = e.asking
  BY <1>1, <1>2 DEF Editors
<1>5. /\ carried \in Editors /\ carried.m = Rebase(e.m, note.ver) /\ carried.at = e.at
      /\ carried.sees = e.sees /\ carried.timer = e.timer /\ carried.asking = e.asking /\ carried.again
  BY <1>1, <1>2 DEF Editors
<1>6. /\ UNCHANGED <<note, dev, net, truth>>
      /\ \/ Set(i, Settled(failed, Closure(e)))
         \/ ~CarriesOver(e) /\ Set(i, Settled(shown, Closure(e)))
         \/ CarriesOver(e) /\ Set(i, Settled(carried, Closure(e)))
  BY DEF Refused
<1>7. ~Idle(e) /\ dev.q \in Entries /\ note.ver \in Nat /\ e.m.ver \in Nat
  BY <1>1 DEF Idle, Types, DevType, NoteType, Models
<1>q. DOMAIN dev.q.patch.set \subseteq Fields
  BY <1>7, SetsHaveFields, EntriesAreEntries DEF Patches
<1>8. CASE Set(i, Settled(failed, Closure(e)))
  BY <1>1, <1>3, <1>6, <1>8, ErrorKeeps
<1>9. CASE Set(i, Settled(shown, Closure(e)))
  <2>. DEFINE g == Grounds(shown)
  <2>1. /\ shown.m.draft = e.m.draft /\ shown.m.saved = e.m.saved /\ shown.m.server = e.m.server
        /\ shown.m.ver = e.m.ver /\ shown.m.state = "conflict"
        /\ shown.m.theirs.draft = note.draft /\ shown.m.theirs.ver = note.ver
    BY <1>1, <1>4, ConflictLooks
  <2>2. /\ g.fly = Grounded /\ g.m = shown.m /\ g.at = e.at /\ g.sees = e.sees /\ g.timer = e.timer
        /\ g.asking = e.asking
    BY <1>4, GroundsLooks
  <2>. HIDE DEF g, shown
  <2>3. Idle(g)
    BY <2>2 DEF Idle, Grounded
  <2>4. Dated(g, note) /\ Informed(g, note, dev.q, Given) /\ Covers(g, note, dev.q, Given)
        /\ SaysSo(g, note, dev.q, Given) /\ Behind(g, dev.q, Given) /\ Shape(g) /\ Flies(g, note, dev.q, Given)
    BY <1>1, <1>7, <2>1, <2>2, <2>3 DEF Sane, Dated, Informed, Covers, SaysSo, Behind, Shape, Flies, Quiet
  <2>5. Chooses(g, note, dev.q, Given)
    <3>1. \A h \in Fields : Has(dev.q, h) \subseteq e.m.draft[h]
      <4>1. CASE dev.q = NoEntry
        BY <4>1, NothingIsHeld
      <4>2. CASE dev.q # NoEntry
        BY <1>1, <1>7, <1>q, <4>2 DEF Sane, Flies, Replaces, Sends, Has
      <4>. QED
        BY <4>1, <4>2
    <3>2. \A h \in Fields : e.m.saved[h] \subseteq e.m.draft[h] \cup Given
      BY <1>1 DEF Sane, Covers
    <3>3. dev.q.patch.ver <= note.ver /\ note.ver <= note.ver
      BY <1>7 DEF Core, DeviceInv
    <3>. QED
      BY <2>1, <2>2, <2>3, <3>1, <3>2, <3>3 DEF Chooses, Knows
  <2>6. Sane(g, note, dev.q, Given)
    BY <2>4, <2>5 DEF Sane
  <2>7. \A h \in Fields : dev.cache.draft[h] \subseteq Found(note, dev.q, Given, h) \cup Ahead(shown, h)
    BY <1>1, <1>4, <2>1 DEF Ahead
  <2>. QED
    BY <1>1, <1>4, <1>6, <1>9, <2>1, <2>6, <2>7, SettlingKeeps DEF g
<1>10. CASE CarriesOver(e) /\ Set(i, Settled(carried, Closure(e)))
  <2>. DEFINE g == Grounds(carried)
  <2>0. note.ver > e.m.ver /\ note.draft = e.m.saved
    BY <1>10 DEF CarriesOver, SameText
  <2>1. /\ carried.m.draft = e.m.draft /\ carried.m.saved = e.m.saved /\ carried.m.server = e.m.saved
        /\ carried.m.ver = note.ver /\ carried.m.state = "dirty"
    BY <1>1, <1>2, <1>5, <1>7, <2>0 DEF Rebase, Models
  <2>2. /\ g.fly = Grounded /\ g.m = carried.m /\ g.at = e.at /\ g.sees = e.sees /\ g.timer = e.timer
        /\ g.asking = e.asking
    BY <1>5, GroundsLooks
  <2>. HIDE DEF g, carried
  <2>3. Idle(g)
    BY <2>2 DEF Idle, Grounded
  <2>4. \A h \in Fields : e.m.saved[h] \subseteq e.m.draft[h] \cup Given
    BY <1>1 DEF Sane, Covers
  <2>5. QueuedHere(e, dev.q, Given) => QueuedHere(g, dev.q, Given) /\ QueuedHere(carried, dev.q, Given)
    <3>1. dev.q.patch.ver \in Nat
      BY <1>7, EntriesAreEntries DEF Patches
    <3>. QED
      BY <1>7, <2>0, <2>1, <2>2, <3>1 DEF QueuedHere
  <2>6. Dated(g, note) /\ Informed(g, note, dev.q, Given) /\ Covers(g, note, dev.q, Given)
    BY <1>1, <1>7, <2>0, <2>1, <2>2, <2>4 DEF Sane, Dated, Informed, Covers, Knows, Found
  <2>7. SaysSo(g, note, dev.q, Given) /\ Chooses(g, note, dev.q, Given) /\ Shape(g) /\ Flies(g, note, dev.q, Given)
    BY <1>1, <1>7, <2>1, <2>2, <2>3 DEF Sane, SaysSo, Chooses, Shape, Flies, Quiet
  <2>8. Behind(g, dev.q, Given)
    BY <1>1, <2>2, <2>3, <2>5 DEF Sane, Behind
  <2>9. Sane(g, note, dev.q, Given)
    BY <2>6, <2>7, <2>8 DEF Sane
  <2>10. \A h \in Fields : dev.cache.draft[h] \subseteq Found(note, dev.q, Given, h) \cup Ahead(carried, h)
    BY <1>1, <1>5, <2>0, <2>1 DEF Ahead, Found, Core, CacheInv, Sane, Covers
  <2>. QED
    BY <1>1, <1>5, <1>6, <1>10, <2>1, <2>5, <2>9, <2>10, SettlingKeeps DEF g
<1>. QED
  BY <1>6, <1>8, <1>9, <1>10

-----------------------------------------------------------------------------
(* The choices                                                                *)

(* A retired edit is read back.                                               *)
LEMMA AskBackKeeps ==
  ASSUME Types, Core, NEW i \in Visits, AskBack(i), Windows = {}
  PROVE  Core'
<1>. DEFINE b == [ed[i] EXCEPT !.asking = TRUE]
<1>1. /\ ed[i].at = "open" /\ Acts(ed[i]) /\ ed[i].fly.pc = "idle" /\ ed[i].m.state \in Quiet
      /\ Set(i, b) /\ UNCHANGED <<note, dev, net, truth, left>>
  BY DEF AskBack, MayAsk, Open, Acts, Quiet
<1>2. /\ ed[i] \in Editors /\ Good(ed[i], note, dev.q, Given)
      /\ ed[i].sees.seen.entry \in Copies /\ ed[i].fly.sees.seen.entry \in Copies
  BY <1>1, ScreenIsGood
<1>3. /\ b \in Editors /\ b.m = ed[i].m /\ b.fly = ed[i].fly /\ b.at = ed[i].at /\ b.asking
      /\ b.timer = ed[i].timer /\ b.sees = ed[i].sees /\ b.again = ed[i].again
  BY <1>2 DEF Editors
<1>4. Turn(i, b)
  BY <1>1, SetTurns
<1>. HIDE DEF b
<1>5. Good(b, note, dev.q, Given)
  BY <1>1, <1>2, <1>3 DEF Good, Sane, Armed, Waits, Dated, Informed, Covers, SaysSo, Chooses, Shape, Behind, QueuedHere,
     Flies, Sends, Idle
<1>. QED
  BY <1>1, <1>2, <1>3, <1>4, <1>5, OnScreenAlone

(* Mine are kept: what is theirs alone is given up knowing so.                *)
LEMMA KeepTapKeeps ==
  ASSUME Windows = {}, Types, Core, NEW i \in Visits, KeepTap(i)
  PROVE  Core'
<1>. DEFINE m == ed[i].m
            e(k) == [ed[i] EXCEPT !.m = k, !.timer = "none"]
<1>1. ed[i].at = "open" /\ Acts(ed[i]) /\ m.state = "conflict"
  BY DEF KeepTap, Open, Acts
<1>2. /\ ed[i] \in Editors /\ m \in Models /\ Sane(ed[i], note, dev.q, Given) /\ dev.q \in Entries
      /\ note.ver \in Nat /\ ed[i].sees.seen.entry \in Copies /\ ed[i].fly.sees.seen.entry \in Copies /\ Alone(i)
  BY <1>1, ScreenIsGood DEF Good
<1>3. KeepMine(m) \in Models /\ KeepBoth(m) \in Models /\ m.theirs.ver \in Nat
  BY <1>2, ChoicesAreModels DEF Types, NoteType, Models, Theirs
<1>4. \E k \in {KeepMine(m), KeepBoth(m)} :
        /\ Set(i, Save(e(k), Rendered)) /\ Gives(Missing(m.theirs.draft, k.draft))
        /\ UNCHANGED <<note, dev, net, left>>
  <2>1. KeepMine(m).draft = m.draft
    BY <1>2 DEF KeepMine, Models
  <2>. QED
    BY <2>1 DEF KeepTap
<1>5. PICK k \in {KeepMine(m), KeepBoth(m)} :
        /\ Set(i, Save(e(k), Rendered)) /\ Gives(Missing(m.theirs.draft, k.draft))
        /\ UNCHANGED <<note, dev, net, left>>
  BY <1>4
<1>. DEFINE x == e(k)
            b == Save(x, Rendered)
<1>6. /\ k \in Models /\ k.saved = m.saved /\ k.server = m.theirs.draft /\ k.ver = m.theirs.ver /\ k.state = "dirty"
      /\ \A g \in Fields : m.draft[g] \subseteq k.draft[g] /\ k.draft[g] \subseteq m.draft[g] \cup {Paragraph}
  <2>1. /\ KeepMine(m).saved = m.saved /\ KeepMine(m).server = m.theirs.draft /\ KeepMine(m).ver = m.theirs.ver
        /\ KeepMine(m).state = "dirty" /\ KeepMine(m).draft = m.draft
    BY <1>2 DEF KeepMine, Models
  <2>. DEFINE d == [m.draft EXCEPT !["body"] = @ \cup {Paragraph}]
  <2>2. KeepBoth(m) = [KeepMine(m) EXCEPT !.draft = d]
    BY <1>2, <1>3, <2>1 DEF KeepBoth, Models
  <2>3. \A g \in Fields : m.draft[g] \subseteq d[g] /\ d[g] \subseteq m.draft[g] \cup {Paragraph}
    BY <1>2 DEF Models, Drafts
  <2>. HIDE DEF d
  <2>4. /\ KeepBoth(m).saved = m.saved /\ KeepBoth(m).server = m.theirs.draft /\ KeepBoth(m).ver = m.theirs.ver
        /\ KeepBoth(m).state = "dirty" /\ KeepBoth(m).draft = d
    BY <1>3, <2>1, <2>2 DEF Models
  <2>. QED
    BY <1>3, <1>5, <2>1, <2>3, <2>4
<1>7. /\ x \in Editors /\ x.m = k /\ x.timer = "none" /\ x.fly = ed[i].fly /\ x.at = "open"
      /\ x.asking = ed[i].asking /\ x.sees = ed[i].sees
  BY <1>1, <1>2, <1>6 DEF Editors
<1>8. /\ truth'.typed = truth.typed /\ truth'.landed = truth.landed
      /\ Given' = Given \cup Missing(m.theirs.draft, k.draft)
  BY <1>5 DEF Gives, Types, TruthType, Given
<1>9. \A g \in Fields : m.theirs.draft[g] \subseteq k.draft[g] \cup Given'
  BY <1>8 DEF Missing
<1>10. Turn(i, b) /\ Fits(b.fly)
  BY <1>5, SetTurns
<1>. HIDE DEF x, e
<1>11. Sane(x, note, dev.q, Given')
  <2>0. Chooses(ed[i], note, dev.q, Given) /\ Dated(ed[i], note) /\ Shape(ed[i])
    BY <1>2 DEF Sane
  <2>c. /\ Idle(ed[i]) /\ m.theirs.ver <= note.ver
        /\ (m.theirs.ver = note.ver => Knows(note, Given, m.theirs.draft))
        /\ \A g \in Fields :
          /\ m.theirs.draft[g] \subseteq note.draft[g] \cup Given
          /\ m.saved[g] \subseteq m.draft[g] \cup m.theirs.draft[g] \cup Given
          /\ Has(dev.q, g) \subseteq m.draft[g]
        /\ (dev.q # NoEntry => dev.q.patch.ver <= m.theirs.ver)
    BY <1>1, <2>0 DEF Chooses
  <2>1. Dated(x, note)
    BY <1>6, <1>7, <2>0, <2>c DEF Dated
  <2>2. Informed(x, note, dev.q, Given')
    <3>1. Newest(note, dev.q, m.theirs.ver) => m.theirs.ver = note.ver
      <4>1. dev.q.patch.ver \in Nat
        BY <1>2, EntriesAreEntries DEF Patches
      <4>. QED
        BY <1>2, <1>3, <2>c, <4>1 DEF Newest
    <3>. QED
      BY <1>6, <1>7, <1>8, <1>9, <2>c, <3>1 DEF Informed, Knows
  <2>3. Covers(x, note, dev.q, Given')
    BY <1>6, <1>7, <1>8, <1>9, <2>c DEF Covers, Found
  <2>4. SaysSo(x, note, dev.q, Given') /\ Chooses(x, note, dev.q, Given') /\ Shape(x) /\ Behind(x, dev.q, Given')
        /\ Flies(x, note, dev.q, Given')
    BY <1>1, <1>6, <1>7, <2>0, <2>c DEF SaysSo, Chooses, Shape, Behind, Flies, Quiet, Idle
  <2>. QED
    BY <2>1, <2>2, <2>3, <2>4 DEF Sane
<1>12. Rendered.seen.read \/ dev.q = NoEntry => SeesRight(Rendered, x, note, dev.q, Given')
  BY RenderedIsRight, SightIsRight DEF Core
<1>13. Good(b, note, dev.q, Given')
  BY <1>2, <1>7, <1>10, <1>11, <1>12, SaveGoes, RenderedIsRight
<1>14. /\ b \in Editors /\ b.at = "open" /\ b.m.draft = k.draft /\ b.m.server = m.theirs.draft
       /\ b.sees.seen.entry \in Copies /\ b.fly.sees.seen.entry \in Copies
  BY <1>2, <1>6, <1>7, SaveLooks, SaveIsAnEditor, RenderedIsRight
<1>. HIDE DEF b
<1>15. Known' = Known /\ Paragraph \in Known
  BY <1>8 DEF Known
<1>16. /\ Given \subseteq Known
       /\ \A g \in Fields : m.draft[g] \subseteq Known /\ note.draft[g] \subseteq Known
  BY DEF Core, FromSomebody
<1>c. \A g \in Fields : m.theirs.draft[g] \subseteq note.draft[g] \cup Given
  BY <1>1, <1>2 DEF Sane, Chooses
<1>17. Given \subseteq Given' /\ Given' \subseteq Known'
  BY <1>8, <1>15, <1>16, <1>c DEF Missing
<1>18. \A g \in Fields : dev.cache.draft[g] \subseteq Found(note, dev.q, Given', g) \cup Ahead(b, g)
  <2>1. \A g \in Fields : Resent(g) \subseteq m.draft[g]
    BY <1>1, <1>2, ResentIsThere DEF Ahead
  <2>. QED
    BY <1>6, <1>14, <1>17, <1>c, <2>1 DEF Core, CacheInv, Found, Ahead
<1>19. \A g \in Fields : /\ b.m.draft[g] \subseteq Known'
                         /\ ed[i].m.draft[g] \subseteq b.m.draft[g] \cup Found(note, dev.q, Given', g)
  BY <1>6, <1>14, <1>15, <1>16
<1>20. UNCHANGED <<note, dev, net>> /\ b.at # "out" /\ NewWords'
  BY <1>5, <1>8, <1>14 DEF Core, NewWords
<1>. QED
  BY <1>2, <1>8, <1>10, <1>13, <1>14, <1>17, <1>18, <1>19, <1>20, OnScreen

-----------------------------------------------------------------------------
(* The screen and the device move                                             *)

(* A screen, the queue and the caches move, the note does not.                *)
LEMMA OnDevice ==
  ASSUME Types, Core, NEW i \in Visits, Alone(i), NEW e \in Editors, e.at # "out", Turn(i, e),
         UNCHANGED <<note, net>>, truth'.typed = truth.typed, truth'.landed = truth.landed,
         Given \subseteq Given', Given' \subseteq Known, Good(e, note, dev'.q, Given'),
         DeviceInv', Aware', KeysInv', dev.keys \in Nat, dev'.keys \in Nat, dev.keys <= dev'.keys,
         \A g \in Fields : /\ e.m.draft[g] \subseteq Known /\ Has(dev'.q, g) \subseteq Known
                           /\ note.draft[g] \cup Has(dev.q, g) \cup ed[i].m.draft[g]
                                \subseteq e.m.draft[g] \cup Found(note, dev'.q, Given', g)
                           /\ dev'.cache.draft[g] \subseteq Found(note, dev'.q, Given', g) \cup Ahead(e, g)
  PROVE  Core'
<1>0. Known' = Known /\ note' = note /\ net' = net
  BY DEF Known
<1>1. OneScreen' /\ Screens' /\ Alone(i)'
  BY <1>0, ScreensTurn DEF Core
<1>2. CacheInv'
  BY <1>0, <1>1, CacheTurns
<1>4. AllKept'
  BY <1>0, WordsTurn DEF Core, Found
<1>5. FromSomebody'
  <2>1. \A g \in Fields : note.draft[g] \subseteq Known /\ Has(net.flush.entry, g) \subseteq Known
    BY DEF Core, FromSomebody
  <2>. QED
    BY <1>0, <2>1, KnownTurn DEF Core
<1>6. NewWords' /\ OnServer'
  BY DEF Core, NewWords, OnServer
<1>8. FlushInv'
  <2>1. DOMAIN net.flush.entry.patch.set \subseteq Fields /\ net.flush.entry.key \in Nat
    BY SetsHaveFields, EntriesAreEntries DEF Types, NetType, Patches
  <2>. QED
    BY <1>0, <2>1 DEF Core, FlushInv
<1>. QED
  BY <1>1, <1>2, <1>4, <1>5, <1>6, <1>8 DEF Core

(* KeysTurn, with the pass over the queue where it was.                       *)
LEMMA CopiesTurn ==
  ASSUME KeysInv, NEW i \in Visits, NEW e \in Editors, e.at # "out", Turn(i, e), net' = net,
         Good(e, note', dev'.q, Given'),
         e.sees.seen.entry \in Copies, e.fly.sees.seen.entry \in Copies,
         dev'.q \in Copies, dev'.seen.entry \in Copies, dev'.keys = dev.keys
  PROVE  KeysInv'
BY KeysTurn DEF Copies

(* An empty queue, the rest of the device as it was.                          *)
LEMMA ForgottenIsRight ==
  ASSUME Types, Core, note' = note, Given \subseteq Given', dev' = Forgotten
  PROVE  /\ DeviceInv' /\ Aware' /\ dev'.keys = dev.keys /\ dev'.cache = dev.cache
         /\ dev'.q = NoEntry /\ dev'.seen.entry = NoEntry /\ NoEntry \in Copies /\ dev.keys \in Nat
         /\ \A g : Found(note, dev'.q, Given', g) = note.draft[g] \cup Given' /\ Has(dev'.q, g) = {}
<1>1. /\ dev'.keys = dev.keys /\ dev'.cache = dev.cache /\ dev'.q = NoEntry /\ dev'.seen = Read(NoEntry)
      /\ dev.keys \in Nat /\ note.ver \in Nat
  BY DEF Forgotten, Types, DevType, NoteType
<1>2. DeviceInv'
  BY <1>1 DEF Core, DeviceInv, Read, NoEntry, Patch
<1>3. Aware'
  <2>1. DOMAIN dev'.q.patch.set = {}
    BY <1>1, NothingIsASet DEF NoEntry, Patch
  <2>2. Newest(note', dev'.q, dev'.cache.ver) => Newest(note, dev.q, dev.cache.ver)
    BY <1>1 DEF Newest
  <2>3. Knows(note, Given, dev.cache.draft) => Knows(note', Given', dev'.cache.draft)
    BY <1>1 DEF Knows
  <2>. QED
    BY <1>1, <2>1, <2>2, <2>3 DEF Core, Aware, Q
<1>. QED
  BY <1>1, <1>2, <1>3, NothingIsHeld DEF Read, Copies, Found

(* Theirs is taken: what is mine alone is given up knowing so.                *)
LEMMA TakeTheirsKeeps ==
  ASSUME Types, Core, NEW i \in Visits, TakeTheirsTap(i)
  PROVE  Core'
<1>. DEFINE m == ed[i].m
            k == TakeTheirs(m)
            b == [ed[i] EXCEPT !.m = k]
<1>1. ed[i].at = "open" /\ Acts(ed[i]) /\ m.state = "conflict"
  BY DEF TakeTheirsTap, Open, Acts
<1>2. /\ ed[i] \in Editors /\ m \in Models /\ Sane(ed[i], note, dev.q, Given)
      /\ note.ver \in Nat /\ ed[i].sees.seen.entry \in Copies /\ ed[i].fly.sees.seen.entry \in Copies /\ Alone(i)
  BY <1>1, ScreenIsGood DEF Good
<1>3. k \in Models
  BY <1>2, ChoicesAreModels DEF Types, NoteType
<1>4. /\ k.draft = m.theirs.draft /\ k.saved = m.theirs.draft /\ k.server = m.theirs.draft
      /\ k.ver = m.theirs.ver /\ k.state = "saved"
  BY <1>3 DEF TakeTheirs, InitialEditor, Note
<1>5. /\ b \in Editors /\ b.m = k /\ b.fly = ed[i].fly /\ b.at = "open" /\ b.asking = ed[i].asking
      /\ b.timer = ed[i].timer /\ b.sees = ed[i].sees
  BY <1>1, <1>2, <1>3 DEF Editors
<1>6. Set(i, b) /\ dev' = Forgotten /\ Gives(Missing(m.draft, m.theirs.draft)) /\ UNCHANGED <<note, net>>
  BY DEF TakeTheirsTap
<1>7. Turn(i, b)
  BY <1>6, SetTurns
<1>. HIDE DEF b, k
<1>8. /\ truth'.typed = truth.typed /\ truth'.landed = truth.landed
      /\ Given' = Given \cup Missing(m.draft, m.theirs.draft)
  BY <1>6 DEF Gives, Types, TruthType, Given
<1>9. \A g \in Fields : m.draft[g] \subseteq m.theirs.draft[g] \cup Given'
  BY <1>8 DEF Missing
<1>10. /\ DeviceInv' /\ Aware' /\ dev'.keys = dev.keys /\ dev'.cache = dev.cache
       /\ dev'.q = NoEntry /\ dev'.seen.entry = NoEntry /\ NoEntry \in Copies /\ dev.keys \in Nat
       /\ \A g : Found(note, dev'.q, Given', g) = note.draft[g] \cup Given' /\ Has(dev'.q, g) = {}
  BY <1>6, <1>8, ForgottenIsRight
<1>c. /\ Idle(ed[i]) /\ m.theirs.ver <= note.ver
      /\ (m.theirs.ver = note.ver => Knows(note, Given, m.theirs.draft))
      /\ \A g \in Fields : /\ m.theirs.draft[g] \subseteq note.draft[g] \cup Given
                           /\ Has(dev.q, g) \subseteq m.draft[g]
  BY <1>1, <1>2 DEF Sane, Chooses
<1>11. Good(b, note, dev'.q, Given')
  <2>0. Shape(ed[i]) /\ Dated(ed[i], note)
    BY <1>2 DEF Sane
  <2>1. Dated(b, note)
    BY <1>4, <1>5, <1>c, <2>0 DEF Dated
  <2>2. Informed(b, note, dev'.q, Given')
    BY <1>4, <1>5, <1>8, <1>10, <1>c DEF Informed, Newest, Knows
  <2>3. Covers(b, note, dev'.q, Given') /\ SaysSo(b, note, dev'.q, Given')
    BY <1>4, <1>5, <1>8, <1>10, <1>c DEF Covers, SaysSo, Findable
  <2>4. Chooses(b, note, dev'.q, Given') /\ Shape(b) /\ Behind(b, dev'.q, Given') /\ Armed(b)
        /\ Flies(b, note, dev'.q, Given')
    BY <1>1, <1>4, <1>5, <1>c, <2>0 DEF Chooses, Shape, Behind, Flies, Armed, Idle, Quiet
  <2>. QED
    BY <2>1, <2>2, <2>3, <2>4 DEF Good, Sane
<1>12. /\ Given \subseteq Known
       /\ \A g \in Fields : m.draft[g] \subseteq Known /\ note.draft[g] \subseteq Known
  BY DEF Core, FromSomebody
<1>13. Given \subseteq Given' /\ Given' \subseteq Known
  BY <1>8, <1>12 DEF Missing
<1>14. KeysInv'
  BY <1>2, <1>5, <1>6, <1>7, <1>10, <1>11, CopiesTurn DEF Core
<1>15. \A g \in Fields : /\ b.m.draft[g] \subseteq Known /\ Has(dev'.q, g) \subseteq Known
                         /\ note.draft[g] \cup Has(dev.q, g) \cup ed[i].m.draft[g]
                                \subseteq b.m.draft[g] \cup Found(note, dev'.q, Given', g)
  BY <1>4, <1>5, <1>9, <1>10, <1>12, <1>13, <1>c
<1>16. \A g \in Fields : dev'.cache.draft[g] \subseteq Found(note, dev'.q, Given', g) \cup Ahead(b, g)
  <2>1. \A g \in Fields : Resent(g) \subseteq m.draft[g]
    BY <1>1, <1>2, ResentIsThere DEF Ahead
  <2>. QED
    BY <1>9, <1>10, <1>13, <1>c, <2>1 DEF Core, CacheInv, Found
<1>17. dev'.keys \in Nat /\ dev.keys <= dev'.keys /\ b.at # "out"
  BY <1>5, <1>10
<1>. QED
  BY <1>2, <1>5, <1>6, <1>7, <1>8, <1>10, <1>11, <1>13, <1>14, <1>15, <1>16, <1>17, OnDevice

(* The queued fields come back over what is on the screen.                    *)
LEMMA HeldOverLooks ==
  ASSUME NEW d \in Drafts
  PROVE  \A g \in Fields : HeldOver(d)[g] = IF g \in DOMAIN dev.q.patch.set THEN Has(dev.q, g) ELSE d[g]
BY DEF HeldOver, Upon, Drafts, Has

(* A screen that reads an edit back shows nothing unsaved.                    *)
LEMMA AskingIsGood ==
  ASSUME Types, Core, NEW i \in Visits, ed[i].asking
  PROVE  /\ ed[i].at = "open" /\ Acts(ed[i]) /\ Idle(ed[i]) /\ ed[i].m.state \in Quiet
         /\ ed[i] \in Editors /\ ed[i].m \in Models /\ Good(ed[i], note, dev.q, Given)
<1>1. Acts(ed[i])
  BY DEF Core, Screens
<1>2. ed[i] \in Editors /\ ed[i].m \in Models /\ Good(ed[i], note, dev.q, Given)
  BY <1>1, ScreenIsGood
<1>. QED
  BY <1>1, <1>2 DEF Good, Sane, Shape

(* The retired edit is on the screen again: in conflict, or being saved.      *)
LEMMA AnswerBackKeeps ==
  ASSUME Windows = {}, Types, Core, NEW i \in Visits, AnswerBack(i)
  PROVE  Core'
<1>. DEFINE e == [ed[i] EXCEPT !.asking = FALSE]
            m == ed[i].m
            held == HeldOver(m.draft)
            c == Conflict(m, held, note)
            shown == [e EXCEPT !.m = c]
            x == [e EXCEPT !.m = KeepMine(c)]
<1>1. /\ ed[i].at = "open" /\ Acts(ed[i]) /\ Idle(ed[i]) /\ m.state \in Quiet
      /\ ed[i] \in Editors /\ m \in Models /\ Good(ed[i], note, dev.q, Given)
      /\ dev.q \in Entries /\ note.ver \in Nat /\ dev.q.patch.ver \in Nat /\ m.draft \in Drafts
      /\ ed[i].sees.seen.entry \in Copies /\ ed[i].fly.sees.seen.entry \in Copies /\ Alone(i)
  BY AskingIsGood, ScreenIsGood, EntriesAreEntries DEF AnswerBack, Patches, Models
<1>2. /\ e \in Editors /\ e.m = m /\ e.fly = ed[i].fly /\ e.at = "open" /\ ~e.asking
      /\ e.timer = ed[i].timer /\ e.sees = ed[i].sees /\ e.again = ed[i].again
  BY <1>1 DEF Editors
<1>3. \A g \in Fields : held[g] = IF g \in DOMAIN dev.q.patch.set THEN Has(dev.q, g) ELSE m.draft[g]
  BY <1>1, HeldOverLooks
<1>4. held \in Drafts /\ note.draft \in Drafts
  BY <1>1, OverADraft, EntriesAreEntries DEF HeldOver, Types, DevType, NoteType, Patches
<1>5. \/ Set(i, e) /\ UNCHANGED dev
      \/ dev.q # NoEntry /\ note.ver <= dev.q.patch.ver /\ Set(i, Save(x, Rendered)) /\ dev' = Forgotten
      \/ dev.q # NoEntry /\ Set(i, shown) /\ UNCHANGED dev
  BY <1>2 DEF AnswerBack
<1>6. UNCHANGED <<note, net, truth>>
  BY DEF AnswerBack
<1>. HIDE DEF held
<1>7. /\ c \in Models /\ c.draft = held /\ c.saved = m.saved /\ c.server = m.server /\ c.ver = m.ver
      /\ c.state = "conflict" /\ c.theirs.draft = note.draft /\ c.theirs.ver = note.ver
  BY <1>1, <1>4, ConflictLooks, ChoicesAreModels
<1>. HIDE DEF c
<1>8. /\ KeepMine(c) \in Models /\ KeepMine(c).draft = held /\ KeepMine(c).saved = m.saved
      /\ KeepMine(c).server = note.draft /\ KeepMine(c).ver = note.ver /\ KeepMine(c).state = "dirty"
  <2>1. KeepMine(c) \in Models
    BY <1>1, <1>4, <1>7, ChoicesAreModels
  <2>. QED
    BY <1>7, <2>1 DEF KeepMine, Models
<1>9. /\ shown \in Editors /\ shown.m = c /\ shown.fly = ed[i].fly /\ shown.at = "open" /\ ~shown.asking
      /\ shown.timer = ed[i].timer /\ shown.sees = ed[i].sees /\ shown.again = ed[i].again
  BY <1>2, <1>7 DEF Editors
<1>10. /\ x \in Editors /\ x.m = KeepMine(c) /\ x.fly = ed[i].fly /\ x.at = "open" /\ ~x.asking
       /\ x.timer = ed[i].timer /\ x.sees = ed[i].sees /\ x.again = ed[i].again
  BY <1>2, <1>8 DEF Editors
<1>. HIDE DEF e, shown, x
(* What is on the screen is to be found; what is queued is on the screen.     *)
<1>11. \A g \in Fields : /\ m.draft[g] \subseteq Found(note, dev.q, Given, g) /\ m.saved[g] = m.draft[g]
                         /\ Has(dev.q, g) \subseteq held[g]
                         /\ m.draft[g] \subseteq held[g] \cup note.draft[g] \cup Given
  <2>1. \A g \in Fields : m.draft[g] \subseteq Found(note, dev.q, Given, g) /\ m.saved[g] = m.draft[g]
    BY <1>1 DEF Good, Sane, SaysSo, Findable
  <2>. QED
    BY <1>3, <2>1 DEF Found, Has
<1>12. Known' = Known /\ Given' = Given /\ truth'.typed = truth.typed /\ truth'.landed = truth.landed
  BY <1>6 DEF Known, Given
<1>13. /\ Given \subseteq Known
       /\ \A g \in Fields : m.draft[g] \subseteq Known /\ Has(dev.q, g) \subseteq Known /\ held[g] \subseteq Known
  BY <1>3 DEF Core, FromSomebody
<1>14. \A g \in Fields : Resent(g) = m.draft[g] \ m.server[g]
  BY <1>1, ResentIsThere DEF Ahead
<1>15. \A g \in Fields : dev.cache.draft[g] \subseteq Found(note, dev.q, Given, g)
  BY <1>11, <1>14 DEF Core, CacheInv
<1>16. NewWords'
  BY <1>12 DEF Core, NewWords
<1>17. CASE Set(i, e) /\ UNCHANGED dev
  <2>1. Turn(i, e)
    BY <1>17, SetTurns
  <2>2. Good(e, note, dev.q, Given)
    BY <1>1, <1>2 DEF Good, Sane, Armed, Waits, Dated, Informed, Covers, SaysSo, Chooses, Shape, Behind, QueuedHere,
       Flies, Idle
  <2>. QED
    BY <1>1, <1>2, <1>6, <1>17, <2>1, <2>2, OnScreenAlone
<1>18. CASE dev.q # NoEntry /\ Set(i, shown) /\ UNCHANGED dev
  <2>1. Turn(i, shown)
    BY <1>18, SetTurns
  <2>2. Good(shown, note, dev.q, Given)
    <3>1. Dated(shown, note) /\ Informed(shown, note, dev.q, Given) /\ Covers(shown, note, dev.q, Given)
          /\ SaysSo(shown, note, dev.q, Given) /\ Behind(shown, dev.q, Given)
      BY <1>1, <1>7, <1>9 DEF Good, Sane, Dated, Informed, Covers, SaysSo, Behind, Quiet
    <3>2. Shape(shown) /\ Armed(shown) /\ Flies(shown, note, dev.q, Given)
      BY <1>1, <1>7, <1>9 DEF Shape, Armed, Flies, Idle
    <3>3. Chooses(shown, note, dev.q, Given)
      <4>1. dev.q.patch.ver <= note.ver
        BY DEF Core, DeviceInv
      <4>. QED
        BY <1>1, <1>7, <1>9, <1>11, <4>1 DEF Chooses, Idle, Knows
    <3>. QED
      BY <3>1, <3>2, <3>3 DEF Good, Sane
  <2>3. \A g \in Fields : /\ shown.m.draft[g] \subseteq Known'
                          /\ ed[i].m.draft[g] \subseteq shown.m.draft[g] \cup Found(note, dev.q, Given', g)
                          /\ dev.cache.draft[g] \subseteq Found(note, dev.q, Given', g) \cup Ahead(shown, g)
    BY <1>7, <1>9, <1>11, <1>12, <1>13, <1>15
  <2>4. UNCHANGED <<note, dev, net>> /\ shown.at # "out"
    BY <1>6, <1>9, <1>18
  <2>. QED
    BY <1>1, <1>9, <1>12, <1>13, <1>16, <2>1, <2>2, <2>3, <2>4, OnScreen
<1>19. CASE dev.q # NoEntry /\ note.ver <= dev.q.patch.ver /\ Set(i, Save(x, Rendered)) /\ dev' = Forgotten
  <2>. DEFINE b == Save(x, Rendered)
  <2>1. Turn(i, b) /\ Fits(b.fly)
    BY <1>19, SetTurns
  <2>2. /\ DeviceInv' /\ Aware' /\ dev'.keys = dev.keys /\ dev'.cache = dev.cache
        /\ dev'.q = NoEntry /\ dev'.seen.entry = NoEntry /\ NoEntry \in Copies /\ dev.keys \in Nat
        /\ \A g : Found(note, dev'.q, Given', g) = note.draft[g] \cup Given' /\ Has(dev'.q, g) = {}
    BY <1>6, <1>12, <1>19, ForgottenIsRight
  <2>3. dev.q.patch.ver = note.ver
    BY <1>1, <1>19 DEF Core, DeviceInv
  <2>4. \A g \in Fields : note.draft[g] \subseteq held[g] \cup Given
    <3>1. \A g \in DOMAIN dev.q.patch.set : note.draft[g] \subseteq dev.q.patch.set[g] \cup Given
      BY <1>19, <2>3 DEF Core, Aware, Q
    <3>2. Knows(note, Given, m.draft)
      BY <1>1, <1>19, <2>3 DEF Good, Sane, Informed, Newest, Quiet
    <3>. QED
      BY <1>3, <3>1, <3>2 DEF Knows, Has
  <2>5. Sane(x, note, NoEntry, Given)
    <3>1. Dated(x, note)
      BY <1>1, <1>8, <1>10 DEF Good, Sane, Dated
    <3>2. Informed(x, note, NoEntry, Given)
      BY <1>8, <1>10, <2>4 DEF Informed, Knows
    <3>3. Covers(x, note, NoEntry, Given)
      BY <1>8, <1>10, <1>11, <2>4 DEF Covers, Found
    <3>4. SaysSo(x, note, NoEntry, Given) /\ Chooses(x, note, NoEntry, Given) /\ Shape(x)
          /\ Behind(x, NoEntry, Given) /\ Flies(x, note, NoEntry, Given)
      BY <1>1, <1>8, <1>10 DEF SaysSo, Chooses, Shape, Behind, Missed, Flies, Idle, Quiet
    <3>. QED
      BY <3>1, <3>2, <3>3, <3>4 DEF Sane
  <2>6. SeesRight(Rendered, x, note, NoEntry, Given)
    BY RenderedIsRight DEF SeesRight
  <2>7. Good(b, note, NoEntry, Given)
    BY <1>1, <1>10, <2>1, <2>5, <2>6, SaveGoes, RenderedIsRight, NothingIsTyped
  <2>8. /\ b \in Editors /\ b.at = "open" /\ b.m.draft = held /\ b.m.server = note.draft
        /\ b.sees.seen.entry \in Copies /\ b.fly.sees.seen.entry \in Copies
    BY <1>1, <1>8, <1>10, SaveLooks, SaveIsAnEditor, RenderedIsRight
  <2>. HIDE DEF b
  <2>9. note' = note /\ net' = net /\ b.at # "out" /\ Good(b, note', dev'.q, Given')
    BY <1>6, <1>12, <2>2, <2>7, <2>8
  <2>10. KeysInv'
    BY <1>1, <2>1, <2>2, <2>8, <2>9, CopiesTurn DEF Core
  <2>11. \A g \in Fields : /\ b.m.draft[g] \subseteq Known /\ Has(dev'.q, g) \subseteq Known
                           /\ note.draft[g] \cup Has(dev.q, g) \cup ed[i].m.draft[g]
                                \subseteq b.m.draft[g] \cup Found(note, dev'.q, Given', g)
                           /\ dev'.cache.draft[g] \subseteq Found(note, dev'.q, Given', g) \cup Ahead(b, g)
    BY <1>11, <1>12, <1>13, <1>15, <2>2, <2>8 DEF Found, Ahead
  <2>12. Good(b, note, dev'.q, Given') /\ Given' \subseteq Known /\ Given \subseteq Given' /\ dev'.keys \in Nat
         /\ dev.keys <= dev'.keys
    BY <1>12, <1>13, <2>2, <2>9
  <2>. QED
    BY <1>1, <1>12, <2>1, <2>2, <2>8, <2>9, <2>10, <2>11, <2>12, OnDevice
<1>. QED
  BY <1>5, <1>17, <1>18, <1>19

-----------------------------------------------------------------------------
(* A save that was stored                                                     *)

(* Forgetting takes from the queue only what is on the server.                *)
LEMMA ForgetSettles ==
  ASSUME Types, Core, NEW i \in Visits, ed[i].fly.pc = "stored", NEW d,
         d = IF ed[i].fly.sees.seen = Read(NoEntry) THEN dev ELSE Forget(ed[i].fly.sees.seen)
  PROVE  /\ d \in [q : Entries, seen : Seens, cache : Notes, keys : Nat]
         /\ d.keys = dev.keys /\ d.cache = dev.cache
         /\ Settles(dev.q, d.q, note, Given)
         /\ d.q = NoEntry \/ (d.q = dev.q /\ ~ReadsIt(ed[i].fly.sees, dev.q))
         /\ d.seen \in {dev.seen, Read(d.q)}
<1>. DEFINE f == ed[i].fly
            s == f.sees.seen
<1>1. /\ Sane(ed[i], note, dev.q, Given) /\ f \in Flights /\ s \in Seens /\ dev.q \in Entries
  BY FlyingIsGood DEF Editors, Flights, Sights, Types, DevType
<1>2. dev \in [q : Entries, seen : Seens, cache : Notes, keys : Nat]
  BY DEF Types, DevType
<1>3. d \in [q : Entries, seen : Seens, cache : Notes, keys : Nat]
  BY <1>1, <1>2, ForgottenIsTyped DEF Types
<1>4. DOMAIN dev.q.patch.set \subseteq Fields
  BY <1>1, SetsHaveFields, EntriesAreEntries DEF Patches
<1>5. CASE d.q = dev.q
  <2>1. Settles(dev.q, d.q, note, Given)
    BY <1>5, NothingIsHeld DEF Settles
  <2>2. /\ d.keys = dev.keys /\ d.cache = dev.cache /\ d.seen \in {dev.seen, Read(d.q)}
        /\ (d.q # NoEntry => s = Read(NoEntry) \/ (s.read /\ dev.q.key \notin {0, s.entry.key}))
    BY <1>2, <1>5 DEF Forget
  <2>3. d.q # NoEntry => ~ReadsIt(f.sees, dev.q)
    BY <1>5, <2>2 DEF ReadsIt, Core, DeviceInv, Read, NoEntry
  <2>. QED
    BY <1>3, <1>5, <2>1, <2>2, <2>3
<1>6. CASE d.q # dev.q
  <2>1. /\ d.q = NoEntry /\ d.seen = Read(NoEntry) /\ d.keys = dev.keys /\ d.cache = dev.cache
        /\ (~s.read \/ dev.q.key \in {0, s.entry.key})
    BY <1>2, <1>6 DEF Forget
  <2>2. dev.q # NoEntry /\ dev.q.key # 0
    BY <1>6, <2>1 DEF Core, DeviceInv
  <2>3. Replaces(f, note, dev.q, Given) /\ Lands(f, note, Given)
    BY <1>1 DEF Sane, Flies, Idle
  <2>4. \A g \in DOMAIN dev.q.patch.set : dev.q.patch.set[g] \subseteq note.draft[g] \cup Given
    <3>. SUFFICES ASSUME NEW g \in DOMAIN dev.q.patch.set
                  PROVE  dev.q.patch.set[g] \subseteq note.draft[g] \cup Given
      OBVIOUS
    <3>1. dev.q.patch.set[g] \subseteq f.sent[g]
      BY <2>2, <2>3 DEF Replaces
    <3>2. g \in DOMAIN f.patch.set => f.sent[g] \subseteq note.draft[g] \cup Given
      BY <2>3 DEF Lands
    <3>3. g \in DOMAIN f.patch.set \/ f.sent[g] \subseteq note.draft[g] \cup Given
      BY <2>1, <2>2, <2>3 DEF Replaces, ReadsIt
    <3>. QED
      BY <3>1, <3>2, <3>3
  <2>5. Settles(dev.q, d.q, note, Given)
    BY <2>1, <2>4 DEF Settles, Has
  <2>. QED
    BY <1>3, <2>1, <2>5
<1>. QED
  BY <1>5, <1>6

(* What an acknowledgement leaves of the model.                               *)
LEMMA SuccessLooks ==
  ASSUME NEW m \in Models, NEW sent \in Drafts, NEW v \in Nat
  PROVE  LET k == SaveSuccess(m, sent, v) IN
         /\ k \in Models /\ k.draft = m.draft /\ k.saved = sent /\ k.server = sent /\ k.ver = v
         /\ k.state = IF m.draft = sent THEN "saved" ELSE "dirty"
<1>1. SaveSuccess(m, sent, v) \in Models
  BY SavesAreModels
<1>. QED
  BY <1>1 DEF SaveSuccess, Models

(* The words sent are on the note or still queued, and what was typed since   *)
(* is on the screen.                                                          *)
LEMMA StoredIsSane ==
  ASSUME NEW e \in Editors, e.fly.pc = "stored", NEW q \in Entries, NEW n, n.ver \in Nat, NEW H,
         Good(e, n, q, H), q = NoEntry \/ ~ReadsIt(e.fly.sees, q), q.patch.ver <= n.ver,
         NEW f \in Editors, f.m = SaveSuccess(e.m, e.fly.sent, e.fly.patch.ver + 1),
         f.at = e.at, f.sees = e.sees, f.timer = e.timer, f.asking = e.asking
  PROVE  /\ Sane(Grounds(f), n, q, H)
         /\ e.fly.patch.ver + 1 <= n.ver
         /\ Newest(n, q, e.fly.patch.ver + 1) => Knows(n, H, e.fly.sent)
         /\ \A g \in Fields : e.fly.sent[g] \subseteq Found(n, q, H, g) /\ e.fly.sent[g] \subseteq e.m.draft[g]
         /\ Missed(e.sees, q) /\ e.at = "gone" => e.fly.sent = e.m.draft
<1>. DEFINE sent == e.fly.sent
            v == e.fly.patch.ver + 1
            g == Grounds(f)
<1>1. /\ e.m \in Models /\ sent \in Drafts /\ v \in Nat /\ e.fly.patch.ver \in Nat /\ q.patch.ver \in Nat
  BY EntriesAreEntries DEF Editors, Flights, Patches
<1>f. f.m = SaveSuccess(e.m, sent, v) /\ sent = e.fly.sent /\ v = e.fly.patch.ver + 1
  OBVIOUS
<1>. HIDE DEF sent, v
<1>2. /\ f.m.draft = e.m.draft /\ f.m.saved = sent /\ f.m.server = sent /\ f.m.ver = v
      /\ f.m.state = IF e.m.draft = sent THEN "saved" ELSE "dirty"
  BY <1>1, <1>f, SuccessLooks
<1>3. /\ g.fly = Grounded /\ g.m = f.m /\ g.at = e.at /\ g.sees = e.sees /\ g.timer = e.timer
      /\ g.asking = e.asking
  BY GroundsLooks
<1>4. Idle(g) /\ ~Idle(e)
  BY <1>3 DEF Idle, Grounded
<1>5. Sane(e, n, q, H) /\ Sends(e, H) /\ Lands(e.fly, n, H) /\ Replaces(e.fly, n, q, H)
  BY <1>4 DEF Good, Sane, Flies
<1>6. e.m.state \in {"saving", "dirty"} /\ v <= n.ver
  BY <1>1, <1>4, <1>5, <1>f DEF Sane, Shape, Lands
<1>7. Newest(n, q, v) => Knows(n, H, sent)
  <2>1. q # NoEntry => q.patch.ver < n.ver
    BY <1>1, <1>5 DEF Replaces, Lands
  <2>. QED
    BY <1>1, <1>5, <1>f, <2>1 DEF Newest, Lands
<1>8. \A h \in Fields : sent[h] \subseteq Found(n, q, H, h) /\ sent[h] \subseteq e.m.draft[h]
  <2>. SUFFICES ASSUME NEW h \in Fields PROVE sent[h] \subseteq Found(n, q, H, h) /\ sent[h] \subseteq e.m.draft[h]
    OBVIOUS
  <2>1. CASE h \in DOMAIN e.fly.patch.set
    BY <1>5, <1>f, <2>1 DEF Sends, Lands, Found
  <2>2. CASE h \notin DOMAIN e.fly.patch.set
    BY <1>5, <1>6, <1>f, <2>2 DEF Sends, Sane, Covers
  <2>. QED
    BY <2>1, <2>2
<1>9. (e.timer = "debounce" \/ e.at = "gone") /\ Missed(e.sees, q) => sent = e.m.draft
  BY <1>4, <1>5, <1>6, <1>f DEF Sane, Behind
<1>. HIDE DEF g
<1>10. Sane(g, n, q, H)
  <2>1. Dated(g, n) /\ Shape(g)
    BY <1>2, <1>3, <1>4, <1>5, <1>6 DEF Sane, Dated, Shape
  <2>2. Informed(g, n, q, H)
    BY <1>2, <1>3, <1>7, <1>8 DEF Informed, Knows
  <2>5. Covers(g, n, q, H)
    BY <1>2, <1>3, <1>8 DEF Covers
  <2>6. SaysSo(g, n, q, H)
    BY <1>2, <1>3, <1>8 DEF SaysSo, Findable, Quiet
  <2>3. Chooses(g, n, q, H) /\ Flies(g, n, q, H)
    BY <1>2, <1>3, <1>4 DEF Chooses, Flies
  <2>4. Behind(g, q, H)
    BY <1>2, <1>3, <1>9 DEF Behind
  <2>. QED
    BY <2>1, <2>2, <2>3, <2>4, <2>5, <2>6 DEF Sane
<1>. QED
  BY <1>6, <1>7, <1>8, <1>9, <1>10, <1>f DEF g

(* A save that was stored: its edit leaves the queue, the copy is as it was   *)
(* sent.                                                                      *)
LEMMA StoredKeeps ==
  ASSUME Windows = {}, Types, Core, NEW i \in Visits, Stored(i)
  PROVE  Core'
<1>. DEFINE e == ed[i]
            sent == e.fly.sent
            v == e.fly.patch.ver + 1
            n == Note(sent, v)
            d == IF e.fly.sees.seen = Read(NoEntry) THEN dev ELSE Forget(e.fly.sees.seen)
            f == [e EXCEPT !.m = SaveSuccess(e.m, sent, v), !.rebased = FALSE, !.waits = 0]
<1>1. /\ Acts(e) /\ e \in Editors /\ e.m \in Models /\ Good(e, note, dev.q, Given) /\ Alone(i)
      /\ dev.q \in Entries /\ note.ver \in Nat /\ dev.q.patch.ver \in Nat /\ e.fly.pc = "stored"
      /\ e.sees \in Sights /\ e.sees.seen.entry \in Copies /\ e.fly.sees.seen.entry \in Copies /\ NoEntry \in Copies
      /\ dev.q.patch.ver <= note.ver /\ dev.keys \in Nat
  BY FlyingIsGood, ScreenIsGood, EntriesAreEntries DEF Stored, Patches, Core, DeviceInv, Types, DevType
<1>2. sent \in Drafts /\ v \in Nat
  BY <1>1 DEF Editors, Flights, Patches
<1>3. SaveSuccess(e.m, sent, v) \in Models
  BY <1>1, <1>2, SavesAreModels
<1>4. /\ f \in Editors /\ f.m = SaveSuccess(e.m, sent, v) /\ f.at = e.at /\ f.sees = e.sees
      /\ f.timer = e.timer /\ f.asking = e.asking /\ f.again = e.again
  BY <1>1, <1>3 DEF Editors
<1>5. n.draft = sent /\ n.ver = v
  BY DEF Note
<1>6. PICK s \in Reads(e, d) : Record(i, Settled(f, s), n)
  BY <1>5 DEF Stored
<1>7. dev' = [d EXCEPT !.cache = n] /\ UNCHANGED <<note, net, truth, left>>
  BY DEF Stored
<1>8. /\ d \in [q : Entries, seen : Seens, cache : Notes, keys : Nat]
      /\ d.keys = dev.keys /\ d.cache = dev.cache
      /\ Settles(dev.q, d.q, note, Given)
      /\ d.q = NoEntry \/ (d.q = dev.q /\ ~ReadsIt(e.fly.sees, dev.q))
      /\ d.seen \in {dev.seen, Read(d.q)}
  BY <1>1, ForgetSettles
<1>. HIDE DEF n, d, f, sent, v
<1>. DEFINE b == Settled(f, s)
<1>9. dev'.q = d.q /\ dev'.seen = d.seen /\ dev'.cache = n /\ dev'.keys = dev.keys /\ d.q \in Entries
  BY <1>7, <1>8
<1>10. Turn(i, b) /\ Fits(b.fly)
  BY <1>1, <1>6, RecordTurns
<1>11. Good(e, note, d.q, Given)
  BY <1>1, <1>8, GoodSettles
<1>12. d.q = NoEntry \/ ~ReadsIt(e.fly.sees, d.q)
  BY <1>8
<1>12a. d.q.patch.ver <= note.ver
  <2>1. NoEntry.patch.ver = 0
    BY DEF NoEntry, Patch
  <2>. QED
    BY <1>1, <1>8, <2>1
<1>13. /\ Sane(Grounds(f), note, d.q, Given)
       /\ v <= note.ver
       /\ Newest(note, d.q, v) => Knows(note, Given, sent)
       /\ \A g \in Fields : sent[g] \subseteq Found(note, d.q, Given, g) /\ sent[g] \subseteq e.m.draft[g]
       /\ Missed(e.sees, d.q) /\ e.at = "gone" => sent = e.m.draft
  BY <1>1, <1>4, <1>9, <1>11, <1>12, <1>12a, StoredIsSane DEF sent, v
<1>14. /\ f.m.draft = e.m.draft /\ f.m.server = sent
       /\ f.m.state = IF e.m.draft = sent THEN "saved" ELSE "dirty"
  BY <1>1, <1>2, <1>4, SuccessLooks
<1>15. /\ s \in Sights /\ s.base <= note.ver /\ s.seen.entry \in Copies
       /\ f.m.state = "dirty" /\ d.q # NoEntry => ~Missed(s, d.q)
  <2>1. s \in Sights
    BY <1>1, <1>6, <1>8, ReadsAreSights DEF Types
  <2>2. CASE e.at = "gone"
    <3>1. s = e.sees
      BY <1>6, <2>2 DEF Reads
    <3>. QED
      BY <1>1, <1>13, <1>14, <2>1, <2>2, <3>1 DEF Good, Sane, Dated
  <2>3. CASE e.at # "gone"
    <3>1. s = Rendered \/ s = Sees(d.seen, d.cache.ver)
      BY <1>6, <2>3 DEF Reads
    <3>2. s.base = dev.cache.ver /\ s.seen \in {dev.seen, Read(d.q)}
      BY <1>8, <3>1 DEF Rendered, Sees
    <3>3. s.base <= note.ver
      BY <3>2 DEF Core, DeviceInv
    <3>4. s.seen.entry \in Copies
      BY <1>8, <3>2 DEF Copies, Read
    <3>5. d.q # NoEntry => ~Missed(s, d.q)
      BY <1>8, <3>2 DEF Missed, Read, Core, DeviceInv
    <3>. QED
      BY <2>1, <3>3, <3>4, <3>5
  <2>. QED
    BY <2>2, <2>3
<1>16. ASSUME f.again, f.m.state \in {"dirty", "error"}, s.seen.read \/ dev.q = NoEntry
       PROVE  SeesRight(s, Grounds(f), note, d.q, Given)
  <2>1. CASE d.q = NoEntry
    BY <1>15, <2>1 DEF SeesRight
  <2>2. CASE d.q # NoEntry
    <3>1. d.q = dev.q /\ ~Missed(s, dev.q)
      BY <1>8, <1>14, <1>15, <1>16, <2>2
    <3>. QED
      BY <1>15, <1>16, <3>1, SightIsRight DEF Core
  <2>. QED
    BY <2>1, <2>2
<1>17. f.m.state = "dirty" => f.again \/ Waits(f)
  BY <1>1, <1>4, <1>14 DEF Good, Armed, Waits, Idle, sent
<1>18. Good(b, note, d.q, Given)
  BY <1>1, <1>4, <1>9, <1>10, <1>13, <1>15, <1>16, <1>17, SettledGoes
<1>19. /\ b \in Editors /\ b.at = e.at /\ b.m.draft = e.m.draft /\ b.m.server = sent
       /\ b.sees.seen.entry \in Copies /\ b.fly.sees.seen.entry \in Copies
  <2>1. /\ b.at = f.at /\ b.sees = f.sees /\ b.m.draft = f.m.draft /\ b.m.server = f.m.server
        /\ b.fly.sees \in {Blind, s}
    BY <1>4, SettledLooks
  <2>2. b \in Editors
    BY <1>4, <1>15, SaveIsAnEditor
  <2>. QED
    BY <1>1, <1>4, <1>14, <1>15, <2>1, <2>2, BlindSeesNothing
<1>. HIDE DEF b
<1>20. Known' = Known /\ Given' = Given /\ truth'.typed = truth.typed /\ truth'.landed = truth.landed
       /\ note' = note /\ net' = net
  BY <1>7 DEF Known, Given
<1>21. DeviceInv'
  BY <1>5, <1>8, <1>9, <1>12a, <1>13, <1>20 DEF Core, DeviceInv, NoEntry, Read
<1>22. Aware'
  <2>1. d.q = NoEntry => DOMAIN d.q.patch.set = {}
    BY NothingIsASet DEF NoEntry, Patch
  <2>2. Aware
    BY DEF Core
  <2>3. Newest(note', dev'.q, dev'.cache.ver) => Knows(note', Given', dev'.cache.draft)
    BY <1>5, <1>9, <1>13, <1>20
  <2>4. CASE d.q = NoEntry
    BY <1>9, <2>1, <2>3, <2>4 DEF Aware, Q
  <2>5. CASE d.q = dev.q
    <3>1. Q' = Q /\ dev'.q = dev.q
      BY <1>9, <2>5 DEF Q
    <3>. QED
      BY <1>20, <2>2, <2>3, <3>1 DEF Aware
  <2>. QED
    BY <1>8, <2>4, <2>5
<1>23. Good(b, note', dev'.q, Given') /\ b.at # "out" /\ dev'.q \in Copies /\ dev'.seen.entry \in Copies
  <2>1. dev.q \in Copies /\ dev.seen.entry \in Copies /\ e.at # "out"
    BY <1>1 DEF Copies, Acts
  <2>2. dev'.q \in Copies /\ dev'.seen.entry \in Copies
    BY <1>1, <1>8, <1>9, <2>1 DEF Read
  <2>. QED
    BY <1>9, <1>18, <1>19, <1>20, <2>1, <2>2
<1>24. KeysInv'
  BY <1>9, <1>10, <1>19, <1>20, <1>23, CopiesTurn DEF Core
<1>25. /\ Given \subseteq Known
       /\ \A g \in Fields : e.m.draft[g] \subseteq Known /\ Has(d.q, g) \subseteq Known
  BY <1>8, NothingIsHeld DEF Core, FromSomebody
<1>26. \A g \in Fields : Found(note, dev.q, Given, g) = Found(note, d.q, Given, g)
  BY <1>1, <1>8, SettlesFinds
<1>27. \A g \in Fields : /\ b.m.draft[g] \subseteq Known /\ Has(dev'.q, g) \subseteq Known
                         /\ note.draft[g] \cup Has(dev.q, g) \cup ed[i].m.draft[g]
                              \subseteq b.m.draft[g] \cup Found(note, dev'.q, Given', g)
                         /\ dev'.cache.draft[g] \subseteq Found(note, dev'.q, Given', g) \cup Ahead(b, g)
  <2>1. \A g \in Fields : note.draft[g] \cup Has(dev.q, g) \subseteq Found(note, d.q, Given, g)
    BY <1>26 DEF Found
  <2>. QED
    BY <1>5, <1>9, <1>13, <1>19, <1>20, <1>25, <2>1
<1>28. /\ UNCHANGED <<note, net>> /\ Given \subseteq Given' /\ Given' \subseteq Known
       /\ Good(b, note, dev'.q, Given') /\ dev'.keys \in Nat /\ dev.keys <= dev'.keys
  BY <1>1, <1>9, <1>18, <1>20, <1>25
<1>. QED
  BY <1>1, <1>10, <1>19, <1>20, <1>21, <1>22, <1>23, <1>24, <1>27, <1>28, OnDevice

-----------------------------------------------------------------------------
(* A save that is queued                                                      *)

(* What an entry over the queue's holds, of a draft that shows what it held.  *)
LEMMA EnqueuedLooks ==
  ASSUME NEW p \in Patches, dev.q \in Entries, dev.keys \in Nat
  PROVE  LET x == Enqueued(p) IN
         /\ x \in Entries /\ x.key = dev.keys + 1 /\ x # NoEntry /\ x.patch.ver = p.ver
         /\ DOMAIN x.patch.set = DOMAIN p.set \cup DOMAIN dev.q.patch.set
         /\ \A g \in DOMAIN x.patch.set :
               x.patch.set[g] = IF g \in DOMAIN p.set THEN p.set[g] ELSE dev.q.patch.set[g]
<1>. DEFINE x == Enqueued(p)
<1>1. dev.q.patch \in Patches /\ 0 \in 0..MaxAttempts /\ dev.keys + 1 \in Nat /\ dev.keys + 1 # 0
  BY EntriesAreEntries, BoundsAssumption
<1>2. x.key = dev.keys + 1 /\ x.patch = Over(dev.q.patch, p) /\ x.tries = 0
  BY DEF Enqueued
<1>3. x \in Entries
  BY <1>1, OverIsAPatch, EntriesAreEntries DEF Enqueued
<1>4. x # NoEntry
  BY <1>1, <1>2 DEF NoEntry
<1>5. x.patch.ver = p.ver /\ x.patch.set = Upon(p.set, dev.q.patch.set)
  BY <1>2 DEF Over, Patch
<1>. QED
  BY <1>2, <1>3, <1>4, <1>5 DEF Upon

(* What a queued save leaves of the model.                                    *)
LEMMA QueuedLooks ==
  ASSUME NEW m \in Models, NEW sent \in Drafts
  PROVE  LET k == SaveQueued(m, sent) IN
         /\ k \in Models /\ k.draft = m.draft /\ k.saved = sent /\ k.server = m.server /\ k.ver = m.ver
         /\ k.state = IF m.draft = sent THEN "queued" ELSE "dirty"
<1>1. SaveQueued(m, sent) \in Models
  BY SavesAreModels, BoundsAssumption
<1>. QED
  BY <1>1 DEF SaveQueued, Models

(* The words sent are in the queue or on the note, over the ones queued.      *)
LEMMA QueuedIsSane ==
  ASSUME NEW e \in Editors, e.fly.pc = "offline", NEW q \in Entries, NEW n, n.ver \in Nat, NEW H,
         Good(e, n, q, H), NEW x \in Entries, x # NoEntry, x.patch.ver = e.fly.patch.ver,
         DOMAIN x.patch.set = DOMAIN e.fly.patch.set \cup DOMAIN q.patch.set,
         \A g \in DOMAIN x.patch.set :
             x.patch.set[g] = IF g \in DOMAIN e.fly.patch.set THEN e.fly.patch.set[g] ELSE q.patch.set[g],
         NEW f \in Editors, f.m = SaveQueued(e.m, e.fly.sent),
         f.at = e.at, f.sees = e.sees, f.timer = e.timer, f.asking = e.asking
  PROVE  /\ Sane(Grounds(f), n, x, H) /\ QueuedHere(f, x, H) /\ e.fly.patch.ver <= n.ver
         /\ e.fly.patch.ver = n.ver => Knows(n, H, e.fly.sent)
         /\ \A g \in Fields : /\ e.fly.sent[g] \subseteq Found(n, x, H, g)
                              /\ e.fly.sent[g] \subseteq e.m.draft[g]
                              /\ Has(q, g) \subseteq e.m.draft[g]
                              /\ e.m.server[g] \subseteq n.draft[g] \cup Has(q, g) \cup H
         /\ \A g \in DOMAIN x.patch.set : /\ x.patch.set[g] \subseteq e.fly.sent[g]
                                          /\ e.fly.sent[g] \subseteq x.patch.set[g] \cup H
<1>. DEFINE sent == e.fly.sent
            g == Grounds(f)
<1>1. /\ e.m \in Models /\ sent \in Drafts /\ e.fly.patch.ver \in Nat /\ q.patch.ver \in Nat
      /\ DOMAIN q.patch.set \subseteq Fields /\ DOMAIN x.patch.set \subseteq Fields
  BY SetsHaveFields, EntriesAreEntries DEF Editors, Flights, Patches
<1>2. /\ f.m.draft = e.m.draft /\ f.m.saved = sent /\ f.m.server = e.m.server /\ f.m.ver = e.m.ver
      /\ f.m.state = IF e.m.draft = sent THEN "queued" ELSE "dirty"
  BY <1>1, QueuedLooks
<1>3. /\ g.fly = Grounded /\ g.m = f.m /\ g.at = e.at /\ g.sees = e.sees /\ g.timer = e.timer
      /\ g.asking = e.asking
  BY GroundsLooks
<1>4. Idle(g) /\ ~Idle(e)
  BY <1>3 DEF Idle, Grounded
<1>5. Sane(e, n, q, H) /\ Sends(e, H) /\ Lands(e.fly, n, H) /\ Replaces(e.fly, n, q, H)
  BY <1>4 DEF Good, Sane, Flies
<1>6. e.m.state \in {"saving", "dirty"} /\ e.m.ver = e.fly.patch.ver /\ e.m.ver <= n.ver
  BY <1>4, <1>5 DEF Sane, Shape, Sends, Dated
<1>7. e.fly.patch.ver = n.ver => Knows(n, H, sent)
  BY <1>5 DEF Lands
<1>8. DOMAIN q.patch.set # {} => q # NoEntry
  BY NothingIsASet DEF NoEntry, Patch
<1>. HIDE DEF sent, g
<1>9. \A h \in DOMAIN x.patch.set : x.patch.set[h] \subseteq sent[h] /\ sent[h] \subseteq x.patch.set[h] \cup H
  <2>. SUFFICES ASSUME NEW h \in DOMAIN x.patch.set
                PROVE  x.patch.set[h] \subseteq sent[h] /\ sent[h] \subseteq x.patch.set[h] \cup H
    OBVIOUS
  <2>1. CASE h \in DOMAIN e.fly.patch.set
    BY <1>1, <1>5, <2>1 DEF Sends, sent
  <2>2. CASE h \notin DOMAIN e.fly.patch.set
    <3>1. h \in DOMAIN q.patch.set /\ q # NoEntry
      BY <1>8, <2>2
    <3>. QED
      BY <1>5, <2>2, <3>1 DEF Replaces, sent
  <2>. QED
    BY <2>1, <2>2
<1>10. \A h \in Fields : e.m.server[h] \subseteq sent[h] \cup H /\ sent[h] \subseteq e.m.draft[h]
  BY <1>5 DEF Sends, sent
<1>11. \A h \in Fields : e.m.server[h] \subseteq n.draft[h] \cup Has(q, h) \cup H /\ e.m.server[h] \subseteq e.m.draft[h] \cup H
  BY <1>5, <1>6 DEF Sane, Covers, Found
<1>12. \A h \in Fields : sent[h] \subseteq Found(n, x, H, h) /\ e.m.server[h] \subseteq Found(n, x, H, h)
  <2>. SUFFICES ASSUME NEW h \in Fields
                PROVE  sent[h] \subseteq Found(n, x, H, h) /\ e.m.server[h] \subseteq Found(n, x, H, h)
    OBVIOUS
  <2>1. CASE h \in DOMAIN x.patch.set
    BY <1>9, <1>10, <2>1 DEF Found, Has
  <2>2. CASE h \notin DOMAIN x.patch.set
    <3>1. sent[h] = e.m.server[h]
      BY <1>5, <2>2 DEF Sends, sent
    <3>2. Has(q, h) = {}
      BY <2>2 DEF Has
    <3>. QED
      BY <1>11, <3>1, <3>2 DEF Found
  <2>. QED
    BY <2>1, <2>2
<1>13. \A h \in Fields : Has(q, h) \subseteq e.m.draft[h]
  BY <1>5, <1>8, <1>10 DEF Replaces, Has, sent
<1>14. QueuedHere(f, x, H) /\ QueuedHere(g, x, H)
  <2>1. x.patch.ver <= f.m.ver
    BY <1>1, <1>2, <1>6
  <2>2. \A h \in DOMAIN x.patch.set : /\ x.patch.set[h] \subseteq f.m.draft[h]
                                      /\ f.m.server[h] \subseteq x.patch.set[h] \cup H
                                      /\ f.m.saved[h] \subseteq x.patch.set[h] \cup H
    BY <1>1, <1>2, <1>9, <1>10
  <2>. QED
    BY <1>3, <2>1, <2>2 DEF QueuedHere
<1>15. Sane(g, n, x, H)
  <2>1. Dated(g, n) /\ Shape(g)
    BY <1>2, <1>3, <1>4, <1>5, <1>6 DEF Sane, Dated, Shape
  <2>2. Informed(g, n, x, H)
    <3>1. Newest(n, x, e.m.ver) => Newest(n, q, e.m.ver)
      BY <1>6 DEF Newest
    <3>. QED
      BY <1>2, <1>3, <1>5, <1>6, <3>1 DEF Sane, Informed
  <2>3. Covers(g, n, x, H)
    BY <1>2, <1>3, <1>10, <1>11, <1>12 DEF Covers
  <2>4. SaysSo(g, n, x, H)
    BY <1>2, <1>3, <1>12 DEF SaysSo, Findable, Quiet
  <2>5. Chooses(g, n, x, H) /\ Flies(g, n, x, H) /\ Behind(g, x, H)
    BY <1>2, <1>3, <1>4, <1>14 DEF Chooses, Flies, Behind
  <2>. QED
    BY <2>1, <2>2, <2>3, <2>4, <2>5 DEF Sane
<1>. QED
  BY <1>6, <1>7, <1>9, <1>10, <1>11, <1>12, <1>13, <1>14, <1>15 DEF g, sent

(* A save that is queued, unless it was overtaken.                            *)
LEMMA QueueKeeps ==
  ASSUME Windows = {}, Types, Core, NEW i \in Visits, Queue(i)
  PROVE  Core' \/ Words \subseteq Given'
<1>. DEFINE e == ed[i]
            sent == e.fly.sent
            base == e.fly.sees.base
            x == Enqueued(e.fly.patch)
            n == Note(sent, base)
            d == [q |-> x, seen |-> Read(x), cache |-> n, keys |-> x.key]
            f == [e EXCEPT !.m = SaveQueued(e.m, sent)]
<1>1. /\ Acts(e) /\ e \in Editors /\ e.m \in Models /\ Good(e, note, dev.q, Given) /\ Alone(i)
      /\ dev.q \in Entries /\ note.ver \in Nat /\ e.fly.pc = "offline"
      /\ e.sees \in Sights /\ e.sees.seen.entry \in Copies /\ e.fly.sees.seen.entry \in Copies /\ NoEntry \in Copies
      /\ dev.keys \in Nat
  BY FlyingIsGood, ScreenIsGood DEF Queue, Types, DevType
<1>2. sent \in Drafts /\ base \in Nat /\ e.fly.patch \in Patches /\ e.fly.patch.ver \in Nat
  BY <1>1 DEF Editors, Flights, Sights, Patches
<1>3. /\ x \in Entries /\ x.key = dev.keys + 1 /\ x # NoEntry /\ x.patch.ver = e.fly.patch.ver
      /\ DOMAIN x.patch.set = DOMAIN e.fly.patch.set \cup DOMAIN dev.q.patch.set
      /\ \A g \in DOMAIN x.patch.set :
            x.patch.set[g] = IF g \in DOMAIN e.fly.patch.set THEN e.fly.patch.set[g] ELSE dev.q.patch.set[g]
  BY <1>1, <1>2, EnqueuedLooks
<1>4. /\ f \in Editors /\ f.m = SaveQueued(e.m, sent) /\ f.at = e.at /\ f.sees = e.sees
      /\ f.timer = e.timer /\ f.asking = e.asking /\ f.again = e.again
  BY <1>1, <1>2, QueuedLooks DEF Editors
<1>5. n.draft = sent /\ n.ver = base /\ n \in Notes
  BY <1>2 DEF Note, Notes
<1>6. PICK s \in Reads(e, d) : Record(i, Settled(f, s), n)
  BY DEF Queue
<1>7. /\ dev' = d /\ UNCHANGED <<note, net, left>>
      /\ truth' = [truth EXCEPT !.given = truth.given \cup Overtaken(e.fly)]
  BY DEF Queue
<1>8. /\ d.q = x /\ d.seen = Read(x) /\ d.cache = n /\ d.keys = dev.keys + 1
      /\ d.seen \in Seens
  BY <1>3 DEF Read, Seens
<1>. HIDE DEF n, d, f, sent, base, x
<1>9. /\ truth'.typed = truth.typed /\ truth'.landed = truth.landed /\ Given' = Given \cup Overtaken(e.fly)
      /\ note' = note /\ net' = net /\ Known' = Known
  BY <1>7 DEF Types, TruthType, Given, Known
<1>10. CASE base > e.fly.patch.ver
  BY <1>9, <1>10 DEF Overtaken, base
<1>11. CASE ~(base > e.fly.patch.ver)
  <2>. DEFINE b == Settled(f, s)
  <2>1. Given' = Given
    BY <1>9, <1>11 DEF Overtaken, base
  <2>2. Turn(i, b) /\ Fits(b.fly)
    BY <1>1, <1>6, RecordTurns
  <2>3. /\ Sane(Grounds(f), note, x, Given) /\ QueuedHere(f, x, Given) /\ e.fly.patch.ver <= note.ver
        /\ e.fly.patch.ver = note.ver => Knows(note, Given, sent)
        /\ \A g \in Fields : /\ sent[g] \subseteq Found(note, x, Given, g)
                             /\ sent[g] \subseteq e.m.draft[g]
                             /\ Has(dev.q, g) \subseteq e.m.draft[g]
                             /\ e.m.server[g] \subseteq note.draft[g] \cup Has(dev.q, g) \cup Given
        /\ \A g \in DOMAIN x.patch.set : /\ x.patch.set[g] \subseteq sent[g]
                                         /\ sent[g] \subseteq x.patch.set[g] \cup Given
    BY <1>1, <1>3, <1>4, QueuedIsSane DEF sent
  <2>4. /\ f.m.draft = e.m.draft /\ f.m.server = e.m.server
        /\ f.m.state = IF e.m.draft = sent THEN "queued" ELSE "dirty"
    BY <1>1, <1>2, <1>4, QueuedLooks
  <2>5. DOMAIN x.patch.set \subseteq Fields /\ x.patch.ver \in Nat
    BY <1>3, SetsHaveFields, EntriesAreEntries DEF Patches
  <2>6. base <= e.fly.patch.ver /\ base <= note.ver
    BY <1>1, <1>2, <1>11, <2>3
  <2>7. s \in Sights /\ s.base <= note.ver /\ (s.seen.entry \in Copies \/ s.seen.entry = x)
    <3>1. s \in Sights
      BY <1>1, <1>5, <1>6, <1>8, ReadsAreSights DEF Types
    <3>2. s \in {e.sees, Rendered, Sees(d.seen, d.cache.ver)}
      BY <1>6 DEF Reads
    <3>3. CASE s = e.sees
      BY <1>1, <3>1, <3>3 DEF Good, Sane, Dated
    <3>4. CASE s = Rendered
      BY <3>1, <3>4, RenderedIsRight
    <3>5. CASE s = Sees(d.seen, d.cache.ver)
      <4>1. s.base = base /\ s.seen.entry = x
        BY <1>5, <1>8, <3>5 DEF Sees, Read
      <4>. QED
        BY <2>6, <3>1, <4>1
    <3>. QED
      BY <3>2, <3>3, <3>4, <3>5
  <2>8. \A y \in Copies : y.key # x.key
    <3>1. \A y \in Copies : y.key \in Nat /\ y.key <= dev.keys
      <4>1. \A y \in Copies : y \in Entries
        BY NothingIsTyped DEF Copies, Types, DevType, Seens, NetType, EdType, Editors, Sights, Flights
      <4>. QED
        BY <4>1, EntriesAreEntries DEF Core, KeysInv
    <3>. QED
      BY <1>1, <1>3, <3>1
  <2>9. ASSUME f.again, f.m.state \in {"dirty", "error"}, s.seen.read \/ dev.q = NoEntry
        PROVE  SeesRight(s, Grounds(f), note, x, Given)
    <3>1. ReadsIt(s, x) => s.seen.entry.patch = x.patch
      BY <2>7, <2>8 DEF ReadsIt
    <3>2. QueuedHere(Grounds(f), x, Given) /\ Grounds(f).m = f.m
      BY <1>4, <2>3, GroundsLooks DEF QueuedHere
    <3>3. s.seen.read \/ \A g \in DOMAIN x.patch.set : f.m.server[g] \subseteq note.draft[g] \cup Given
      BY <2>3, <2>4, <2>5, <2>9, NothingIsHeld
    <3>. QED
      BY <2>7, <3>1, <3>2, <3>3 DEF SeesRight
  <2>10. f.m.state = "dirty" => f.again \/ Waits(f)
    BY <1>1, <1>4, <2>4 DEF Good, Armed, Waits, Idle, sent
  <2>11. Good(b, note, x, Given)
    BY <1>1, <1>3, <1>4, <2>2, <2>3, <2>7, <2>9, <2>10, SettledGoes
  <2>12. /\ b \in Editors /\ b.at = e.at /\ b.m.draft = e.m.draft /\ b.m.server = e.m.server
         /\ b.sees = e.sees /\ b.fly.sees \in {Blind, s}
    <3>1. b \in Editors
      BY <1>4, <2>7, SaveIsAnEditor
    <3>. QED
      BY <1>4, <2>4, <3>1, SettledLooks
  <2>. HIDE DEF b
  <2>13. /\ dev'.q = x /\ dev'.seen = Read(x) /\ dev'.cache = n /\ dev'.keys = dev.keys + 1
    BY <1>7, <1>8
  <2>14. DeviceInv'
    <3>1. dev'.cache.ver <= note.ver /\ dev'.q.patch.ver <= note.ver /\ dev'.seen.entry.key = dev'.q.key
      BY <1>3, <1>5, <2>3, <2>6, <2>13 DEF Read
    <3>2. note.done \subseteq 1..dev'.keys
      BY <1>1, <2>13 DEF Core, DeviceInv
    <3>. QED
      BY <1>1, <1>3, <1>9, <2>13, <3>1, <3>2 DEF DeviceInv
  <2>15. Aware'
    <3>1. Newest(note, x, base) => Knows(note, Given, sent)
      BY <1>1, <1>2, <1>3, <2>3, <2>6 DEF Newest
    <3>2. x.patch.ver = note.ver => \A g \in DOMAIN x.patch.set : note.draft[g] \subseteq x.patch.set[g] \cup Given
      BY <1>3, <2>3, <2>5 DEF Knows
    <3>3. x.key \notin note.done
      BY <1>1, <1>3 DEF Core, DeviceInv
    <3>4. Q' = x.patch.set
      BY <2>13 DEF Q
    <3>. QED
      BY <1>5, <1>9, <2>1, <2>13, <3>1, <3>2, <3>3, <3>4 DEF Aware
  <2>16. KeysInv'
    <3>1. ed'[i] = Rested(b) /\ \A j \in Visits \ {i} : ed'[j] = ed[j]
      BY <2>2 DEF Turn
    <3>2. b.at # "out"
      BY <1>1, <2>12 DEF Acts
    <3>3. ed'[i].sees.seen.entry \in Copies \cup {x} /\ ed'[i].fly.sees.seen.entry \in Copies \cup {x}
      BY <1>1, <2>7, <2>11, <2>12, <3>1, <3>2, RestedLeaves, BlindSeesNothing
    <3>4. \A j \in Visits : ed'[j].sees.seen.entry \in Copies \cup {x} /\ ed'[j].fly.sees.seen.entry \in Copies \cup {x}
      BY <3>1, <3>3 DEF Copies
    <3>5. net.flush.entry \in Copies /\ NoEntry \in Copies
      BY DEF Copies
    <3>6. Copies' \subseteq Copies \cup {x}
      <4>1. dev'.q = x /\ dev'.seen.entry = x /\ net'.flush.entry \in Copies
        BY <1>9, <2>13, <3>5 DEF Read
      <4>. QED
        BY <3>4, <3>5, <4>1 DEF Copies
    <3>7. \A y \in Copies : y.key <= dev.keys + 1
      <4>1. \A y \in Copies : y \in Entries
        BY NothingIsTyped DEF Copies, Types, DevType, Seens, NetType, EdType, Editors, Sights, Flights
      <4>. QED
        BY <1>1, <4>1, EntriesAreEntries DEF Core, KeysInv
    <3>. QED
      BY <1>1, <1>3, <2>8, <2>13, <3>6, <3>7 DEF Core, KeysInv
  <2>17. /\ Given \subseteq Known
         /\ \A g \in Fields : e.m.draft[g] \subseteq Known /\ Has(x, g) \subseteq Known
    BY <2>3 DEF Core, FromSomebody, Has
  <2>18. \A g \in Fields : /\ b.m.draft[g] \subseteq Known /\ Has(dev'.q, g) \subseteq Known
                           /\ note.draft[g] \cup Has(dev.q, g) \cup ed[i].m.draft[g]
                                \subseteq b.m.draft[g] \cup Found(note, dev'.q, Given', g)
                           /\ dev'.cache.draft[g] \subseteq Found(note, dev'.q, Given', g) \cup Ahead(b, g)
    BY <1>5, <2>1, <2>3, <2>12, <2>13, <2>17 DEF Found
  <2>19. /\ UNCHANGED <<note, net>> /\ Given \subseteq Given' /\ Given' \subseteq Known /\ b.at # "out"
         /\ Good(b, note, dev'.q, Given') /\ dev'.keys \in Nat /\ dev.keys <= dev'.keys
    <3>1. Good(b, note, dev'.q, Given') /\ Given \subseteq Given' /\ Given' \subseteq Known
      BY <2>1, <2>11, <2>13, <2>17
    <3>2. dev'.keys \in Nat /\ dev.keys <= dev'.keys
      BY <1>1, <2>13
    <3>3. b.at # "out"
      BY <1>1, <2>12 DEF Acts
    <3>. QED
      BY <1>9, <3>1, <3>2, <3>3
  <2>. QED
    BY <1>1, <1>9, <2>2, <2>12, <2>14, <2>15, <2>16, <2>18, <2>19, OnDevice
<1>. QED
  BY <1>10, <1>11

-----------------------------------------------------------------------------
(* The note moves                                                             *)

(* The note moves, and no draft does.                                         *)
LEMMA NoteMoves ==
  ASSUME Types, Core, dev' = dev, Given' = Given, truth'.typed = truth.typed,
         Moves(note, note', Given, Given), note'.done \subseteq 1..dev.keys,
         \A w \in truth'.landed \ truth.landed : \E g \in Fields : w \in note'.draft[g],
         dev.q.key \in note'.done \ note.done => \A g \in DOMAIN Q : Q[g] \subseteq note'.draft[g] \cup Given,
         \A g : Resent(g)' = Resent(g) /\ Drafted(g)' = Drafted(g)
  PROVE  DeviceInv' /\ Aware' /\ CacheInv' /\ AllKept' /\ OnServer' /\ NewWords'
<1>0. /\ note.ver \in Nat /\ note'.ver \in Nat /\ note.ver <= note'.ver /\ dev.cache.ver \in Nat
      /\ dev.q.patch.ver \in Nat /\ DOMAIN Q \subseteq Fields /\ Q' = Q
      /\ dev.cache.ver <= note.ver /\ dev.q.patch.ver <= note.ver
  BY SetsHaveFields, EntriesAreEntries DEF Moves, Types, DevType, NoteType, Notes, Patches, Q, Core, DeviceInv
<1>1. \A g \in Fields : Found(note, dev.q, Given, g) \subseteq Found(note', dev.q, Given, g)
  BY DEF Moves, Found
<1>2. DeviceInv'
  BY <1>0 DEF Core, DeviceInv
<1>3. Aware'
  <2>1. CASE note'.ver = note.ver
    <3>1. note'.draft = note.draft
      BY <2>1 DEF Moves
    <3>2. Newest(note', dev'.q, dev'.cache.ver) = Newest(note, dev.q, dev.cache.ver)
      BY <2>1 DEF Newest
    <3>3. Knows(note', Given', dev'.cache.draft) = Knows(note, Given, dev.cache.draft)
      BY <3>1 DEF Knows
    <3>. QED
      BY <1>0, <2>1, <3>1, <3>2, <3>3 DEF Core, Aware
  <2>2. CASE note'.ver # note.ver
    <3>1. ~Newest(note', dev'.q, dev'.cache.ver) /\ dev.q.patch.ver # note'.ver
      BY <1>0, <2>2 DEF Newest
    <3>2. dev.q.key \in note'.done => \A g \in DOMAIN Q : Q[g] \subseteq note'.draft[g] \cup Given
      BY <1>0 DEF Core, Aware, Moves
    <3>. QED
      BY <1>0, <3>1, <3>2 DEF Aware
  <2>. QED
    BY <2>1, <2>2
<1>4. CacheInv'
  BY <1>1 DEF Core, CacheInv
<1>5. AllKept'
  BY <1>1 DEF Core, AllKept
<1>6. OnServer'
  BY DEF Core, OnServer, Moves
<1>7. NewWords'
  BY DEF Core, NewWords
<1>. QED
  BY <1>2, <1>3, <1>4, <1>5, <1>6, <1>7

(* The note moves, and no screen does.                                        *)
LEMMA NoteKeeps ==
  ASSUME Types, Core, UNCHANGED <<dev, ed>>, net'.flush.entry = net.flush.entry, FlushInv',
         Given' = Given, truth'.typed = truth.typed,
         Moves(note, note', Given, Given), note'.done \subseteq 1..dev.keys,
         \A g \in Fields : note'.draft[g] \subseteq Known,
         \A w \in truth'.landed \ truth.landed : \E g \in Fields : w \in note'.draft[g],
         dev.q.key \in note'.done \ note.done => \A g \in DOMAIN Q : Q[g] \subseteq note'.draft[g] \cup Given
  PROVE  Core'
<1>0. dev' = dev /\ ed' = ed /\ Known' = Known
  BY DEF Known
<1>1. \A g : Resent(g)' = Resent(g) /\ Drafted(g)' = Drafted(g)
  BY <1>0 DEF Resent, Drafted, Open
<1>2. DeviceInv' /\ Aware' /\ CacheInv' /\ AllKept' /\ OnServer' /\ NewWords'
  BY <1>0, <1>1, NoteMoves
<1>3. OneScreen'
  BY <1>0 DEF Core, OneScreen
<1>4. Screens'
  <2>1. \A i \in Visits : Acts(ed[i]) => Good(ed[i], note', dev.q, Given)
    BY ScreenIsGood, GoodMoves DEF Core, DeviceInv
  <2>. QED
    BY <1>0, <2>1 DEF Core, Screens
<1>5. KeysInv'
  BY <1>0 DEF Core, KeysInv, Copies
<1>6. FromSomebody'
  BY <1>0 DEF Core, FromSomebody
<1>. QED
  BY <1>2, <1>3, <1>4, <1>5, <1>6 DEF Core

(* The edit a pass has sent is of an older version now, or the note is the    *)
(* same.                                                                      *)
LEMMA FlushMoves ==
  ASSUME Types, Core, net' = net, dev'.keys = dev.keys, note'.done = note.done, Given' = Given,
         Moves(note, note', Given, Given)
  PROVE  FlushInv'
<1>1. /\ DOMAIN net.flush.entry.patch.set \subseteq Fields /\ net.flush.entry.patch.ver \in Nat
  BY SetsHaveFields, EntriesAreEntries DEF Types, NetType, Patches
<1>2. /\ note.ver \in Nat /\ note'.ver \in Nat /\ note.ver <= note'.ver
      /\ (note'.ver = note.ver => note'.draft = note.draft)
      /\ \A g \in Fields : note.draft[g] \subseteq note'.draft[g] \cup Given
  BY DEF Moves
<1>3. net.flush.pc # "idle" /\ net.flush.entry.patch.ver = note'.ver => note'.ver = note.ver
  BY <1>1, <1>2 DEF Core, FlushInv
<1>. QED
  BY <1>1, <1>2, <1>3 DEF Core, FlushInv

(* A word of a draft is in one of its fields.                                 *)
LEMMA WordsAreInFields ==
  ASSUME NEW d \in Drafts, NEW w \in WordsOf(d)
  PROVE  \E g \in Fields : w \in d[g]
BY DEF WordsOf, Drafts

(* An append, an edit elsewhere, and a version that moves alone.              *)
LEMMA ServerKeeps ==
  ASSUME Types, Core, StampNote \/ FileParagraph \/ EditElsewhere \/ CleanBump
  PROVE  Core'
<1>1. /\ note \in [ver : Nat, draft : Drafts, busy : BOOLEAN, done : SUBSET Nat] /\ note.ver \in Nat
      /\ note.ver + 1 \in Nat /\ note.ver <= note.ver /\ note.ver <= note.ver + 1 /\ note.ver + 1 # note.ver
      /\ note.draft \in Drafts
  BY DEF Types, NoteType
<1>2. /\ UNCHANGED <<dev, ed, net>> /\ note'.done = note.done
      /\ Given' = Given /\ truth'.typed = truth.typed
  BY <1>1 DEF StampNote, FileParagraph, EditElsewhere, CleanBump, Write, Types, TruthType, Given
<1>. DEFINE d(w) == [note.draft EXCEPT !["body"] = @ \cup {w}]
<1>3. \A w \in Words : /\ d(w) \in Drafts /\ w \in d(w)["body"]
                       /\ \A g \in Fields : note.draft[g] \subseteq d(w)[g] /\ d(w)[g] \subseteq note.draft[g] \cup {w}
  BY <1>1 DEF Drafts, Fields
<1>. HIDE DEF d
<1>4. Paragraph \in Known /\ Elsewhere \in Known /\ \A g \in Fields : note.draft[g] \subseteq Known
  BY DEF Core, FromSomebody, Known
<1>5. \/ note'.ver = note.ver /\ note'.draft = note.draft /\ truth' = truth
      \/ note'.ver = note.ver + 1 /\ note'.draft = note.draft /\ truth' = truth
      \/ \E w \in {Paragraph, Elsewhere} :
            /\ note'.ver = note.ver + 1 /\ note'.draft = d(w)
            /\ truth'.landed \subseteq truth.landed \cup WordsOf(d(w)) \cup {w}
  BY <1>1 DEF StampNote, FileParagraph, EditElsewhere, CleanBump, Write, Types, TruthType, d
<1>6. /\ Moves(note, note', Given, Given) /\ \A g \in Fields : note'.draft[g] \subseteq Known
      /\ \A w \in truth'.landed \ truth.landed : \E g \in Fields : w \in note'.draft[g]
  <2>1. CASE note'.draft = note.draft /\ truth' = truth /\ note'.ver \in {note.ver, note.ver + 1}
    BY <1>1, <1>4, <2>1 DEF Moves
  <2>2. CASE \E w \in {Paragraph, Elsewhere} :
               /\ note'.ver = note.ver + 1 /\ note'.draft = d(w)
               /\ truth'.landed \subseteq truth.landed \cup WordsOf(d(w)) \cup {w}
    <3>1. PICK w \in {Paragraph, Elsewhere} :
               /\ note'.ver = note.ver + 1 /\ note'.draft = d(w)
               /\ truth'.landed \subseteq truth.landed \cup WordsOf(d(w)) \cup {w}
      BY <2>2
    <3>2. w \in Words /\ "body" \in Fields
      BY DEF Words, Fields
    <3>3. /\ d(w) \in Drafts /\ w \in d(w)["body"]
          /\ \A g \in Fields : note.draft[g] \subseteq d(w)[g] /\ d(w)[g] \subseteq note.draft[g] \cup {w}
      BY <1>3, <3>2
    <3>4. Moves(note, note', Given, Given)
      BY <1>1, <3>1, <3>3 DEF Moves
    <3>5. \A g \in Fields : note'.draft[g] \subseteq Known
      BY <1>4, <3>1, <3>3
    <3>6. \A v \in truth'.landed \ truth.landed : \E g \in Fields : v \in note'.draft[g]
      BY <3>1, <3>2, <3>3, WordsAreInFields
    <3>. QED
      BY <3>4, <3>5, <3>6
  <2>. QED
    BY <1>5, <2>1, <2>2
<1>7. FlushInv'
  BY <1>2, <1>6, FlushMoves
<1>8. /\ note'.done \subseteq 1..dev.keys /\ dev.q.key \notin note'.done \ note.done
      /\ UNCHANGED <<dev, ed>> /\ net'.flush.entry = net.flush.entry
  BY <1>2 DEF Core, DeviceInv
<1>. QED
  BY <1>2, <1>6, <1>7, <1>8, NoteKeeps

(* What a write leaves of the note, and its answer of the save.               *)
Writes(n, n2, s) ==
  /\ n.ver \in Nat /\ n2.ver = n.ver + 1
  /\ \A g \in Fields : n2.draft[g] = IF g \in DOMAIN s THEN s[g] ELSE n.draft[g]

IsStored(e, b) ==
  /\ b.m = e.m /\ b.at = e.at /\ b.sees = e.sees /\ b.timer = e.timer /\ b.again = e.again
  /\ b.asking = e.asking /\ b.fly.pc = "stored" /\ b.fly.sent = e.fly.sent /\ b.fly.patch = e.fly.patch
  /\ b.fly.sees = e.fly.sees

(* The note after an update.                                                  *)
LEMMA UpdateLooks ==
  ASSUME Types, NEW s \in Sets, Write(Upon(s, note.draft))
  PROVE  /\ Writes(note, note', s) /\ note'.done = note.done /\ truth'.typed = truth.typed /\ Given' = Given
         /\ \A w \in truth'.landed \ truth.landed : \E g \in Fields : w \in note'.draft[g]
<1>. DEFINE d == Upon(s, note.draft)
<1>1. d \in Drafts /\ note.draft \in Drafts
  BY OverADraft DEF Types, NoteType
<1>2. Write(d)
  OBVIOUS
<1>3. \A g \in Fields : d[g] = IF g \in DOMAIN s THEN s[g] ELSE note.draft[g]
  BY <1>1 DEF Upon, Drafts
<1>. HIDE DEF d
<1>4. /\ note.ver \in Nat /\ note'.ver = note.ver + 1 /\ note'.done = note.done /\ note'.draft = d
      /\ truth'.typed = truth.typed /\ Given' = Given /\ truth'.landed = truth.landed \cup WordsOf(d)
  BY <1>2 DEF Write, Types, NoteType, TruthType, Given
<1>5. \A w \in truth'.landed \ truth.landed : \E g \in Fields : w \in note'.draft[g]
  BY <1>1, <1>4, WordsAreInFields
<1>. QED
  BY <1>3, <1>4, <1>5 DEF Writes

(* The PATCH is stored: the fields sent are on the note as they were sent.    *)
LEMMA ArrivesIsGood ==
  ASSUME NEW e \in Editors, e.fly.pc = "sent", NEW q \in Entries, NEW n, NEW n2, NEW H,
         Good(e, n, q, H), q.patch.ver <= n.ver, e.fly.patch.ver = n.ver, Writes(n, n2, e.fly.patch.set),
         NEW b \in Editors, IsStored(e, b)
  PROVE  /\ Moves(n, n2, H, H) /\ Good(b, n2, q, H)
         /\ \A g \in Fields : n2.draft[g] \subseteq e.m.draft[g] \cup n.draft[g]
<1>0. /\ n.ver \in Nat /\ n2.ver = n.ver + 1
      /\ \A g \in Fields : n2.draft[g] = IF g \in DOMAIN e.fly.patch.set THEN e.fly.patch.set[g] ELSE n.draft[g]
  BY DEF Writes
<1>a. /\ b.m = e.m /\ b.at = e.at /\ b.sees = e.sees /\ b.timer = e.timer /\ b.again = e.again
      /\ b.asking = e.asking /\ b.fly.pc = "stored" /\ b.fly.sent = e.fly.sent /\ b.fly.patch = e.fly.patch
      /\ b.fly.sees = e.fly.sees
  BY DEF IsStored
<1>1. ~Idle(e) /\ ~Idle(b) /\ Sends(e, H) /\ Lands(e.fly, n, H) /\ Replaces(e.fly, n, q, H)
  BY <1>a DEF Idle, Good, Sane, Flies
<1>2. Knows(n, H, e.fly.sent)
  BY <1>1 DEF Lands
<1>3. \A g \in Fields : n2.draft[g] = IF g \in DOMAIN e.fly.patch.set THEN e.fly.sent[g] ELSE n.draft[g]
  BY <1>0, <1>1 DEF Sends
<1>4. /\ Moves(n, n2, H, H) /\ Knows(n2, H, e.fly.sent)
      /\ \A g \in Fields : n2.draft[g] \subseteq e.m.draft[g] \cup n.draft[g]
  BY <1>0, <1>1, <1>2, <1>3 DEF Moves, Knows, Sends
<1>5. Sane(e, n2, q, H) /\ Armed(e)
  BY <1>4, GoodMoves DEF Good
<1>6. Lands(b.fly, n2, H)
  <2>1. e.fly.sees.base \in Nat /\ e.fly.sees.base <= n.ver /\ DOMAIN e.fly.patch.set \subseteq Fields
    BY <1>1 DEF Lands, Sends, Editors, Flights, Sights
  <2>2. \A g \in DOMAIN b.fly.patch.set : b.fly.sent[g] \subseteq n2.draft[g] \cup H
    BY <1>3, <1>a, <2>1
  <2>3. b.fly.sees.base <= n2.ver /\ b.fly.patch.ver < n2.ver
    BY <1>0, <1>a, <2>1
  <2>. QED
    BY <1>0, <1>4, <1>a, <2>2, <2>3 DEF Lands
<1>7. Flies(b, n2, q, H)
  BY <1>1, <1>5, <1>6, <1>a DEF Sane, Flies, Sends, Replaces, ReadsIt
<1>. QED
  BY <1>1, <1>4, <1>5, <1>7, <1>a
     DEF Good, Sane, Armed, Waits, Dated, Informed, Covers, SaysSo, Chooses, Shape, Behind, QueuedHere

(* A PATCH arrives and is stored.                                             *)
LEMMA ArriveKeeps ==
  ASSUME Types, Core, NEW i \in Visits, Arrive(i), Answer(ed[i].fly.patch) = "stored"
  PROVE  Core'
<1>. DEFINE e == ed[i]
            b == [e EXCEPT !.fly.pc = "stored"]
<1>1. /\ e.fly.pc = "sent" /\ Answered(i, "stored") /\ Update(e.fly.patch) /\ UNCHANGED <<dev, net>>
  BY DEF Arrive
<1>2. /\ Acts(e) /\ e \in Editors /\ e.m \in Models /\ Good(e, note, dev.q, Given) /\ Alone(i)
      /\ e.sees.seen.entry \in Copies /\ e.fly.sees.seen.entry \in Copies /\ dev.q \in Entries
  BY <1>1, FlyingIsGood, ScreenIsGood
<1>3. /\ b \in Editors /\ b.m = e.m /\ b.at = e.at /\ b.sees = e.sees /\ b.timer = e.timer
      /\ b.again = e.again /\ b.asking = e.asking
      /\ b.fly.pc = "stored" /\ b.fly.sent = e.fly.sent /\ b.fly.patch = e.fly.patch
      /\ b.fly.sees = e.fly.sees
  BY <1>2, AnsweredLooks DEF Answers
<1>4. Turn(i, b)
  BY <1>1, SetTurns DEF Answered
<1>5. Rested(b) = b
  BY <1>3 DEF Rested
<1>6. e.fly.patch.set \in Sets /\ e.fly.patch.ver = note.ver /\ Write(Upon(e.fly.patch.set, note.draft))
  <2>1. e.fly.patch.set \in Sets
    BY <1>2 DEF Editors, Flights, Patches
  <2>. QED
    BY <1>1, <2>1 DEF Answer, Update
<1>. HIDE DEF b, e
<1>7. /\ Writes(note, note', e.fly.patch.set) /\ note'.done = note.done
      /\ truth'.typed = truth.typed /\ Given' = Given
      /\ \A w \in truth'.landed \ truth.landed : \E g \in Fields : w \in note'.draft[g]
  BY <1>6, UpdateLooks
<1>8. /\ Moves(note, note', Given, Given) /\ Good(b, note', dev.q, Given)
      /\ \A g \in Fields : note'.draft[g] \subseteq e.m.draft[g] \cup note.draft[g]
  <2>1. dev.q.patch.ver <= note.ver
    BY DEF Core, DeviceInv
  <2>2. IsStored(e, b)
    BY <1>3 DEF IsStored
  <2>. QED
    BY <1>1, <1>2, <1>3, <1>6, <1>7, <2>1, <2>2, ArrivesIsGood
<1>9. ed'[i] = b /\ \A j \in Visits \ {i} : ed'[j] = ed[j]
  BY <1>4, <1>5 DEF Turn
<1>10. \A g : Resent(g)' = Resent(g) /\ Drafted(g)' = Drafted(g)
  <2>1. \A j \in Visits : ed'[j].m = ed[j].m /\ ed'[j].at = ed[j].at
    BY <1>3, <1>9 DEF e
  <2>. QED
    BY <2>1 DEF Resent, Drafted, Open
<1>11. note'.done \subseteq 1..dev.keys /\ dev.q.key \notin note'.done \ note.done /\ dev' = dev /\ net' = net
  BY <1>1, <1>7 DEF Core, DeviceInv
<1>12. DeviceInv' /\ Aware' /\ CacheInv' /\ AllKept' /\ OnServer' /\ NewWords'
  BY <1>7, <1>8, <1>10, <1>11, NoteMoves
<1>13. FlushInv'
  BY <1>7, <1>8, <1>11, FlushMoves
<1>14. b.at # "out"
  BY <1>2, <1>3 DEF Acts
<1>15. Good(b, note', dev'.q, Given')
  BY <1>7, <1>8, <1>11
<1>16. OneScreen' /\ Screens'
  BY <1>2, <1>3, <1>4, <1>14, <1>15, ScreensTurn DEF Core
<1>17. dev'.q \in Copies /\ dev'.seen.entry \in Copies /\ net'.flush.entry \in Copies
  BY <1>11 DEF Copies
<1>18. KeysInv'
  BY <1>2, <1>3, <1>4, <1>11, <1>14, <1>15, <1>17, CopiesTurn DEF Core
<1>19. FromSomebody'
  <2>1. Known' = Known
    BY <1>7 DEF Known
  <2>2. /\ Given \subseteq Known
        /\ \A g \in Fields : /\ note.draft[g] \subseteq Known /\ Has(dev.q, g) \subseteq Known
                             /\ Has(net.flush.entry, g) \subseteq Known /\ e.m.draft[g] \subseteq Known
    BY DEF Core, FromSomebody, e
  <2>3. \A g \in Fields : note'.draft[g] \subseteq Known
    BY <1>8, <2>2
  <2>. QED
    BY <1>3, <1>4, <1>7, <1>11, <1>14, <1>15, <2>1, <2>2, <2>3, KnownTurn DEF Core
<1>. QED
  BY <1>12, <1>13, <1>16, <1>18, <1>19 DEF Core

-----------------------------------------------------------------------------
(* The pass over the queue, and its reads                                     *)

(* Neither the note nor a screen moves.                                       *)
LEMMA DeskKeeps ==
  ASSUME Types, Core, UNCHANGED <<note, ed, truth>>, dev'.q \in Entries,
         dev'.cache = dev.cache \/ dev'.cache = Note(note.draft, note.ver),
         dev'.q = dev.q \/ Settles(dev.q, dev'.q, note, Given),
         DeviceInv', FlushInv', KeysInv', \A g \in Fields : Has(net'.flush.entry, g) \subseteq Known
  PROVE  Core'
<1>0. /\ note' = note /\ ed' = ed /\ truth' = truth /\ Known' = Known /\ Given' = Given /\ dev.q \in Entries
  BY DEF Known, Given, Types, DevType
<1>1. \A g \in Fields : Found(note, dev.q, Given, g) = Found(note, dev'.q, Given, g)
  BY <1>0, SettlesFinds
<1>2. \A g : Resent(g)' = Resent(g) /\ Drafted(g)' = Drafted(g)
  BY <1>0 DEF Resent, Drafted, Open
<1>3. OneScreen' /\ OnServer' /\ NewWords'
  BY <1>0 DEF Core, OneScreen, OnServer, NewWords
<1>4. Screens'
  <2>1. \A i \in Visits : Acts(ed[i]) => Good(ed[i], note, dev'.q, Given)
    BY <1>0, ScreenIsGood, GoodSettles
  <2>. QED
    BY <1>0, <2>1 DEF Core, Screens
<1>5. CacheInv' /\ AllKept'
  BY <1>0, <1>1, <1>2 DEF Core, CacheInv, AllKept, Note, Found
<1>6. Aware'
  <2>0. Newest(note, dev'.q, dev'.cache.ver) => Knows(note, Given, dev'.cache.draft)
    <3>1. CASE dev'.cache = dev.cache
      BY <3>1 DEF Core, Aware, Newest, Settles
    <3>2. CASE dev'.cache = Note(note.draft, note.ver)
      BY <3>2 DEF Note, Knows
    <3>. QED
      BY <3>1, <3>2
  <2>1. dev'.q # NoEntry => dev.q # NoEntry /\ dev'.q.key = dev.q.key /\ dev'.q.patch = dev.q.patch
    BY DEF Settles
  <2>3. CASE dev'.q # NoEntry
    BY <1>0, <2>0, <2>1, <2>3 DEF Core, Aware, Q
  <2>4. CASE dev'.q = NoEntry
    <3>1. DOMAIN dev'.q.patch.set = {}
      BY <2>4, NothingIsASet DEF NoEntry, Patch
    <3>. QED
      BY <1>0, <2>0, <2>4, <3>1 DEF Core, Aware, Q
  <2>. QED
    BY <2>3, <2>4
<1>7. FromSomebody'
  <2>1. \A g \in Fields : Has(dev'.q, g) \subseteq Has(dev.q, g)
    BY NothingIsHeld DEF Settles, Has
  <2>. QED
    BY <1>0, <2>1 DEF Core, FromSomebody
<1>. QED
  BY <1>3, <1>4, <1>5, <1>6, <1>7 DEF Core

(* Only the network moves.                                                    *)
LEMMA NetKeeps ==
  ASSUME Types, Core, UNCHANGED <<note, dev, ed, truth>>, net'.flush.entry \in Copies, FlushInv',
         \A g \in Fields : Has(net'.flush.entry, g) \subseteq Known
  PROVE  Core'
<1>1. Copies' \subseteq Copies /\ dev'.keys = dev.keys
  BY DEF Copies
<1>2. KeysInv' /\ DeviceInv'
  BY <1>1 DEF Core, KeysInv, DeviceInv
<1>3. dev'.cache = dev.cache /\ dev'.q = dev.q /\ dev'.q \in Entries
  BY DEF Types, DevType
<1>. QED
  BY <1>2, <1>3, DeskKeeps

(* A pass that is answered is still over the entry it read.                   *)
LEMMA FlushStays ==
  ASSUME Types, Core, UNCHANGED <<note, dev, ed, truth>>, net'.flush.entry = net.flush.entry,
         net'.flush.pc # "idle" => net.flush.pc # "idle",
         net'.flush.pc = "stored" => net.flush.pc = "stored" \/ net.flush.entry.key \in note.done
  PROVE  Core'
<1>1. /\ net'.flush.entry \in Copies /\ \A g \in Fields : Has(net'.flush.entry, g) \subseteq Known
  BY DEF Copies, Core, FromSomebody
<1>2. Given' = Given /\ note' = note /\ dev' = dev
  BY DEF Given
<1>3. FlushInv'
  BY <1>2 DEF Core, FlushInv
<1>. QED
  BY <1>1, <1>3, NetKeeps

(* The connection goes, comes back, or fails a pass.                          *)
LEMMA ConnectionKeeps ==
  ASSUME Types, Core, GoOffline \/ GoOnline \/ FlushDisturbed
  PROVE  Core'
<1>1. /\ UNCHANGED <<note, dev, ed, truth>> /\ net'.flush.entry = net.flush.entry
      /\ (net'.flush.pc = net.flush.pc \/ (net.flush.pc = "sent" /\ net'.flush.pc \in {"offline", "failed"}))
  <2>1. CASE GoOffline \/ GoOnline
    BY <2>1 DEF GoOffline, GoOnline, Types, NetType
  <2>2. CASE FlushDisturbed
    BY <2>2 DEF FlushDisturbed, Flushing, Types, NetType
  <2>. QED
    BY <2>1, <2>2
<1>. QED
  BY <1>1, FlushStays

(* A pass reads the queue.                                                    *)
LEMMA FlushStartKeeps ==
  ASSUME Types, Core, FlushStart
  PROVE  Core'
<1>1. /\ UNCHANGED <<note, dev, ed, truth>> /\ dev.q # NoEntry
      /\ net'.flush.pc = "sent" /\ net'.flush.entry = dev.q
  BY DEF FlushStart, Types, NetType
<1>2. dev.q \in Copies /\ dev.q.key \in Nat /\ dev.keys \in Nat
  BY DEF Copies, Types, DevType, Entries
<1>3. dev.q.key \in 1..dev.keys /\ dev.q.patch.ver <= note.ver
  BY <1>1, <1>2 DEF Core, KeysInv, DeviceInv
<1>4. FlushInv'
  <2>1. Given' = Given /\ note' = note /\ dev' = dev
    BY <1>1 DEF Given
  <2>. QED
    BY <1>1, <1>3, <2>1 DEF Core, Aware, FlushInv, Q
<1>5. \A g \in Fields : Has(net'.flush.entry, g) \subseteq Known
  BY <1>1 DEF Core, FromSomebody
<1>. QED
  BY <1>1, <1>2, <1>4, <1>5, NetKeeps

(* The entry is stored: only if nothing was written since the copy it was     *)
(* made over, so over nothing it does not know.                               *)
LEMMA FlushArriveKeeps ==
  ASSUME Types, Core, FlushArrive
  PROVE  Core'
<1>. DEFINE x == net.flush.entry
            a == IF x.key \in note.done THEN "stored" ELSE Answer(x.patch)
            stores == a = "stored" /\ x.key \notin note.done
<1>1. /\ UNCHANGED <<dev, ed>> /\ net.flush.pc = "sent" /\ net'.flush.entry = x
      /\ net'.flush.pc \in {a, "offline"}
      /\ IF stores
         THEN /\ note' = [note EXCEPT !.ver = note.ver + 1, !.draft = Upon(x.patch.set, note.draft),
                                        !.done = note.done \cup {x.key}]
              /\ truth' = [truth EXCEPT !.landed = truth.landed \cup WordsOf(Upon(x.patch.set, note.draft))]
         ELSE UNCHANGED <<note, truth>>
  BY DEF FlushArrive, Flushing, Types, NetType, NoteType, TruthType
<1>2. x \in Entries /\ x.patch.set \in Sets /\ note.ver \in Nat /\ dev.keys \in Nat /\ dev.q.key \in Nat
  BY EntriesAreEntries DEF Types, NetType, NoteType, DevType, Patches
<1>3. /\ x.key \in 1..dev.keys /\ x.patch.ver <= note.ver
      /\ \A g \in DOMAIN x.patch.set :
          IF x.key \in note.done THEN x.patch.set[g] \subseteq note.draft[g] \cup Given
          ELSE x.patch.ver = note.ver => note.draft[g] \subseteq x.patch.set[g] \cup Given
  BY <1>1 DEF Core, FlushInv
<1>. HIDE DEF x
<1>4. CASE ~stores
  <2>1. net'.flush.pc = "stored" => x.key \in note.done
    BY <1>1, <1>4
  <2>. QED
    BY <1>1, <1>4, <2>1, FlushStays DEF x
<1>5. CASE stores
  <2>. DEFINE d == Upon(x.patch.set, note.draft)
  <2>0. x.patch.ver = note.ver /\ x.key \notin note.done
    BY <1>5 DEF Answer
  <2>1. d \in Drafts /\ note.draft \in Drafts
    BY <1>2, OverADraft DEF Types, NoteType
  <2>2. \A g \in Fields : d[g] = IF g \in DOMAIN x.patch.set THEN x.patch.set[g] ELSE note.draft[g]
    BY <2>1 DEF Upon, Drafts
  <2>. HIDE DEF d
  <2>3. /\ note'.ver = note.ver + 1 /\ note'.draft = d /\ note'.done = note.done \cup {x.key}
        /\ truth'.landed = truth.landed \cup WordsOf(d) /\ truth'.typed = truth.typed /\ Given' = Given
    BY <1>1, <1>5 DEF Types, NoteType, TruthType, Given, d
  <2>4. Moves(note, note', Given, Given)
    BY <1>2, <1>3, <2>0, <2>2, <2>3 DEF Moves
  <2>5. \A g \in Fields : note'.draft[g] \subseteq Known
    <3>1. \A g \in Fields : note.draft[g] \subseteq Known /\ Has(x, g) \subseteq Known
      BY DEF Core, FromSomebody, x
    <3>. QED
      BY <2>2, <2>3, <3>1 DEF Has
  <2>6. \A w \in truth'.landed \ truth.landed : \E g \in Fields : w \in note'.draft[g]
    BY <2>1, <2>3, WordsAreInFields
  <2>7. \A g \in DOMAIN x.patch.set : g \in Fields /\ x.patch.set[g] \subseteq note'.draft[g]
    BY <1>2, <2>2, <2>3, SetsHaveFields
  <2>8. FlushInv'
    BY <1>1, <1>2, <1>3, <2>0, <2>3, <2>7 DEF FlushInv, x
  <2>9. dev.q.key \in note'.done \ note.done => \A g \in DOMAIN Q : Q[g] \subseteq note'.draft[g] \cup Given
    <3>1. dev.q \in Copies /\ x \in Copies
      BY DEF Copies, x
    <3>2. dev.q.key = x.key => Q = x.patch.set
      BY <3>1 DEF Core, KeysInv, Q
    <3>. QED
      BY <2>3, <2>7, <3>2
  <2>10. note'.done \subseteq 1..dev.keys
    BY <1>3, <2>3 DEF Core, DeviceInv
  <2>11. UNCHANGED <<dev, ed>> /\ net'.flush.entry = net.flush.entry
    BY <1>1 DEF x
  <2>. QED
    BY <2>3, <2>4, <2>5, <2>6, <2>8, <2>9, <2>10, <2>11, NoteKeeps
<1>. QED
  BY <1>4, <1>5

(* An entry is settled by the answer to it, and by no other's.                *)
LEMMA FlushSettleKeeps ==
  ASSUME Types, Types', Core, FlushSettle
  PROVE  Core'
<1>. DEFINE x == net.flush.entry
<1>1. /\ UNCHANGED <<note, ed, truth>> /\ net.flush.pc # "idle" /\ net'.flush = NoFlush
      /\ dev'.q = Settle(Outcome) /\ dev'.cache = dev.cache /\ dev'.keys = dev.keys /\ dev'.seen = dev.seen
  BY DEF FlushSettle, Types, NetType, DevType
<1>2. /\ dev.q \in Entries /\ x \in Entries /\ dev'.q \in Entries /\ note.ver \in Nat /\ dev.keys \in Nat
      /\ dev.q.key \in Nat /\ x.key \in Nat
  BY DEF Types, NetType, DevType, NoteType, Entries
<1>3. dev.q \in Copies /\ x \in Copies /\ NoEntry \in Copies
  BY DEF Copies
<1>4. /\ x.key \in 1..dev.keys
      /\ net.flush.pc = "stored" => x.key \in note.done
  BY <1>1 DEF Core, FlushInv
<1>5. dev.q.key = x.key => dev.q.patch = x.patch
  BY <1>3 DEF Core, KeysInv
<1>6. \/ dev'.q = dev.q
      \/ dev.q.key = x.key /\ dev'.q.key = x.key /\ dev'.q.patch = x.patch
      \/ dev.q.key = x.key /\ dev'.q = NoEntry /\ net.flush.pc = "stored"
  BY <1>1, <1>2 DEF Settle, Outcome, Entries
<1>. HIDE DEF x
<1>7. NoEntry.key = 0 /\ NoEntry.patch.ver = 0
  BY DEF NoEntry, Patch
<1>8. dev'.q = dev.q \/ Settles(dev.q, dev'.q, note, Given)
  <2>1. CASE dev.q.key = x.key /\ dev'.q.key = x.key /\ dev'.q.patch = x.patch
    BY <1>4, <1>5, <1>7, <2>1 DEF Settles
  <2>2. CASE dev.q.key = x.key /\ dev'.q = NoEntry /\ net.flush.pc = "stored"
    <3>1. \A g \in DOMAIN Q : Q[g] \subseteq note.draft[g] \cup Given
      BY <1>4, <2>2 DEF Core, Aware
    <3>. QED
      BY <2>2, <3>1 DEF Settles, Has, Q
  <2>. QED
    BY <1>6, <2>1, <2>2
<1>9. DeviceInv'
  BY <1>1, <1>2, <1>4, <1>5, <1>6, <1>7 DEF Core, DeviceInv
<1>10. FlushInv'
  BY <1>1 DEF FlushInv, NoFlush
<1>11. KeysInv'
  <2>1. \A y \in Copies' : \E z \in Copies : z.key = y.key /\ z.patch = y.patch
    <3>1. (dev'.q.key = dev.q.key /\ dev'.q.patch = dev.q.patch) \/ dev'.q = NoEntry
      BY <1>5, <1>6
    <3>2. net'.flush.entry = NoEntry
      BY <1>1 DEF NoFlush
    <3>3. \A y \in Copies' : y \in Copies \/ y = dev'.q
      BY <1>1, <1>3, <3>2 DEF Copies
    <3>. QED
      BY <1>3, <3>1, <3>3
  <2>. QED
    BY <1>1, <2>1 DEF Core, KeysInv
<1>12. \A g \in Fields : Has(net'.flush.entry, g) \subseteq Known
  BY <1>1, NothingIsHeld DEF NoFlush
<1>. QED
  BY <1>1, <1>2, <1>8, <1>9, <1>10, <1>11, <1>12, DeskKeeps

(* The screen reads the queue.                                                *)
LEMMA ReadQueueKeeps ==
  ASSUME Types, Core, ReadQueue
  PROVE  Core'
<1>1. /\ UNCHANGED <<note, ed, net, truth>> /\ dev'.q = dev.q /\ dev'.seen = Read(dev.q)
      /\ dev'.cache = dev.cache /\ dev'.keys = dev.keys /\ dev'.q \in Entries
  BY DEF ReadQueue, Types, DevType
<1>2. DeviceInv'
  BY <1>1 DEF Core, DeviceInv, Read
<1>3. FlushInv'
  <2>1. Given' = Given /\ note' = note /\ net' = net
    BY <1>1 DEF Given
  <2>. QED
    BY <1>1, <2>1 DEF Core, FlushInv
<1>4. KeysInv'
  <2>1. Copies' \subseteq Copies
    BY <1>1 DEF Copies, Read
  <2>. QED
    BY <1>1, <2>1 DEF Core, KeysInv
<1>5. \A g \in Fields : Has(net'.flush.entry, g) \subseteq Known
  BY <1>1 DEF Core, FromSomebody
<1>. QED
  BY <1>1, <1>2, <1>3, <1>4, <1>5, DeskKeeps

(* The server's copy reaches the open screen: adopted with nothing to lose,   *)
(* carried under when the words are the ones last saved, else left alone.     *)
LEMMA OnNoteIsGood ==
  ASSUME NEW e \in Editors, e.at = "open", NEW q \in Entries, NEW n,
         n.ver \in Nat, n.draft \in Drafts, NEW H, Good(e, n, q, H), q.patch.ver <= n.ver
  PROVE  LET b == OnNote(e, Note(n.draft, n.ver)) IN
         /\ b \in Editors /\ b.at = "open" /\ Good(b, n, q, H)
         /\ b.sees = e.sees /\ b.fly = e.fly
         /\ \A g \in Fields : /\ b.m.draft[g] \subseteq e.m.draft[g] \cup n.draft[g]
                              /\ e.m.draft[g] \subseteq b.m.draft[g] \cup Found(n, q, H, g)
<1>. DEFINE m == Note(n.draft, n.ver)
            c == [e EXCEPT !.asking = FALSE]
            b == OnNote(e, m)
<1>1. m \in Notes /\ m.draft = n.draft /\ m.ver = n.ver
  BY DEF Note, Notes
<1>2. b \in Editors
  BY <1>1, OnNoteIsAnEditor
<1>3. /\ c \in Editors /\ c.m = e.m /\ c.at = "open" /\ c.sees = e.sees /\ c.fly = e.fly
      /\ c.timer = e.timer /\ c.again = e.again /\ ~c.asking
  BY DEF Editors
<1>4. Good(c, n, q, H)
  BY <1>3 DEF Good, Sane, Armed, Waits, Dated, Informed, Covers, SaysSo, Chooses, Shape, Behind, QueuedHere, Flies,
              Sends, Idle
<1>5. /\ e.m \in Models /\ e.m.ver \in Nat /\ q.patch.ver \in Nat /\ DOMAIN q.patch.set \subseteq Fields
      /\ e.sees.base <= n.ver
  BY SetsHaveFields, EntriesAreEntries DEF Editors, Models, Patches, Good, Sane, Dated
<1>6. InitialEditor(m) \in Models /\ Rebase(e.m, n.ver) \in Models
  BY <1>1, <1>5, InitialIsAModel, SavesAreModels, BlankIsADraft
<1>. HIDE DEF m
<1>7. CASE ~(n.ver <= e.m.ver) /\ ResetAllowed(e)
  <2>1. b = [c EXCEPT !.m = InitialEditor(m)]
    BY <1>1, <1>7 DEF OnNote
  <2>2. /\ b.m = InitialEditor(m) /\ b.at = "open" /\ b.sees = e.sees /\ b.fly = e.fly
        /\ b.timer = "none" /\ b.again = e.again /\ ~b.asking
    BY <1>3, <1>6, <1>7, <2>1 DEF Editors, ResetAllowed
  <2>3. /\ b.m.draft = n.draft /\ b.m.saved = n.draft /\ b.m.server = n.draft /\ b.m.ver = n.ver
        /\ b.m.state = "clean"
    BY <1>1, <2>2 DEF InitialEditor
  <2>. HIDE DEF b, c
  <2>4. Idle(b) /\ e.m.state \in Quiet
    BY <1>7, <2>2 DEF Idle, ResetAllowed, Quiet
  <2>5. Findable(n, q, H, e.m.draft)
    BY <2>4 DEF Good, Sane, SaysSo
  <2>6. Good(b, n, q, H)
    <3>1. Dated(b, n) /\ Informed(b, n, q, H) /\ Covers(b, n, q, H) /\ SaysSo(b, n, q, H)
      BY <1>5, <2>2, <2>3 DEF Dated, Informed, Knows, Covers, SaysSo, Findable, Found
    <3>2. Chooses(b, n, q, H) /\ Shape(b) /\ Behind(b, q, H) /\ Flies(b, n, q, H) /\ Armed(b)
      BY <2>2, <2>3, <2>4 DEF Chooses, Shape, Behind, Flies, Armed
    <3>. QED
      BY <3>1, <3>2 DEF Good, Sane
  <2>. QED
    BY <1>2, <2>2, <2>3, <2>5, <2>6 DEF Findable, b, m
<1>8. CASE /\ ~(n.ver <= e.m.ver) /\ ~ResetAllowed(e) /\ e.fly.pc = "idle" /\ n.draft = e.m.saved
           /\ e.m.state # "conflict"
  <2>1. b = [c EXCEPT !.m = Rebase(e.m, n.ver)]
    BY <1>1, <1>3, <1>8 DEF OnNote, SameText
  <2>2. /\ b.m = Rebase(e.m, n.ver) /\ b.at = "open" /\ b.sees = e.sees /\ b.fly = e.fly
        /\ b.timer = e.timer /\ b.again = e.again /\ ~b.asking
    BY <1>3, <1>6, <2>1 DEF Editors
  <2>3. /\ Idle(e) /\ e.m.state # "saving"
        /\ \A g \in Fields : e.m.saved[g] \subseteq e.m.draft[g] \cup H
    BY <1>8 DEF Idle, Good, Sane, Shape, Covers
  <2>4. /\ b.m.draft = e.m.draft /\ b.m.saved = e.m.saved /\ b.m.server = e.m.saved /\ b.m.ver = n.ver
        /\ b.m.state = e.m.state
    BY <1>5, <1>6, <1>8, <2>2, <2>3 DEF Rebase, Models
  <2>. HIDE DEF b, c
  <2>5. Idle(b)
    BY <1>8, <2>2 DEF Idle
  <2>6. Dated(b, n) /\ Informed(b, n, q, H) /\ Covers(b, n, q, H)
    BY <1>5, <1>8, <2>2, <2>3, <2>4 DEF Dated, Informed, Knows, Covers, Found
  <2>7. SaysSo(b, n, q, H) /\ Chooses(b, n, q, H)
    BY <1>8, <2>4 DEF Good, Sane, SaysSo, Chooses
  <2>8. Shape(b) /\ Flies(b, n, q, H) /\ Armed(b)
    BY <2>2, <2>3, <2>4, <2>5 DEF Good, Sane, Shape, Flies, Armed, Waits
  <2>9. Behind(b, q, H)
    BY <1>5, <2>2, <2>3, <2>4, <2>5 DEF Good, Sane, Behind, QueuedHere
  <2>. QED
    BY <1>2, <2>2, <2>4, <2>6, <2>7, <2>8, <2>9 DEF Good, Sane, b, m
<1>9. CASE /\ ~(n.ver <= e.m.ver) /\ ~ResetAllowed(e) /\ e.fly.pc = "idle" /\ n.draft = e.m.saved
           /\ e.m.state = "conflict"
  <2>1. b = [c EXCEPT !.m = Rebase(e.m, n.ver)]
    BY <1>1, <1>3, <1>9 DEF OnNote, SameText
  <2>2. Rebase(e.m, n.ver) = e.m
    BY <1>9 DEF Rebase
  <2>3. b = c
    BY <1>3, <2>1, <2>2 DEF Editors
  <2>. QED
    BY <1>3, <1>4, <2>3 DEF m
<1>10. CASE n.ver <= e.m.ver \/ (~ResetAllowed(e) /\ ~(e.fly.pc = "idle" /\ n.draft = e.m.saved))
  <2>1. b = c
    BY <1>1, <1>10 DEF OnNote, SameText
  <2>. QED
    BY <1>3, <1>4, <2>1 DEF m
<1>. QED
  BY <1>7, <1>8, <1>9, <1>10

(* The note is fetched into the caches and onto the open screen.              *)
LEMMA FetchKeeps ==
  ASSUME Types, Core, Fetch
  PROVE  Core'
<1>. DEFINE n == Note(note.draft, note.ver)
<1>1. /\ UNCHANGED <<note, net, truth>> /\ dev'.q = dev.q /\ dev'.seen = dev.seen /\ dev'.cache = n
      /\ dev'.keys = dev.keys /\ ed' = [j \in Visits |-> OnNote(ed[j], n)]
  BY DEF Fetch, Types, DevType
<1>2. /\ dev.q \in Entries /\ dev.keys \in Nat /\ note.ver \in Nat /\ note.draft \in Drafts
      /\ n.draft = note.draft /\ n.ver = note.ver /\ dev.q.patch.ver <= note.ver
  BY DEF Types, DevType, NoteType, Note, Core, DeviceInv
<1>3. Given' = Given /\ note' = note /\ net' = net /\ truth' = truth /\ Known' = Known
  BY <1>1 DEF Given, Known
<1>4. DeviceInv'
  BY <1>1, <1>2, <1>3 DEF Core, DeviceInv
<1>5. CASE Nobody
  <2>1. ed' = ed
    BY <1>1, <1>5 DEF Nobody, Open, OnNote, Types, EdType
  <2>2. KeysInv'
    <3>1. Copies' = Copies
      BY <1>1, <2>1 DEF Copies
    <3>. QED
      BY <1>1, <3>1 DEF Core, KeysInv
  <2>3. FlushInv'
    BY <1>1, <1>3 DEF Core, FlushInv
  <2>4. \A g \in Fields : Has(net'.flush.entry, g) \subseteq Known
    BY <1>3 DEF Core, FromSomebody
  <2>. QED
    BY <1>1, <1>2, <1>3, <1>4, <2>1, <2>2, <2>3, <2>4, DeskKeeps
<1>6. CASE ~Nobody
  <2>1. PICK i \in Visits : ed[i].at = "open"
    BY <1>6 DEF Nobody, Open
  <2>2. Acts(ed[i])
    BY <2>1 DEF Acts
  <2>3. /\ ed[i] \in Editors /\ Good(ed[i], note, dev.q, Given) /\ Alone(i)
        /\ ed[i].sees.seen.entry \in Copies /\ ed[i].fly.sees.seen.entry \in Copies
    BY <2>2, ScreenIsGood
  <2>. DEFINE b == OnNote(ed[i], n)
  <2>4. /\ b \in Editors /\ b.at = "open" /\ Good(b, note, dev.q, Given)
        /\ b.sees = ed[i].sees /\ b.fly = ed[i].fly
        /\ \A g \in Fields : /\ b.m.draft[g] \subseteq ed[i].m.draft[g] \cup note.draft[g]
                             /\ ed[i].m.draft[g] \subseteq b.m.draft[g] \cup Found(note, dev.q, Given, g)
    BY <1>2, <2>1, <2>3, OnNoteIsGood
  <2>5. Turn(i, b)
    <3>1. Rested(b) = b
      BY <2>4 DEF Rested
    <3>2. \A j \in Visits \ {i} : OnNote(ed[j], n) = ed[j]
      BY <2>3 DEF Alone, Acts, OnNote
    <3>. HIDE DEF n
    <3>. QED
      BY <1>1, <3>1, <3>2 DEF Turn
  <2>. HIDE DEF b
  <2>6. Aware'
    BY <1>1, <1>2, <1>3 DEF Core, Aware, Newest, Knows, Q
  <2>7. KeysInv'
    <3>1. dev'.q \in Copies /\ dev'.seen.entry \in Copies
      BY <1>1 DEF Copies
    <3>2. Good(b, note', dev'.q, Given')
      BY <1>1, <1>3, <2>4
    <3>. QED
      BY <1>1, <1>3, <2>3, <2>4, <2>5, <3>1, <3>2, CopiesTurn DEF Core
  <2>8. \A g \in Fields : /\ b.m.draft[g] \subseteq Known /\ Has(dev'.q, g) \subseteq Known
                          /\ note.draft[g] \cup Has(dev.q, g) \cup ed[i].m.draft[g]
                                \subseteq b.m.draft[g] \cup Found(note, dev'.q, Given', g)
                          /\ dev'.cache.draft[g] \subseteq Found(note, dev'.q, Given', g) \cup Ahead(b, g)
    <3>1. \A g \in Fields : /\ ed[i].m.draft[g] \subseteq Known /\ note.draft[g] \subseteq Known
                            /\ Has(dev.q, g) \subseteq Known
      BY DEF Core, FromSomebody
    <3>. QED
      BY <1>1, <1>2, <1>3, <2>4, <3>1 DEF Found
  <2>9. Given' \subseteq Known /\ Given \subseteq Given'
    BY <1>3 DEF Core, FromSomebody
  <2>10. Good(b, note, dev'.q, Given')
    BY <1>1, <1>3, <2>4
  <2>. QED
    BY <1>1, <1>2, <1>3, <1>4, <2>3, <2>4, <2>5, <2>6, <2>7, <2>8, <2>9, <2>10, OnDevice
<1>. QED
  BY <1>5, <1>6

(* The page starts again: what is lost with it was given up, or is found      *)
(* again.                                                                     *)
LEMMA ReloadKeeps ==
  ASSUME Types, Core, Reload
  PROVE  Core'
<1>1. /\ note' = note /\ truth'.typed = truth.typed /\ truth'.landed = truth.landed
      /\ dev'.q = dev.q /\ dev'.cache = dev.cache /\ dev'.keys = dev.keys /\ dev'.seen = Unread
      /\ net'.flush = NoFlush /\ Known' = Known
      /\ Given' = Given \cup UNION {WordsOf(ed[i].m.draft) : i \in {j \in Visits : Open(j) /\ HasUnsavedWork(ed[j].m)}}
  BY DEF Reload, Types, TruthType, DevType, NetType, Given, Known
<1>2. ed \in [Visits -> Editors] /\ note.ver \in Nat /\ dev.keys \in Nat
  BY DEF Types, EdType, NoteType, DevType
<1>3. \A i \in Visits :
         /\ ed[i].at = "out" => ed'[i] = ed[i]
         /\ ed[i].at # "out" =>
               /\ ed'[i].at = "gone" /\ ed'[i].sees = Blind /\ ed'[i].fly = Grounded
               /\ ed'[i].timer = "none" /\ ~ed'[i].asking
               /\ ed'[i].m.draft = IF ed[i].at = "open" THEN Blank ELSE ed[i].m.draft
  <2>. SUFFICES ASSUME NEW i \in Visits
                PROVE  /\ ed[i].at = "out" => ed'[i] = ed[i]
                       /\ ed[i].at # "out" =>
                             /\ ed'[i].at = "gone" /\ ed'[i].sees = Blind /\ ed'[i].fly = Grounded
                             /\ ed'[i].timer = "none" /\ ~ed'[i].asking
                             /\ ed'[i].m.draft = IF ed[i].at = "open" THEN Blank ELSE ed[i].m.draft
    OBVIOUS
  <2>. DEFINE d == IF ed[i].at = "open" THEN Blank ELSE ed[i].m.draft
              m == [Unopened.m EXCEPT !.draft = d]
  <2>1. ed[i].at = "out" => ed'[i] = ed[i]
    BY DEF Reload
  <2>2. Unopened \in Editors /\ Unopened.m \in Models
    BY UnopenedIsAnEditor DEF Editors
  <2>3. ed[i].at # "out" => ed'[i] = [Unopened EXCEPT !.at = "gone", !.m = m]
    BY <2>2 DEF Reload, Open, Editors
  <2>4. m.draft = d
    BY <2>2 DEF Models
  <2>5. Unopened.sees = Blind /\ Unopened.fly = Grounded /\ Unopened.timer = "none" /\ ~Unopened.asking
    BY DEF Unopened
  <2>. HIDE DEF m, d
  <2>6. [Unopened EXCEPT !.at = "gone", !.m = m].m = m
    BY <2>2 DEF Editors
  <2>. QED
    BY <2>1, <2>2, <2>3, <2>4, <2>5, <2>6 DEF Editors, d
<1>4. Given \subseteq Given' /\ Given' \subseteq Known
  <2>1. \A i \in Visits : WordsOf(ed[i].m.draft) \subseteq Known
    BY <1>2 DEF Core, FromSomebody, WordsOf, Editors, Models, Drafts
  <2>. QED
    BY <1>1, <2>1 DEF Core, FromSomebody
(* What an open screen shows is given up, or found.                           *)
<1>5. \A i \in Visits : Open(i) =>
         \A g \in Fields : ed[i].m.draft[g] \subseteq Found(note, dev.q, Given', g)
  <2>. SUFFICES ASSUME NEW i \in Visits, Open(i), NEW g \in Fields
                PROVE  ed[i].m.draft[g] \subseteq Found(note, dev.q, Given', g)
    OBVIOUS
  <2>1. Good(ed[i], note, dev.q, Given) /\ ed[i].m \in Models
    BY ScreenIsGood DEF Open, Acts
  <2>2. CASE HasUnsavedWork(ed[i].m)
    <3>1. ed[i].m.draft[g] \subseteq WordsOf(ed[i].m.draft)
      BY <2>1 DEF WordsOf, Models, Drafts
    <3>. QED
      BY <1>1, <2>2, <3>1 DEF Found
  <2>3. CASE ~HasUnsavedWork(ed[i].m)
    <3>1. ed[i].m.state \in Quiet
      BY <2>1, <2>3 DEF HasUnsavedWork, Quiet, Models, SaveStates
    <3>. QED
      BY <1>4, <2>1, <3>1 DEF Good, Sane, SaysSo, Findable, Found
  <2>. QED
    BY <2>2, <2>3
<1>6. \A i \in Visits : ~Acts(ed'[i]) /\ ed'[i].at # "open"
  BY <1>2, <1>3 DEF Acts, Idle, Grounded, Core, Screens, Editors
<1>7. OneScreen' /\ Screens'
  <2>0. \A i \in Visits : ed[i].at = "out" => ed[i] = Unopened
    BY DEF Core, Screens
  <2>1. \A i \in Visits : ed'[i].at = "out" => ed'[i] = Unopened /\ ~ed'[i].asking
    <3>1. ~Unopened.asking
      BY DEF Unopened
    <3>. QED
      BY <1>3, <2>0, <3>1
  <2>2. \A i \in Visits : ed'[i].asking => ed'[i].at = "out"
    BY <1>3
  <2>. QED
    BY <1>6, <2>1, <2>2 DEF OneScreen, Screens
<1>8. DeviceInv'
  BY <1>1 DEF Core, DeviceInv, Unread
<1>9. Aware'
  <2>1. DOMAIN Q \subseteq Fields
    BY SetsHaveFields, EntriesAreEntries DEF Types, DevType, Patches, Q
  <2>2. Q' = Q /\ Newest(note', dev'.q, dev'.cache.ver) = Newest(note, dev.q, dev.cache.ver)
    BY <1>1 DEF Newest, Q
  <2>3. Knows(note, Given, dev.cache.draft) => Knows(note', Given', dev'.cache.draft)
    BY <1>1, <1>4 DEF Knows
  <2>. QED
    BY <1>1, <1>4, <2>1, <2>2, <2>3 DEF Core, Aware
<1>10. CacheInv'
  <2>1. \A g \in Fields : Resent(g) \subseteq Found(note, dev.q, Given', g)
    BY <1>5 DEF Resent
  <2>2. \A g \in Fields : Found(note, dev.q, Given, g) \subseteq Found(note, dev.q, Given', g)
    BY <1>4 DEF Found
  <2>. QED
    BY <1>1, <2>1, <2>2 DEF Core, CacheInv
<1>11. FlushInv'
  BY <1>1 DEF FlushInv, NoFlush
<1>12. KeysInv'
  <2>1. net'.flush.entry = NoEntry /\ dev'.seen.entry = NoEntry /\ Blind.seen.entry = NoEntry
        /\ Grounded.sees.seen.entry = NoEntry
    BY <1>1, BlindSeesNothing DEF NoFlush, Unread, Grounded
  <2>2. \A i \in Visits : ed'[i].sees.seen.entry \in Copies /\ ed'[i].fly.sees.seen.entry \in Copies
    BY <1>3, <2>1 DEF Copies
  <2>3. NoEntry \in Copies /\ dev.q \in Copies
    BY DEF Copies
  <2>4. Copies' \subseteq Copies
    BY <1>1, <2>1, <2>2, <2>3 DEF Copies
  <2>. QED
    BY <1>1, <2>4 DEF Core, KeysInv
<1>13. FromSomebody'
  <2>1. \A i \in Visits : \A g \in Fields : ed'[i].m.draft[g] \subseteq ed[i].m.draft[g]
    BY <1>3 DEF Blank
  <2>2. \A g : Has(net'.flush.entry, g) = {}
    BY <1>1, NothingIsHeld DEF NoFlush
  <2>. QED
    BY <1>1, <1>4, <2>1, <2>2 DEF Core, FromSomebody
<1>14. AllKept'
  <2>. SUFFICES ASSUME NEW w \in truth.typed \ Given'
                PROVE  \E g \in Fields : w \in Found(note, dev.q, Given', g) \cup Drafted(g)'
    BY <1>1 DEF AllKept
  <2>1. PICK g \in Fields : w \in Found(note, dev.q, Given, g) \cup Drafted(g)
    BY <1>4 DEF Core, AllKept
  <2>2. CASE w \in Found(note, dev.q, Given, g)
    BY <1>4, <2>2 DEF Found
  <2>3. CASE w \in Drafted(g)
    <3>1. PICK i \in Visits : w \in ed[i].m.draft[g]
      BY <2>3 DEF Drafted
    <3>2. CASE Open(i)
      BY <1>5, <3>1, <3>2
    <3>3. CASE ~Open(i)
      BY <1>3, <3>1, <3>3 DEF Open, Drafted
    <3>. QED
      BY <3>2, <3>3
  <2>. QED
    BY <2>1, <2>2, <2>3
<1>15. OnServer' /\ NewWords'
  BY <1>1, <1>4 DEF Core, OnServer, NewWords
<1>. QED
  BY <1>7, <1>8, <1>9, <1>10, <1>11, <1>12, <1>13, <1>14, <1>15 DEF Core

-----------------------------------------------------------------------------
(* The whole                                                                  *)

(* A blank note, an empty queue and no screen.                                *)
LEMMA StartIsRight ==
  ASSUME Init
  PROVE  Core
<1>1. /\ note.ver = 1 /\ note.draft = Blank /\ note.done = {} /\ dev.q = NoEntry /\ dev.seen = Unread
      /\ dev.cache = Note(Blank, 1) /\ dev.keys = 0 /\ net.flush = NoFlush
      /\ truth.typed = {} /\ truth.landed = {} /\ Given = {} /\ \A i \in Visits : ed[i] = Unopened
  BY DEF Init, Given
<1>2. /\ Unopened.at = "out" /\ ~Unopened.asking /\ Unopened.sees = Blind /\ Unopened.fly = Grounded
      /\ Unopened.m.draft = Blank
  BY DEF Unopened, InitialEditor, Note
<1>3. /\ NoEntry.key = 0 /\ NoEntry.patch.ver = 0 /\ DOMAIN NoEntry.patch.set = {} /\ Unread.entry = NoEntry
      /\ NoFlush.pc = "idle" /\ NoFlush.entry = NoEntry /\ Grounded.sees = Blind
      /\ \A g \in Fields : Blank[g] = {} /\ Has(NoEntry, g) = {}
  BY NothingIsASet, NothingIsHeld DEF NoEntry, Patch, Unread, NoFlush, Grounded, Blank
<1>4. \A i \in Visits : ~Acts(ed[i])
  BY <1>1, <1>2 DEF Acts
<1>5. OneScreen /\ Screens
  BY <1>1, <1>2, <1>4 DEF OneScreen, Screens
<1>6. DeviceInv /\ FlushInv
  BY <1>1, <1>3 DEF DeviceInv, FlushInv, Unread, Note
<1>7. Aware /\ CacheInv
  BY <1>1, <1>3 DEF Aware, CacheInv, Q, Knows, Note
<1>8. KeysInv
  <2>1. Copies \subseteq {NoEntry}
    BY <1>1, <1>2, <1>3, BlindSeesNothing DEF Copies
  <2>. QED
    BY <1>1, <1>3, <2>1 DEF KeysInv
<1>9. FromSomebody /\ AllKept /\ OnServer
  BY <1>1, <1>2, <1>3 DEF FromSomebody, AllKept, OnServer
<1>10. NewWords
  BY <1>1, FS_EmptySet DEF NewWords
<1>. QED
  BY <1>5, <1>6, <1>7, <1>8, <1>9, <1>10 DEF Core

(* What was given up stays given up.                                          *)
LEMMA GivenStays ==
  ASSUME Types, [Next]_vars
  PROVE  Given \subseteq Given'
<1>1. \A d \in Drafts : Write(d) => Given' = Given
  BY DEF Write, Types, TruthType, Given
<1>2. \A p : Update(p) => Given' = Given
  BY DEF Update, Write, Types, TruthType, Given
<1>3. \A s : Gives(s) => Given \subseteq Given'
  BY DEF Gives, Types, TruthType, Given
<1>4. CASE UNCHANGED truth
  BY <1>4 DEF Given
<1>5. CASE FileParagraph \/ EditElsewhere
  BY <1>5 DEF FileParagraph, EditElsewhere, Write, Types, TruthType, Given
<1>6. CASE Reload
  BY <1>6 DEF Reload, Types, TruthType, Given
<1>7. CASE \E i \in Visits, f \in Fields : Type(i, f)
  BY <1>7 DEF Type, Types, TruthType, Given
<1>8. CASE \E i \in Visits : Arrive(i) \/ Disturbed(i)
  BY <1>2, <1>4, <1>8 DEF Arrive, Disturbed, Given
<1>9. CASE \E i \in Visits : Queue(i)
  BY <1>9 DEF Queue, Types, TruthType, Given
<1>10. CASE \E i \in Visits : TakeTheirsTap(i) \/ KeepTap(i)
  BY <1>3, <1>10 DEF TakeTheirsTap, KeepTap
<1>11. CASE FlushArrive
  BY <1>11 DEF FlushArrive, Types, TruthType, Given
<1>12. CASE StampNote \/ CleanBump \/ GoOffline \/ GoOnline \/ ReadQueue \/ Fetch
            \/ FlushStart \/ FlushDisturbed \/ FlushSettle \/ UNCHANGED vars
  BY <1>4, <1>12 DEF StampNote, CleanBump, GoOffline, GoOnline, ReadQueue, Fetch, FlushStart, FlushDisturbed,
     FlushSettle, vars
<1>13. CASE \E i \in Visits : \/ Visit(i) \/ Leave(i) \/ Debounce(i) \/ WaitOver(i) \/ SaveNow(i) \/ Unreachable(i)
                              \/ Stored(i) \/ Failed(i) \/ Deferred(i) \/ Refused(i) \/ AskBack(i) \/ AnswerBack(i)
  BY <1>4, <1>13 DEF Visit, Leave, Debounce, WaitOver, SaveNow, Unreachable, Stored, Failed, Deferred, Refused,
     AskBack, AnswerBack
<1>. QED
  BY <1>5, <1>6, <1>7, <1>8, <1>9, <1>10, <1>11, <1>12, <1>13 DEF Next

(* Every step of a screen.                                                    *)
LEMMA ScreenStep ==
  ASSUME Windows = {}, Types, Core, NEW i \in Visits,
         \/ Visit(i) \/ Leave(i) \/ Debounce(i) \/ WaitOver(i) \/ SaveNow(i)
         \/ \E f \in Fields : Type(i, f)
         \/ Arrive(i) \/ Unreachable(i) \/ Disturbed(i)
         \/ Stored(i) \/ Queue(i) \/ Failed(i) \/ Deferred(i) \/ Refused(i)
         \/ TakeTheirsTap(i) \/ KeepTap(i) \/ AskBack(i) \/ AnswerBack(i)
  PROVE  Core' \/ Words \subseteq Given'
<1>1. CASE Visit(i) \/ Leave(i) \/ Debounce(i) \/ WaitOver(i) \/ SaveNow(i) \/ \E f \in Fields : Type(i, f)
  BY <1>1, VisitKeeps, LeaveKeeps, DebounceKeeps, WaitOverKeeps, SaveNowKeeps, TypeKeeps
<1>2. CASE Arrive(i) \/ Unreachable(i) \/ Disturbed(i)
  BY <1>2, ArriveKeeps, UnansweredKeeps
<1>3. CASE Stored(i) \/ Queue(i) \/ Failed(i) \/ Deferred(i) \/ Refused(i)
  BY <1>3, StoredKeeps, QueueKeeps, FailedKeeps, DeferredKeeps, RefusedKeeps
<1>4. CASE TakeTheirsTap(i) \/ KeepTap(i) \/ AskBack(i) \/ AnswerBack(i)
  BY <1>4, TakeTheirsKeeps, KeepTapKeeps, AskBackKeeps, AnswerBackKeeps
<1>. QED
  BY <1>1, <1>2, <1>3, <1>4

(* A step that changes nothing.                                               *)
LEMMA NothingMoves ==
  ASSUME Types, Core, UNCHANGED vars
  PROVE  Core'
<1>1. UNCHANGED <<note, dev, ed, truth>> /\ net' = net
  BY DEF vars
<1>. QED
  BY <1>1, FlushStays

(* Every step.                                                                *)
LEMMA StepIsRight ==
  ASSUME Windows = {}, Inv, [Next]_vars
  PROVE  Inv'
<1>1. Types /\ Types'
  BY StepIsTyped DEF Inv
<1>2. CASE Words \subseteq Given
  BY <1>1, <1>2, GivenStays DEF Inv, Words
<1>3. CASE Core
  <2>1. CASE UNCHANGED vars
    BY <1>1, <1>3, <2>1, NothingMoves DEF Inv
  <2>2. CASE StampNote \/ FileParagraph \/ EditElsewhere \/ CleanBump \/ GoOffline \/ GoOnline \/ Reload
    BY <1>1, <1>3, <2>2, ServerKeeps, ConnectionKeeps, ReloadKeeps DEF Inv
  <2>3. CASE ReadQueue \/ Fetch \/ FlushStart \/ FlushArrive \/ FlushDisturbed \/ FlushSettle
    BY <1>1, <1>3, <2>3, ReadQueueKeeps, FetchKeeps, FlushStartKeeps, FlushArriveKeeps, ConnectionKeeps,
       FlushSettleKeeps DEF Inv
  <2>4. ASSUME NEW i \in Visits,
               \/ Visit(i) \/ Leave(i) \/ Debounce(i) \/ WaitOver(i) \/ SaveNow(i)
               \/ \E f \in Fields : Type(i, f)
               \/ Arrive(i) \/ Unreachable(i) \/ Disturbed(i)
               \/ Stored(i) \/ Queue(i) \/ Failed(i) \/ Deferred(i) \/ Refused(i)
               \/ TakeTheirsTap(i) \/ KeepTap(i) \/ AskBack(i) \/ AnswerBack(i)
        PROVE  Inv'
    <3>1. Words' = Words
      BY DEF Words
    <3>. QED
      BY <1>1, <1>3, <2>4, <3>1, ScreenStep DEF Inv
  <2>. QED
    BY <2>1, <2>2, <2>3, <2>4 DEF Next
<1>. QED
  BY <1>2, <1>3 DEF Inv

(* The inductive invariant holds whenever the windows are closed.             *)
LEMMA Invariance ==
  ASSUME Windows = {}
  PROVE  Spec => []Inv
<1>1. Init => Inv
  BY StartIsTyped, StartIsRight DEF Inv
<1>2. Inv /\ [Next]_vars => Inv'
  BY StepIsRight
<1>. QED
  BY <1>1, <1>2, PTL DEF Spec

-----------------------------------------------------------------------------
(* What it says                                                               *)

(* A word that is found and was not given up is on the note or in the queue.  *)
LEMMA FoundSomewhere ==
  ASSUME Types, NEW g \in Fields, NEW w \in Found(note, dev.q, Given, g), w \notin Given
  PROVE  w \in WordsOf(note.draft) \cup WordsOf(dev.q.patch.set)
BY DEF Types, NoteType, Drafts, Found, Has, WordsOf

(* The invariant keeps what the server had.                                   *)
LEMMA ClobbersNothing ==
  ASSUME Inv
  PROVE  NothingClobbered
<1>1. truth.landed \subseteq Words /\ DOMAIN note.draft = Fields
  BY DEF Inv, Types, TruthType, NoteType, Drafts
<1>2. CASE Core
  BY <1>1, <1>2 DEF Core, OnServer, NothingClobbered, WordsOf, Given
<1>. QED
  BY <1>1, <1>2 DEF Inv, NothingClobbered, Given

(* The invariant keeps what was typed.                                        *)
LEMMA KeepsWords ==
  ASSUME Windows = {}, Inv
  PROVE  WordsKept
<1>1. Types /\ truth.typed \subseteq Words
  BY DEF Inv, Types, TruthType, Words
<1>2. ASSUME Core, NEW w \in truth.typed \ Given
      PROVE  w \in Somewhere \cup LeftBehind
  <2>1. PICK g \in Fields : w \in Found(note, dev.q, Given, g) \cup Drafted(g)
    BY <1>2 DEF Core, AllKept
  <2>2. CASE w \in Found(note, dev.q, Given, g)
    BY <1>1, <1>2, <2>2, FoundSomewhere DEF Somewhere
  <2>3. CASE w \in Drafted(g)
    <3>1. PICK i \in Visits : w \in ed[i].m.draft[g]
      BY <2>3 DEF Drafted
    <3>2. w \in WordsOf(ed[i].m.draft) /\ ed[i].at \in {"out", "open", "gone"}
      BY <1>1, <3>1 DEF Types, EdType, Editors, Models, Drafts, WordsOf
    <3>3. ed[i].at # "out"
      BY <1>2, <3>1 DEF Core, Screens, Unopened, InitialEditor, Note, Blank
    <3>4. CASE ed[i].at = "open"
      BY <3>2, <3>4 DEF Somewhere, Open
    <3>5. CASE ed[i].at = "gone"
      BY <3>2, <3>5 DEF LeftBehind
    <3>. QED
      BY <3>2, <3>3, <3>4, <3>5
  <2>. QED
    BY <2>1, <2>2, <2>3
<1>. QED
  BY <1>1, <1>2 DEF Inv, WordsKept, Given

(* The invariant is what Saved says.                                          *)
LEMMA SavedIsStored ==
  ASSUME Inv
  PROVE  SavedMeansStored
<1>1. Types /\ truth.typed \subseteq Words
  BY DEF Inv, Types, TruthType, Words
<1>2. ASSUME Core, NEW i \in Visits, Open(i),
             ReconcileQueued(ed[i].m, Held(dev.seen)) \in {"clean", "saved", "queued"}
      PROVE  (WordsOf(ed[i].m.draft) \cap truth.typed) \ Given
                \subseteq WordsOf(note.draft) \cup WordsOf(dev.q.patch.set)
  <2>1. Good(ed[i], note, dev.q, Given) /\ ed[i].m \in Models
    BY <1>1, <1>2, ScreenIsGood DEF Open, Acts
  <2>2. ed[i].m.state \in Quiet
    BY <1>2, <2>1 DEF ReconcileQueued, Quiet, Models, SaveStates
  <2>3. Findable(note, dev.q, Given, ed[i].m.draft)
    BY <2>1, <2>2 DEF Good, Sane, SaysSo
  <2>4. ASSUME NEW w \in WordsOf(ed[i].m.draft), w \notin Given
        PROVE  w \in WordsOf(note.draft) \cup WordsOf(dev.q.patch.set)
    <3>1. PICK g \in Fields : w \in ed[i].m.draft[g]
      BY <2>1 DEF WordsOf, Models, Drafts
    <3>. QED
      BY <1>1, <2>3, <2>4, <3>1, FoundSomewhere DEF Findable
  <2>. QED
    BY <2>4
<1>. QED
  BY <1>1, <1>2 DEF Inv, SavedMeansStored, Given

(* Whatever the number of words, screens, mishaps and news: a word that       *)
(* reached the server, typed here, filed by a recording or written on         *)
(* another device, stays there until somebody who was shown it gives it up.   *)
(* A save, a flushed edit, a merge of the two and a rebase write over no      *)
(* copy they do not know (useNoteEditor.ts, queue.ts, UpdateNote).            *)
THEOREM NothingClobberedAlways ==
  ASSUME Windows = {}
  PROVE  Spec => []NothingClobbered
BY Invariance, ClobbersNothing, PTL

(* A word typed and not given up is on the server, in the queue, on a screen  *)
(* that still sends it, or on one left with its save refused or failed: no    *)
(* acknowledgement, reload, forgotten entry or copy adopted from the cache    *)
(* drops it (useNoteEditor.ts, noteEditorModel.ts, queue.ts).                 *)
THEOREM WordsKeptAlways ==
  ASSUME Windows = {}
  PROVE  Spec => []WordsKept
BY Invariance, KeepsWords, PTL

(* A screen that says Saved, waiting to sync, or nothing, holds no word that  *)
(* is not on the server or in the queue: what the status line promises when   *)
(* the person closes it (noteEditorModel.ts reconcileQueued).                 *)
THEOREM SavedMeansStoredAlways ==
  ASSUME Windows = {}
  PROVE  Spec => []SavedMeansStored
BY Invariance, SavedIsStored, PTL

-----------------------------------------------------------------------------
(* A retired edit is kept                                                     *)

(* Sent again, it is on the screen, unsaved.                                  *)
LEMMA AskedBackIsUnsaved ==
  ASSUME Windows = {}, Types, Core, NEW i \in Visits, AnswerBack(i), dev'.q # dev.q
  PROVE  Unsaved(i)' /\ \A g \in Fields : Has(dev.q, g) \subseteq ed'[i].m.draft[g]
<1>. DEFINE e == [ed[i] EXCEPT !.asking = FALSE]
            m == ed[i].m
            c == Conflict(m, HeldOver(m.draft), note)
            x == [e EXCEPT !.m = KeepMine(c)]
            b == Save(x, Rendered)
<1>1. /\ ed[i].at = "open" /\ Idle(ed[i]) /\ ed[i] \in Editors /\ m \in Models /\ m.draft \in Drafts
  BY AskingIsGood DEF AnswerBack, Models
<1>2. e \in Editors /\ e.at = "open" /\ e.fly = ed[i].fly /\ e.m = m
  BY <1>1 DEF Editors
<1>3. HeldOver(m.draft) \in Drafts
  BY <1>1, OverADraft, EntriesAreEntries DEF HeldOver, Types, DevType, Patches
<1>4. KeepMine(c) \in Models /\ c.draft = HeldOver(m.draft)
  BY <1>1, <1>3, ConflictLooks, ChoicesAreModels DEF Types, NoteType
<1>5. KeepMine(c).draft = HeldOver(m.draft) /\ KeepMine(c).state = "dirty"
  BY <1>1, <1>3, <1>4, ChoicesAreModels DEF KeepMine, Models
<1>6. Set(i, b)
  BY <1>2 DEF AnswerBack
<1>. HIDE DEF e, c
<1>7. x \in Editors /\ x.at = "open" /\ x.m = KeepMine(c) /\ Idle(x)
  BY <1>1, <1>2, <1>4 DEF Editors, Idle
<1>8. Turn(i, b)
  BY <1>6, SetTurns
<1>. HIDE DEF x
<1>9. b.at = "open" /\ b.m.draft = HeldOver(m.draft) /\ b.fly.pc = "sent"
  BY <1>5, <1>7, SaveLooks
<1>10. b.m.state = "saving"
  BY <1>5, <1>7 DEF Save, Begin, Idle, SaveStart, Editors, Models
<1>. HIDE DEF b
<1>11. ed'[i] = b
  BY <1>8, <1>9 DEF Turn, Rested
<1>12. Unsaved(i)'
  BY <1>9, <1>10, <1>11 DEF Unsaved, Open, HasUnsavedWork
<1>13. \A g \in Fields : Has(dev.q, g) \subseteq HeldOver(m.draft)[g]
  BY <1>1, HeldOverLooks DEF Has
<1>. QED
  BY <1>9, <1>11, <1>12, <1>13

(* Given up for the server's copy, it was on the screen beside it.            *)
LEMMA TakenIsGivenUp ==
  ASSUME Types, Core, NEW i \in Visits, TakeTheirsTap(i)
  PROVE  \A g \in Fields : Has(dev.q, g) \subseteq note.draft[g] \cup Given'
<1>1. ed[i].m.state = "conflict" /\ Sane(ed[i], note, dev.q, Given)
  BY ScreenIsGood DEF TakeTheirsTap, Open, Acts, Good
<1>2. Given' = Given \cup Missing(ed[i].m.draft, ed[i].m.theirs.draft)
  BY DEF TakeTheirsTap, Gives, Types, TruthType, Given
<1>. QED
  BY <1>1, <1>2 DEF Sane, Chooses, Missing

(* How an edit leaves the queue: on the note, given up, or unsaved on the     *)
(* screen.                                                                    *)
LEMMA RetiredLeaves ==
  ASSUME Windows = {}, Types, Types', Core, Next, dev.q # NoEntry, dev'.q = NoEntry
  PROVE  \/ note' = note /\ \A g \in Fields : Has(dev.q, g) \subseteq note.draft[g] \cup Given'
         \/ \E i \in Visits : Unsaved(i)' /\ \A g \in Fields : Has(dev.q, g) \subseteq ed'[i].m.draft[g]
<1>1. CASE \E i \in Visits : Stored(i)
  <2>1. PICK i \in Visits : Stored(i)
    BY <1>1
  <2>. DEFINE d == IF ed[i].fly.sees.seen = Read(NoEntry) THEN dev ELSE Forget(ed[i].fly.sees.seen)
  <2>2. /\ ed[i].fly.pc = "stored" /\ UNCHANGED <<note, truth>>
        /\ dev' = [d EXCEPT !.cache = Note(ed[i].fly.sent, ed[i].fly.patch.ver + 1)]
    BY <2>1 DEF Stored
  <2>3. /\ d \in [q : Entries, seen : Seens, cache : Notes, keys : Nat] /\ Settles(dev.q, d.q, note, Given)
    BY <2>2, ForgetSettles
  <2>. HIDE DEF d
  <2>4. d.q = NoEntry
    BY <2>2, <2>3
  <2>. QED
    BY <2>2, <2>3, <2>4 DEF Settles, Given
<1>2. CASE \E i \in Visits : Queue(i)
  <2>1. PICK i \in Visits : Queue(i)
    BY <1>2
  <2>2. dev'.q = Enqueued(ed[i].fly.patch)
    BY <2>1 DEF Queue
  <2>3. ed[i].fly.patch \in Patches /\ dev.q \in Entries /\ dev.keys \in Nat
    BY DEF Types, EdType, DevType, Editors, Flights
  <2>. QED
    BY <2>2, <2>3, EnqueuedLooks
<1>3. CASE \E i \in Visits : TakeTheirsTap(i)
  BY <1>3, TakenIsGivenUp DEF TakeTheirsTap
<1>4. CASE \E i \in Visits : AnswerBack(i)
  BY <1>4, AskedBackIsUnsaved
<1>5. CASE FlushSettle
  <2>1. /\ UNCHANGED <<note, truth>> /\ net.flush.pc # "idle" /\ dev'.q = Settle(Outcome)
    BY <1>5 DEF FlushSettle, Types, DevType
  <2>2. net.flush.entry.key \in 1..dev.keys /\ (net.flush.pc = "stored" => net.flush.entry.key \in note.done)
    BY <2>1 DEF Core, FlushInv
  <2>3. NoEntry.key = 0
    BY DEF NoEntry
  <2>4. dev.q.key = net.flush.entry.key /\ net.flush.pc = "stored"
    BY <2>1, <2>2, <2>3 DEF Settle, Outcome, Types, NetType, Entries
  <2>5. \A g \in DOMAIN Q : Q[g] \subseteq note.draft[g] \cup Given
    BY <2>2, <2>4 DEF Core, Aware
  <2>. QED
    BY <2>1, <2>5 DEF Has, Q, Given
<1>6. CASE dev'.q = dev.q
  BY <1>6
<1>7. CASE StampNote \/ FileParagraph \/ EditElsewhere \/ CleanBump \/ GoOffline \/ GoOnline \/ Reload
           \/ ReadQueue \/ Fetch \/ FlushStart \/ FlushArrive \/ FlushDisturbed
  <2>1. dev'.q = dev.q
    BY <1>7 DEF StampNote, FileParagraph, EditElsewhere, CleanBump, GoOffline, GoOnline, Reload, ReadQueue, Fetch,
       FlushStart, FlushArrive, FlushDisturbed, Types, DevType
  <2>. QED
    BY <1>6, <2>1
<1>8. CASE \E i \in Visits :
              \/ Visit(i) \/ Leave(i) \/ Debounce(i) \/ WaitOver(i) \/ SaveNow(i)
              \/ \E f \in Fields : Type(i, f)
              \/ Arrive(i) \/ Unreachable(i) \/ Disturbed(i)
              \/ Failed(i) \/ Deferred(i) \/ Refused(i) \/ KeepTap(i) \/ AskBack(i)
  <2>1. dev' = dev
    BY <1>8 DEF Visit, Leave, Debounce, WaitOver, SaveNow, Type, Arrive, Unreachable, Disturbed, Failed, Deferred,
       Refused, KeepTap, AskBack
  <2>. QED
    BY <1>6, <2>1
<1>. QED
  BY <1>1, <1>2, <1>3, <1>4, <1>5, <1>7, <1>8 DEF Next

(* So a retired one does.                                                     *)
LEMMA KeepsRetired ==
  ASSUME Windows = {}, Inv, [Next]_vars, IsDead(dev.q), dev'.q = NoEntry
  PROVE  (WordsOf(dev.q.patch.set) \cap truth.typed) \ truth'.given \subseteq
              WordsOf(note'.draft) \cup UNION {WordsOf(ed[i].m.draft)' : i \in {j \in Visits : Unsaved(j)'}}
<1>1. Types /\ Types' /\ Given \subseteq Given' /\ truth.typed \subseteq Words
  BY StepIsTyped, GivenStays DEF Inv, Types, TruthType, Words
<1>2. dev.q # NoEntry
  BY BoundsAssumption DEF IsDead, NoEntry
<1>3. Next
  BY <1>2 DEF vars
<1>4. CASE Words \subseteq Given
  BY <1>1, <1>4 DEF Given
<1>5. CASE Core
  <2>. SUFFICES ASSUME NEW w \in WordsOf(dev.q.patch.set), w \notin Given'
                PROVE  w \in WordsOf(note'.draft) \cup
                               UNION {WordsOf(ed[i].m.draft)' : i \in {j \in Visits : Unsaved(j)'}}
    BY DEF Given
  <2>1. PICK g \in Fields : w \in Has(dev.q, g)
    BY <1>1, SetsHaveFields, EntriesAreEntries DEF WordsOf, Has, Types, DevType, Patches
  <2>2. CASE note' = note /\ \A h \in Fields : Has(dev.q, h) \subseteq note.draft[h] \cup Given'
    <3>1. w \in note'.draft[g] /\ DOMAIN note'.draft = Fields
      BY <1>1, <2>1, <2>2 DEF Types, NoteType, Drafts
    <3>. QED
      BY <3>1 DEF WordsOf
  <2>3. CASE \E i \in Visits : Unsaved(i)' /\ \A h \in Fields : Has(dev.q, h) \subseteq ed'[i].m.draft[h]
    <3>1. PICK i \in Visits : Unsaved(i)' /\ \A h \in Fields : Has(dev.q, h) \subseteq ed'[i].m.draft[h]
      BY <2>3
    <3>2. DOMAIN ed'[i].m.draft = Fields
      BY <1>1 DEF Types, EdType, Editors, Models, Drafts
    <3>3. w \in WordsOf(ed[i].m.draft)'
      BY <2>1, <3>1, <3>2 DEF WordsOf
    <3>. QED
      BY <3>1, <3>3
  <2>. QED
    BY <1>1, <1>2, <1>3, <1>5, <2>2, <2>3, RetiredLeaves
<1>. QED
  BY <1>4, <1>5 DEF Inv

(* An edit the queue retired leaves it only when its words are on the         *)
(* server, unsaved on the open screen, or given up: the promise of            *)
(* queue.ts, which holds of every behaviour with the windows closed; run      *)
(* retired_edit shows what opening "retired" does to it.                      *)
THEOREM RetiredIsKeptAlways ==
  ASSUME Windows = {}
  PROVE  Spec => RetiredIsKept
<1>1. Inv /\ [Next]_vars =>
         [IsDead(dev.q) /\ dev'.q = NoEntry =>
            (WordsOf(dev.q.patch.set) \cap truth.typed) \ truth'.given \subseteq
              WordsOf(note'.draft) \cup UNION {WordsOf(ed[i].m.draft)' : i \in {j \in Visits : Unsaved(j)'}}]_vars
  BY KeepsRetired
<1>. QED
  BY <1>1, Invariance, PTL DEF Spec, RetiredIsKept
=============================================================================
