------------------------------ MODULE WaitsMC ------------------------------
(* Everything the app says it is doing, it finishes: the waits of the         *)
(* session, the lists, the filing rows, the question, the tidy, the move      *)
(* sheet and the note's save, part by part as in AppMC, under the fairness    *)
(* each part's module states.                                                 *)
EXTENDS Integers, FiniteSets

VARIABLES
  part, r1, r2, r3, r4, r5, r6, r7, r8, r9, r10, r11, r12, r13, r14, r15, r16, r17, r18, r19, r20,
  r21

all == <<part, r1, r2, r3, r4, r5, r6, r7, r8, r9, r10, r11, r12, r13, r14, r15, r16, r17, r18,
        r19, r20, r21>>

Se == INSTANCE Session WITH
  clock <- r1, mishaps <- r2, tokens <- r3, stored <- r4, generation <- r5, inFlight <- r6,
  air <- r7, req <- r8, acted <- r9, grants <- r10, revoking <- r11, refuses <- r12, where <- r13,
  flow <- r14, asked <- r15, pending <- r16, code <- r17, device <- r18, leaving <- r19,
  wiped <- r20, ended <- r21, Requests <- {"read", "write"}, Writes <- {"write"}, MaxRetries <- 1,
  MaxFlows <- 1, MaxClock <- 3, MaxMishaps <- 1, Windows <- {}

Li == INSTANCE NoteLists WITH
  vault <- r1, lists <- r2, shown <- r3, taps <- r4, toast <- r5, mishaps <- r6, behind <- r7,
  foreign <- r8, refusedOwn <- r9, Notes <- {1, 2}, Colours <- {"none", "red"}, MaxTaps <- 2,
  MaxMishaps <- 1, Windows <- {}

Fi == INSTANCE Filing WITH
  server <- r1, text <- r2, local <- r3, list <- r4, poll <- r5, waiting <- r6, owed <- r7,
  copy <- r8, read <- r9, asked <- r10, stored <- r11, mine <- r12, screen <- r13, watch <- r14,
  landed <- r15, events <- r16, closed <- r17, erased <- r18, Captures <- {1, 2}, Own <- 2,
  Targeted <- {2}, ListLimit <- 1, MaxEvents <- 0, Windows <- {}

As == INSTANCE Ask WITH
  turns <- r1, saved <- r2, home <- r3, homes <- r4, posts <- r5, keyed <- r6, rows <- r7,
  cache <- r8, saves <- r9, coined <- r10, mishaps <- r11, old <- r12, heard <- r13, kept <- r14,
  MaxKeys <- 2, MaxHomes <- 2, MaxMishaps <- 1, Windows <- {}

Cl == INSTANCE NoteClean WITH
  note <- r1, runs <- r2, copy <- r3, editor <- r4, save <- r5, tidy <- r6, panel <- r7,
  calls <- r8, read <- r9, undo <- r10, here <- r11, acts <- r12, mishaps <- r13, given <- r14,
  needless <- r15, Typed <- {"typed"}, ProseModes <- {"structured"}, MaxCalls <- 1, MaxActs <- 0,
  MaxMishaps <- 1, Windows <- {}

Re == INSTANCE Recordings WITH
  place <- r1, filing <- r2, made <- r3, rows <- r4, screen <- r5, selecting <- r6, chosen <- r7,
  pending <- r8, notice <- r9, sheet <- r10, batch <- r11, latest <- r12, faults <- r13,
  strayed <- r14, picked <- r15, Captures <- {1, 2}, MaxBatches <- 1, MaxFaults <- 0, Windows <- {}

No == INSTANCE NoteSync WITH
  note <- r1, dev <- r2, ed <- r3, net <- r4, truth <- r5, left <- r6, Own <- {1},
  Paragraph <- 11, Elsewhere <- 12, Visits <- {1, 2}, MaxAttempts <- 2, WaitLimit <- 1,
  MaxMishaps <- 2, MaxNews <- 1, Windows <- {}

\* Registers past the k-th, of a part that has k variables.
Blank18 == r19 = "" /\ r20 = "" /\ r21 = ""
Past18 == <<r19, r20, r21>>
Blank15 == r16 = "" /\ r17 = "" /\ r18 = "" /\ Blank18
Past15 == <<r16, r17, r18, r19, r20, r21>>
Blank14 == r15 = "" /\ Blank15
Past14 == <<r15, r16, r17, r18, r19, r20, r21>>
Blank9 == r10 = "" /\ r11 = "" /\ r12 = "" /\ r13 = "" /\ r14 = "" /\ Blank14
Past9 == <<r10, r11, r12, r13, r14, r15, r16, r17, r18, r19, r20, r21>>
Blank6 == r7 = "" /\ r8 = "" /\ r9 = "" /\ Blank9
Past6 == <<r7, r8, r9, r10, r11, r12, r13, r14, r15, r16, r17, r18, r19, r20, r21>>

Init ==
  \/ part = "session" /\ Se!Init
  \/ part = "lists" /\ Li!ListsInit /\ Blank9
  \/ part = "filing" /\ Fi!FilingInit /\ Blank18
  \/ part = "ask" /\ As!AskInit /\ Blank14
  \/ part = "clean" /\ Cl!CleanInit /\ Blank15
  \/ part = "batches" /\ Re!BatchesInit /\ Blank15
  \/ part = "note" /\ No!Init /\ Blank6

Next ==
  \/ part = "session" /\ Se!Next /\ UNCHANGED part
  \/ part = "lists" /\ Li!ListsNext /\ UNCHANGED <<part, Past9>>
  \/ part = "filing" /\ Fi!FilingNext /\ UNCHANGED <<part, Past18>>
  \/ part = "ask" /\ As!AskNext /\ UNCHANGED <<part, Past14>>
  \/ part = "clean" /\ Cl!CleanNext /\ UNCHANGED <<part, Past15>>
  \/ part = "batches" /\ Re!BatchesNext /\ UNCHANGED <<part, Past15>>
  \/ part = "note" /\ No!Next /\ UNCHANGED <<part, Past6>>

Spec == Init /\ [][Next]_all

\* A step of one part.
OfSession(A) == part = "session" /\ A /\ UNCHANGED part
OfLists(A) == part = "lists" /\ A /\ UNCHANGED <<part, Past9>>
OfFiling(A) == part = "filing" /\ A /\ UNCHANGED <<part, Past18>>
OfAsk(A) == part = "ask" /\ A /\ UNCHANGED <<part, Past14>>
OfClean(A) == part = "clean" /\ A /\ UNCHANGED <<part, Past15>>
OfBatches(A) == part = "batches" /\ A /\ UNCHANGED <<part, Past15>>
OfNote(A) == part = "note" /\ A /\ UNCHANGED <<part, Past6>>

\* The fairness each part's module states, of that part's behaviours.
Fairness ==
  /\ \A r \in {"read", "write"} : /\ WF_all(OfSession(Se!Wake(r)))
                               /\ WF_all(OfSession(Se!Answered(r) \/ Se!Unauthorized(r) \/ Se!Lost(r)))
  /\ \A i \in Se!Airs : WF_all(OfSession(Se!RefreshStep(i)))
  /\ WF_all(OfSession(Se!Wiped)) /\ WF_all(OfSession(Se!Depart))
  /\ WF_all(OfSession(Se!Redirect)) /\ WF_all(OfSession(Se!Exchanged \/ Se!ExchangeFails))
  /\ \A k \in Li!Taps : WF_all(OfLists(Li!Serve(k) \/ Li!Fails(k) \/ Li!Answered(k)))
  /\ \A l \in Li!Lists : WF_all(OfLists(Li!ReadServed(l) \/ Li!ReadLands(l)))
  /\ WF_all(OfFiling(Fi!PollAsks)) /\ WF_all(OfFiling(Fi!PollServed)) /\ WF_all(OfFiling(Fi!PollLands))
  /\ WF_all(OfFiling(Fi!WaitingLands)) /\ WF_all(OfFiling(Fi!ReadServed))
  /\ WF_all(OfFiling(Fi!ReadLands)) /\ WF_all(OfFiling(Fi!Focus))
  /\ \A c \in {1, 2} : WF_all(OfFiling(Fi!Asks(c))) /\ WF_all(OfFiling(Fi!Answered(c)))
  /\ WF_all(OfAsk(As!Request)) /\ WF_all(OfAsk(As!GivesUp))
  /\ \A k \in As!Keys : WF_all(OfAsk(As!HandlingEnds(k)))
  /\ WF_all(OfClean(Cl!Autosave \/ Cl!PatchBody \/ Cl!PatchRow \/ Cl!SaveLands \/ Cl!SaveRefused))
  /\ WF_all(OfClean(Cl!ReadLands)) /\ WF_all(OfClean(Cl!MinuteUp)) /\ WF_all(OfClean(Cl!Poll(TRUE)))
  /\ \A k \in Cl!Calls : WF_all(OfClean(Cl!TidyAsks(k) \/ Cl!Serve(k)))
  /\ \A b \in Re!Batches : WF_all(OfBatches(Re!Runs(b)))
  /\ WF_all(OfNote(No!FileParagraph)) /\ WF_all(OfNote(No!ReadQueue))
  /\ WF_all(OfNote(No!FlushStart)) /\ WF_all(OfNote(No!FlushArrive \/ No!FlushDisturbed))
  /\ WF_all(OfNote(No!FlushSettle))
  /\ \A i \in {1, 2} :
       /\ WF_all(OfNote(No!Debounce(i))) /\ WF_all(OfNote(No!WaitOver(i)))
       /\ WF_all(OfNote(No!Arrive(i) \/ No!Unreachable(i)))
       /\ WF_all(OfNote(No!Stored(i) \/ No!Queue(i) \/ No!Failed(i) \/ No!Deferred(i) \/ No!Refused(i)))
       /\ WF_all(OfNote(No!AskBack(i))) /\ WF_all(OfNote(No!AnswerBack(i)))

FairSpec == Spec /\ Fairness

(* What was asked for is answered: every request and the sign-in or sign-out  *)
(* it waits on end, a question on the screen stops waiting, a save is         *)
(* answered, and with a connection a queued edit is stored, or retired and    *)
(* put to the person (client.ts, session.ts, useAskThread.ts,                 *)
(* useNoteEditor.ts, editQueue.ts).                                           *)
WorkEnds ==
  /\ \A r \in {"read", "write"} : []<>(part = "session" => Se!Over(r))
  /\ []<>(part = "session" => Se!GateIsOpen)
  /\ \A k \in As!Keys : []<>(part = "ask" => ~As!WaitedFor(k))
  /\ \A i \in {1, 2} : []<>(part = "note" => No!SaveDone(i))
  /\ <>[](part = "note" /\ r4.online) =>
       /\ []<>(part = "note" => No!Drained)
       /\ \A i \in {1, 2} : []<>(part = "note" => No!PutToPerson(i))

(* What a screen says is under way stops being said: the rows come to be the  *)
(* server's, a recording that waits on the person is drawn, the note's banner *)
(* does not go on filing what is filed, Tidying... and Rewriting... go, and   *)
(* the move sheet closes or says why not (notes.ts, captures.ts,              *)
(* useTidyList.ts, Recordings.tsx).                                           *)
ScreensSettle ==
  /\ <>[](part = "lists" => Li!RowsAreRight)
  /\ []<>(part = "filing" => Fi!Seen(1))
  /\ \A c \in {1, 2} : []<>(part = "filing" => Fi!BannerIsRight(c))
  /\ []<>(part = "clean" => Cl!NotTidying) /\ []<>(part = "clean" => Cl!NotQueued)
  /\ []<>(part = "batches" => Re!SheetIsOver)
=============================================================================
