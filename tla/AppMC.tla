------------------------------- MODULE AppMC -------------------------------
(* The app in the browser, part by part. What it keeps on the device and says *)
(* to the API: the session and its tokens, the notes in IndexedDB, the cached *)
(* lists, the captures being filed, the question asked, the push subscription.*)
(* What a note's screens do under a person's fingers: the Cleaned tab and the *)
(* tidy, batches of recordings, a recording's player, the checklist, the hold *)
(* to talk, the gestures that share one touch. The parts share no state here, *)
(* so one is checked after another: `part` says which this behaviour is of,   *)
(* and its variables are the registers, in the order its module declares them.*)
EXTENDS Integers, FiniteSets

CONSTANTS
  Parts, Windows,                                                   \* of the parts all
  Requests, Writes, MaxRetries, MaxFlows, MaxClock, SessionMishaps, \* the session
  Tabs, MaxEnds, MaxLaunches, MaxPresses, PushMishaps,              \* the push subscription
  Captures, MaxReads, MaxRuns, MaxEvents,                           \* the player
  TouchRows, LastTab, MaxTouches, MaxMoves                          \* the gestures of one touch

VARIABLES
  part, r1, r2, r3, r4, r5, r6, r7, r8, r9, r10, r11, r12, r13, r14, r15, r16, r17, r18, r19, r20,
  r21

all == <<part, r1, r2, r3, r4, r5, r6, r7, r8, r9, r10, r11, r12, r13, r14, r15, r16, r17, r18,
        r19, r20, r21>>

Se == INSTANCE Session_proofs WITH
  clock <- r1, mishaps <- r2, tokens <- r3, stored <- r4, generation <- r5, inFlight <- r6,
  air <- r7, req <- r8, acted <- r9, grants <- r10, revoking <- r11, refuses <- r12, where <- r13,
  flow <- r14, asked <- r15, pending <- r16, code <- r17, device <- r18, leaving <- r19,
  wiped <- r20, ended <- r21, MaxMishaps <- SessionMishaps

De == INSTANCE DeviceNotes WITH
  server <- r1, device <- r2, answers <- r3, told <- r4, idle <- r5, pass <- r6, arrived <- r7,
  attempted <- r8, gaveUp <- r9, session <- r10, wiped <- r11, forgotten <- r12,
  Notes <- {"a", "b"}, Moving <- {"a"}, MaxReads <- 2, MaxVersion <- 2

Li == INSTANCE NoteLists WITH
  vault <- r1, lists <- r2, shown <- r3, taps <- r4, toast <- r5, mishaps <- r6, behind <- r7,
  foreign <- r8, refusedOwn <- r9, Notes <- {1, 2}, Colours <- {"none", "red", "blue"}, MaxTaps <- 2,
  MaxMishaps <- 1

Fi == INSTANCE Filing WITH
  server <- r1, text <- r2, local <- r3, list <- r4, poll <- r5, waiting <- r6, owed <- r7,
  copy <- r8, read <- r9, asked <- r10, stored <- r11, mine <- r12, screen <- r13, watch <- r14,
  landed <- r15, events <- r16, closed <- r17, erased <- r18, Captures <- {1, 2}, Own <- 2,
  Targeted <- {}, ListLimit <- 1, MaxEvents <- 1

As == INSTANCE Ask WITH
  turns <- r1, saved <- r2, home <- r3, homes <- r4, posts <- r5, keyed <- r6, rows <- r7,
  cache <- r8, saves <- r9, coined <- r10, mishaps <- r11, old <- r12, heard <- r13, kept <- r14,
  MaxKeys <- 2, MaxHomes <- 2, MaxMishaps <- 2

Pu == INSTANCE Push_proofs WITH
  held <- r1, live <- r2, rows <- r3, wanted <- r4, permission <- r5, coined <- r6, tabs <- r7,
  jobs <- r8, launches <- r9, presses <- r10, mishaps <- r11, chosen <- r12,
  MaxMishaps <- PushMishaps

Cl == INSTANCE NoteClean WITH
  note <- r1, runs <- r2, copy <- r3, editor <- r4, save <- r5, tidy <- r6, panel <- r7,
  calls <- r8, read <- r9, undo <- r10, here <- r11, acts <- r12, mishaps <- r13, given <- r14,
  needless <- r15, Typed <- {"typed"}, ProseModes <- {"structured"}, MaxCalls <- 1, MaxActs <- 1,
  MaxMishaps <- 1

Re == INSTANCE Recordings WITH
  place <- r1, filing <- r2, made <- r3, rows <- r4, screen <- r5, selecting <- r6, chosen <- r7,
  pending <- r8, notice <- r9, sheet <- r10, batch <- r11, latest <- r12, faults <- r13,
  strayed <- r14, picked <- r15, Captures <- {1, 2}, MaxBatches <- 2, MaxFaults <- 1

Py == INSTANCE Player_proofs WITH
  server <- r1, rows <- r2, open <- r3, auto <- r4, art <- r5, read <- r6, err <- r7, want <- r8,
  el <- r9, heard <- r10, hook <- r11, reads <- r12, events <- r13

Ch == INSTANCE Checklist WITH
  body <- r1, held <- r2, drag <- r3, toast <- r4, coined <- r5, edits <- r6, MaxDepth <- 2,
  FirstLines <- 3, MaxLines <- 4, MaxEdits <- 2

Ho == INSTANCE HoldToTalk WITH
  gesture <- r1, fingers <- r2, tracked <- r3, permission <- r4, take <- r5, swallow <- r6,
  click <- r7, screen <- r8, presses <- r9, mishaps <- r10, recordings <- r11, left <- r12,
  MaxPresses <- 3, MaxMishaps <- 2

To == INSTANCE Touch_proofs WITH
  tab <- r1, asked <- r2, selecting <- r3, atTop <- r4, touch <- r5, rows <- r6, openRow <- r7,
  press <- r8, swallow <- r9, region <- r10, enter <- r11, panel <- r12, pull <- r13, Rows <- TouchRows

\* Registers past the k-th, of a part that has k variables.
Blank18 == r19 = "" /\ r20 = "" /\ r21 = ""
Past18 == <<r19, r20, r21>>
Blank15 == r16 = "" /\ r17 = "" /\ r18 = "" /\ Blank18
Past15 == <<r16, r17, r18, r19, r20, r21>>
Blank14 == r15 = "" /\ Blank15
Past14 == <<r15, r16, r17, r18, r19, r20, r21>>
Blank13 == r14 = "" /\ Blank14
Past13 == <<r14, r15, r16, r17, r18, r19, r20, r21>>
Blank12 == r13 = "" /\ Blank13
Past12 == <<r13, r14, r15, r16, r17, r18, r19, r20, r21>>
Blank9 == r10 = "" /\ r11 = "" /\ r12 = "" /\ Blank12
Past9 == <<r10, r11, r12, r13, r14, r15, r16, r17, r18, r19, r20, r21>>
Blank6 == r7 = "" /\ r8 = "" /\ r9 = "" /\ Blank9
Past6 == <<r7, r8, r9, r10, r11, r12, r13, r14, r15, r16, r17, r18, r19, r20, r21>>

Init ==
  /\ part \in Parts
  /\ \/ part = "session" /\ Se!Init
     \/ part = "cache" /\ De!DevInit /\ Blank12
     \/ part = "lists" /\ Li!ListsInit /\ Blank9
     \/ part = "filing" /\ Fi!FilingInit /\ Blank18
     \/ part = "ask" /\ As!AskInit /\ Blank14
     \/ part = "push" /\ Pu!PushInit /\ Blank12
     \/ part = "clean" /\ Cl!CleanInit /\ Blank15
     \/ part = "batches" /\ Re!BatchesInit /\ Blank15
     \/ part = "player" /\ Py!PlayerInit /\ Blank13
     \/ part = "checklist" /\ Ch!ListInit /\ Blank6
     \/ part = "hold" /\ Ho!HoldInit /\ Blank12
     \/ part = "touch" /\ To!TouchInit /\ Blank13

Next ==
  \/ part = "session" /\ Se!Next /\ UNCHANGED part
  \/ part = "cache" /\ De!DevNext /\ UNCHANGED <<part, Past12>>
  \/ part = "lists" /\ Li!ListsNext /\ UNCHANGED <<part, Past9>>
  \/ part = "filing" /\ Fi!FilingNext /\ UNCHANGED <<part, Past18>>
  \/ part = "ask" /\ As!AskNext /\ UNCHANGED <<part, Past14>>
  \/ part = "push" /\ Pu!PushNext /\ UNCHANGED <<part, Past12>>
  \/ part = "clean" /\ Cl!CleanNext /\ UNCHANGED <<part, Past15>>
  \/ part = "batches" /\ Re!BatchesNext /\ UNCHANGED <<part, Past15>>
  \/ part = "player" /\ Py!PlayerNext /\ UNCHANGED <<part, Past13>>
  \/ part = "checklist" /\ Ch!ListNext /\ UNCHANGED <<part, Past6>>
  \/ part = "hold" /\ Ho!HoldNext /\ UNCHANGED <<part, Past12>>
  \/ part = "touch" /\ To!TouchNext /\ UNCHANGED <<part, Past13>>

Spec == Init /\ [][Next]_all

(* The session: one signed out of never comes back, one kept is lost only to  *)
(* a sign-out or Cognito's refusal and can always renew; concurrent 401s make *)
(* one refresh; a write resent acts once, one given up is not sent again; the *)
(* answer to a sign-in is redeemed after a kill; signed out, nothing of that  *)
(* person's is left on the device.                                            *)
SessionHolds ==
  /\ [](part = "session" => Se!SessionInv)
  /\ [][part = "session" => Se!SessionStep]_all

(* The notes in IndexedDB: with the prefetch at rest every row it could fill  *)
(* in was asked for; a body is given up only for a newer note, a purge or a   *)
(* sign-out; what was wiped or forgotten is not written back.                 *)
CacheKeepsUp ==
  /\ [](part = "cache" => De!CacheInv)
  /\ [][part = "cache" => De!RowsKeepBodies]_all

(* The cached lists: no write is refused for a version this device's own      *)
(* writes moved, a note is not left rendered in two lists, a row is never of  *)
(* a colour the server did not take, and an Undo puts a pinned note back      *)
(* among the pinned.                                                          *)
ListsAgree ==
  /\ [](part = "lists" => Li!ListsInv)
  /\ [][part = "lists" => Li!UndoRestoresPlace]_all

(* What Home and an open note say of a recording being filed: from Send to    *)
(* the server's row it has a row on Home, one put away stays away, none is    *)
(* called appended over the body from before it, and its paragraph reaches    *)
(* the note's copy.                                                           *)
FilingIsTold ==
  /\ [](part = "filing" => Fi!FilingInv)
  /\ [][part = "filing" => Fi!LandedIsThere]_all

(* The question: one at a time is waited for, a key is never sent with two    *)
(* bodies, Try again does not pay for an answer twice, an answer is put in    *)
(* one note, and what is being waited for is not thrown away.                 *)
AskedOnce ==
  /\ [](part = "ask" => As!AskInv)
  /\ [][part = "ask" => As!AskStep]_all

(* Push: tabs that enrol at once do not drop each other's working             *)
(* subscription, and a browser switched off holds none.                       *)
PushIsKept ==
  /\ [](part = "push" => Pu!PushInv)
  /\ [][part = "push" => Pu!WorkingIsNotDropped]_all

(* The Cleaned tab and the tidy: no word is lost to a tidy, a view not marked *)
(* stale is of the note's body, a run gives way only to a newer request and   *)
(* none writes over a newer one's verdict, and a tidied list is not refused   *)
(* for what brought it.                                                       *)
TidyIsSafe ==
  /\ [](part = "clean" => Cl!CleanInv)
  /\ [][part = "clean" => Cl!CleanStep]_all

(* Batches of recordings: those moved into one new note make one note,        *)
(* whatever was refused is said on the panel it was asked on, and a batch     *)
(* said to have gone well has.                                                *)
BatchesAreTold ==
  /\ [](part = "batches" => Re!BatchesInv)
  /\ [][part = "batches" => Re!FailureIsSaid /\ Re!SaidIsSo]_all

(* A recording's player: under a settled row is its own run's transcript, the *)
(* controls say what the audio element does, and only what the store let go   *)
(* is said to be lost.                                                        *)
PlayerIsTrue ==
  part = "player" => Py!PlayerIsTrue

(* The checklist: words leave it only by the act that names them, what the    *)
(* editor writes is read back as written, a done line has no open line under  *)
(* it, a drag holds the row it lifted and its preview is what the release     *)
(* writes.                                                                    *)
ListKeepsItsWords ==
  /\ [](part = "checklist" => Ch!ListInv)
  /\ [][part = "checklist" => Ch!WordsSurvive]_all

(* Hold to talk: an open microphone is under a finger or on the capture       *)
(* screen, one press makes one recording at most, the capture screen is never *)
(* a dead one, and a long message is thrown away only on purpose.             *)
HoldIsKept ==
  /\ [](part = "hold" => Ho!HoldInv)
  /\ [][part = "hold" => Ho!LongTalkIsKept]_all

(* One touch and four hooks: it does one thing, one tray is open at a time,   *)
(* the panel and the pull's line stand only under a finger or over work that  *)
(* runs, and a tap on a row does what a tap does.                             *)
TouchIsOneThing ==
  part = "touch" => To!TouchIsOneThing
=============================================================================
