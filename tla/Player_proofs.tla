--------------------------- MODULE Player_proofs ---------------------------
(***************************************************************************)
(* The open row of the Recordings tab, for any number of recordings,       *)
(* answers, runs and mishaps: everything AppMC checks of it.               *)
(***************************************************************************)
EXTENDS Player, TLAPS

Bounds == None \notin Captures /\ MaxReads \in Nat /\ MaxRuns \in Nat /\ MaxEvents \in Nat

-----------------------------------------------------------------------------
(* The types *)

Records == [st : {"settled", "moving"}, run : Nat, ver : Versions, audio : BOOLEAN]
Arts == [st : {"none", "held"}, run : Nat, url : Nat, old : BOOLEAN]
Reads == [on : BOOLEAN, ver : Nat]
Elements == [of : Captures \cup {None}, url : Nat, loaded : BOOLEAN, playing : BOOLEAN, time : Nat]
Hooks == [playing : BOOLEAN, time : Nat, ready : BOOLEAN]

RowTypes == server \in [Captures -> Records] /\ rows \in [Captures -> Records]
FetchTypes == /\ art \in [Captures -> [Versions -> Arts]] /\ read \in [Captures -> Reads]
              /\ err \in [Captures -> {"none", "offline", "other"}] /\ want \in [Captures -> BOOLEAN]
              /\ reads \in 0..MaxReads /\ events \in 0..MaxEvents
SoundTypes == el \in Elements /\ heard \in BOOLEAN /\ hook \in [Captures -> Hooks]
OpenTypes == open \in Captures \cup {None} /\ auto \in Captures \cup {None}
Types == RowTypes /\ FetchTypes /\ SoundTypes /\ OpenTypes

(* The rows are the server's, of now or of before: at the same version the     *)
(* same run, at an older one no later run; and a moving one has a version left. *)
RowsAreOld ==
  \A c \in Captures :
    /\ rows[c].ver <= server[c].ver /\ rows[c].run <= server[c].run
    /\ rows[c].ver = server[c].ver => rows[c].run = server[c].run /\ rows[c].st = server[c].st
    /\ server[c].st = "moving" => server[c].ver + 1 \in Versions

(* What is held was asked for under a version the row has had, under the one   *)
(* it has of its run or a later one, and without audio only when there is none. *)
HeldIsOfRow ==
  \A c \in Captures :
    /\ read[c].on => read[c].ver \in Versions /\ read[c].ver <= rows[c].ver
    /\ \A v \in Versions :
         IF art[c][v].st = "none" THEN art[c][v].url = 0
         ELSE /\ v <= rows[c].ver
              /\ v = rows[c].ver => art[c][v].run >= rows[c].run
              /\ art[c][v].url = 0 => ~server[c].audio
              /\ art[c][v].url <= reads

(* The element is the one the open row draws, and the hook listens to it. *)
ElementIsDrawn ==
  IF open # None /\ Mounts(open)
  THEN el.of = open /\ el.url = Url(open) /\ heard
  ELSE el = NoElement /\ ~heard

Inv == Types /\ RowsAreOld /\ HeldIsOfRow /\ ElementIsDrawn /\ ControlsTellTheTruth

-----------------------------------------------------------------------------

LEMMA InitHolds ==
  ASSUME Bounds, PlayerInit
  PROVE  Inv
<1>1. 1 \in Versions
  BY DEF Bounds, Versions
<1>2. NoArt \in Arts /\ NoRead \in Reads /\ NoElement \in Elements /\ Silent \in Hooks
  BY DEF NoArt, Arts, NoRead, Reads, NoElement, Elements, Silent, Hooks
<1>3. Types
  <2>1. RowTypes /\ OpenTypes
    BY <1>1 DEF PlayerInit, RowTypes, OpenTypes, Records
  <2>2. FetchTypes
    BY <1>1, <1>2 DEF PlayerInit, FetchTypes, Bounds
  <2>3. SoundTypes
    BY <1>2 DEF PlayerInit, SoundTypes
  <2>. QED
    BY <2>1, <2>2, <2>3 DEF Types
<1>4. RowsAreOld
  BY <1>1 DEF PlayerInit, RowsAreOld, Versions
<1>5. HeldIsOfRow
  BY <1>1 DEF PlayerInit, HeldIsOfRow, NoRead, NoArt
<1>6. ElementIsDrawn /\ ControlsTellTheTruth
  BY DEF PlayerInit, ElementIsDrawn, ControlsTellTheTruth, NoElement
<1>. QED
  BY <1>3, <1>4, <1>5, <1>6 DEF Inv

LEMMA InvIsTrue ==
  ASSUME Bounds, Inv
  PROVE  PlayerIsTrue
<1>. USE DEF Inv, Types, RowTypes, FetchTypes, SoundTypes, OpenTypes
<1>1. PlayerTypeOK
  BY DEF PlayerTypeOK, Key, Records
<1>2. TranscriptIsThisRun
  BY DEF TranscriptIsThisRun, HeldIsOfRow, Held, Key, Records, Arts
<1>3. NeverCalledLost
  BY DEF NeverCalledLost, SaysNotStored, HeldIsOfRow, Url, Held, Key, Records, Arts
<1>. QED
  BY <1>1, <1>2, <1>3 DEF PlayerIsTrue

-----------------------------------------------------------------------------
(* Drawing *)

(* Drawn from the element the step leaves, which is the one there was but for  *)
(* what it plays, when the open row does not start to be drawn over the URL it  *)
(* had.                                                                         *)
LEMMA DrawKeeps ==
  ASSUME Bounds, Inv, NEW was \in Elements, Draw(was),
         open' \in Captures \cup {None},
         open' # None => Url(open)' \in Nat,
         \A c \in Captures :
            c = open /\ c = open' /\ Mounts(c)' /\ Url(c) = Url(c)' => Mounts(c)
  PROVE  /\ ElementIsDrawn' /\ el' \in Elements /\ heard' \in BOOLEAN
         /\ el' = was \/ ~el'.loaded
<1>1. PICK c \in Captures \cup {None} :
        /\ c = open'
        /\ IF c = None THEN el' = NoElement /\ heard' = FALSE
           ELSE /\ el' = NextElement(was, c, Mounts(c)', Url(c)')
                /\ heard' = /\ Mounts(c)'
                            /\ \/ Resubscribes(Url(c), Url(c)', open = c, TRUE)
                               \/ heard /\ el.of = c /\ Mounts(c)
  BY DEF Draw
<1>0. NoElement \in Elements /\ ~NoElement.loaded
  BY DEF NoElement, Elements
<1>2. CASE c = None
  <2>1. open' = None /\ el' = NoElement /\ heard' = FALSE
    BY <1>1, <1>2
  <2>. QED
    BY <1>0, <2>1 DEF ElementIsDrawn
<1>3. CASE c # None /\ ~Mounts(c)'
  <2>1. el' = NoElement /\ heard' = FALSE
    BY <1>1, <1>3 DEF NextElement
  <2>2. ~Mounts(open)'
    BY <1>1, <1>3 DEF Mounts, Asks, Unreachable, Url, Held, Key
  <2>. QED
    BY <1>0, <2>1, <2>2 DEF ElementIsDrawn
<1>4. CASE c # None /\ Mounts(c)'
  <2>1. Mounts(open)' /\ Url(open)' = Url(c)' /\ Url(c)' \in Nat /\ Url(c)' # 0
    BY <1>1, <1>4 DEF Mounts, Asks, Unreachable, Url, Held, Key
  <2>2. el' = IF was.of = c /\ was.url = Url(c)' THEN was ELSE Fresh(c, Url(c)')
    BY <1>1, <1>4 DEF NextElement
  <2>3. el' \in Elements /\ el'.of = c /\ el'.url = Url(c)' /\ (el' = was \/ ~el'.loaded)
    BY <2>1, <2>2 DEF Fresh, NoElement, Elements
  <2>4. heard'
    <3>1. CASE open = c /\ Url(c) = Url(c)'
      <4>1. Mounts(c)
        BY <1>1, <1>4, <3>1
      <4>2. heard /\ el.of = c
        BY <1>4, <3>1, <4>1 DEF Inv, ElementIsDrawn
      <4>. QED
        BY <1>1, <1>4, <4>1, <4>2
    <3>2. CASE ~(open = c /\ Url(c) = Url(c)')
      BY <1>1, <1>4, <3>2 DEF Resubscribes
    <3>. QED
      BY <3>1, <3>2
  <2>. QED
    BY <1>1, <1>4, <2>1, <2>3, <2>4 DEF ElementIsDrawn
<1>. QED
  BY <1>2, <1>3, <1>4

LEMMA StepKeeps ==
  ASSUME Bounds, Inv, NEW was \in Elements, Draw(was),
         RowTypes', FetchTypes', OpenTypes', hook' \in [Captures -> Hooks],
         RowsAreOld', HeldIsOfRow',
         \A c \in Captures :
            c = open /\ c = open' /\ Mounts(c)' /\ Url(c) = Url(c)' => Mounts(c),
         was.loaded => hook'[was.of].playing = was.playing /\ hook'[was.of].time = was.time
  PROVE  Inv'
<1>1. open' # None => Url(open)' \in Nat
  BY DEF Mounts, Asks, Url, Held, Key, RowTypes, FetchTypes, OpenTypes, Records, Arts, Bounds
<1>2. /\ ElementIsDrawn' /\ el' \in Elements /\ heard' \in BOOLEAN
      /\ el' = was \/ ~el'.loaded
  BY <1>1, DrawKeeps DEF OpenTypes
<1>3. ControlsTellTheTruth'
  BY <1>2 DEF ControlsTellTheTruth
<1>. QED
  BY <1>2, <1>3 DEF Inv, Types, SoundTypes

(* What the rows and the answers say is as it was. *)
LEMMA AsItWas ==
  ASSUME Bounds, Inv, UNCHANGED <<server, rows, art, read, err, reads>>
  PROVE  /\ RowTypes' /\ RowsAreOld' /\ HeldIsOfRow'
         /\ \A c \in Captures :
              c = open /\ c = open' /\ Mounts(c)' /\ Url(c) = Url(c)' => Mounts(c)
BY DEF Inv, Types, RowTypes, RowsAreOld, HeldIsOfRow, Mounts, Asks, Unreachable, Url, Held, Key

LEMMA ElementIsSomebodys ==
  ASSUME Bounds, Inv
  PROVE  /\ el \in Elements /\ NoElement \in Elements
         /\ el # NoElement => el.of \in Captures /\ heard
         /\ el.of # None => el # NoElement
         /\ el.loaded => el # NoElement
BY DEF Inv, Types, SoundTypes, OpenTypes, ElementIsDrawn, NoElement, Elements, Bounds

LEMMA HeardIsHeard ==
  ASSUME Bounds, Inv, NEW e \in Elements, e.of = el.of, e = NoElement <=> el = NoElement
  PROVE  /\ Heard(e) \in [Captures -> Hooks]
         /\ e.loaded => Heard(e)[e.of].playing = e.playing /\ Heard(e)[e.of].time = e.time
<1>1. hook \in [Captures -> Hooks]
  BY DEF Inv, Types, SoundTypes
<1>2. CASE e = NoElement
  BY <1>1, <1>2 DEF Heard, NoElement
<1>3. CASE e # NoElement
  <2>1. heard /\ e.of \in Captures
    BY <1>3, ElementIsSomebodys
  <2>2. Heard(e) = [hook EXCEPT ![e.of] = [@ EXCEPT !.playing = e.playing, !.time = e.time]]
    BY <1>3, <2>1 DEF Heard
  <2>3. hook[e.of] \in Hooks
    BY <1>1, <2>1
  <2>4. [hook[e.of] EXCEPT !.playing = e.playing, !.time = e.time] \in Hooks
    BY <2>3 DEF Hooks, Elements
  <2>. QED
    BY <1>1, <2>1, <2>2, <2>3, <2>4 DEF Hooks
<1>. QED
  BY <1>2, <1>3

LEMMA FlippedIsTheElement ==
  ASSUME Bounds, Inv
  PROVE  /\ Flipped \in Elements /\ Flipped.of = el.of
         /\ Flipped = NoElement <=> el = NoElement
BY ElementIsSomebodys DEF Flipped, Elements, NoElement, Bounds

LEMMA OpensIsTyped ==
  ASSUME Bounds, Inv, NEW c \in Captures \cup {None}, Opens(c)
  PROVE  open' \in Captures \cup {None} /\ want' \in [Captures -> BOOLEAN]
BY DEF Opens, Inv, Types, FetchTypes, RowTypes, Reads, Arts, Records, Held, Key

LEMMA TruthIsKept ==
  ASSUME Bounds, Inv
  PROVE  el.loaded => hook[el.of].playing = el.playing /\ hook[el.of].time = el.time
BY DEF Inv, ControlsTellTheTruth

-----------------------------------------------------------------------------
(* The steps: the person *)

LEMMA ToggleKeeps ==
  ASSUME Bounds, Inv, NEW c \in Captures, Toggle(c)
  PROVE  Inv'
<1>1. open' \in Captures \cup {None} /\ want' \in [Captures -> BOOLEAN]
  BY OpensIsTyped, None \in Captures \cup {None} DEF Toggle
<1>2. FetchTypes' /\ OpenTypes' /\ hook' \in [Captures -> Hooks] /\ hook' = hook
  BY <1>1 DEF Toggle, Inv, Types, FetchTypes, OpenTypes, SoundTypes
<1>3. UNCHANGED <<server, rows, art, read, err, reads>> /\ Draw(el)
  BY DEF Toggle
<1>. QED
  BY <1>2, <1>3, AsItWas, TruthIsKept, ElementIsSomebodys, StepKeeps

LEMMA SelectingKeeps ==
  ASSUME Bounds, Inv, SelectingStarts
  PROVE  Inv'
<1>1. open' \in Captures \cup {None} /\ want' \in [Captures -> BOOLEAN]
  BY OpensIsTyped, None \in Captures \cup {None} DEF SelectingStarts
<1>2. FetchTypes' /\ OpenTypes' /\ hook' \in [Captures -> Hooks] /\ hook' = hook
  BY <1>1 DEF SelectingStarts, Inv, Types, FetchTypes, OpenTypes, SoundTypes
<1>3. UNCHANGED <<server, rows, art, read, err, reads>> /\ Draw(el)
  BY DEF SelectingStarts
<1>. QED
  BY <1>2, <1>3, AsItWas, TruthIsKept, ElementIsSomebodys, StepKeeps

LEMMA PlayKeeps ==
  ASSUME Bounds, Inv, NEW c \in Captures, PlayTapped(c)
  PROVE  Inv'
<1>3. UNCHANGED <<server, rows, art, read, err, reads>>
  BY DEF PlayTapped
<1>1. CASE open = c
  <2>1. /\ hook' = Heard(Flipped) /\ Draw(Flipped)
        /\ UNCHANGED <<open, auto, want, reads, events, art, read, err>>
    BY <1>1 DEF PlayTapped
  <2>2. FetchTypes' /\ OpenTypes'
    BY <2>1 DEF Inv, Types, FetchTypes, OpenTypes
  <2>. QED
    BY <1>3, <2>1, <2>2, AsItWas, FlippedIsTheElement, HeardIsHeard, StepKeeps
<1>2. CASE open # c
  <2>1. Opens(c) /\ auto' = c /\ hook' = hook /\ Draw(el) /\ UNCHANGED <<reads, events>>
    BY <1>2 DEF PlayTapped
  <2>2. open' \in Captures \cup {None} /\ want' \in [Captures -> BOOLEAN]
    BY <2>1, OpensIsTyped
  <2>3. FetchTypes' /\ OpenTypes' /\ hook' \in [Captures -> Hooks]
    BY <1>3, <2>1, <2>2 DEF Inv, Types, FetchTypes, OpenTypes, SoundTypes
  <2>. QED
    BY <1>3, <2>1, <2>3, AsItWas, TruthIsKept, ElementIsSomebodys, StepKeeps
<1>. QED
  BY <1>1, <1>2

LEMMA AutoplayKeeps ==
  ASSUME Bounds, Inv, NEW c \in Captures, Autoplay(c)
  PROVE  Inv'
<1>1. UNCHANGED <<server, rows, art, read, err, reads>> /\ Draw(Flipped) /\ hook' = Heard(Flipped)
  BY DEF Autoplay
<1>2. FetchTypes' /\ OpenTypes'
  BY DEF Autoplay, Inv, Types, FetchTypes, OpenTypes
<1>. QED
  BY <1>1, <1>2, AsItWas, FlippedIsTheElement, HeardIsHeard, StepKeeps

LEMMA SeekKeeps ==
  ASSUME Bounds, Inv, NEW c \in Captures, Seek(c)
  PROVE  Inv'
<1>. DEFINE e == [el EXCEPT !.time = 1]
<1>1. UNCHANGED <<server, rows, art, read, err, reads>> /\ Draw(e)
  BY DEF Seek
<1>2. FetchTypes' /\ OpenTypes'
  BY DEF Seek, Inv, Types, FetchTypes, OpenTypes
<1>3. e \in Elements /\ e.of = c /\ e.playing = el.playing /\ e.time = 1 /\ el.loaded /\ el.of = c
  BY ElementIsSomebodys DEF Elements, Seek
<1>4. hook \in [Captures -> Hooks] /\ hook' = [hook EXCEPT ![c] = [@ EXCEPT !.time = 1]]
  BY DEF Seek, Inv, Types, SoundTypes
<1>5. hook' \in [Captures -> Hooks] /\ hook'[c].playing = hook[c].playing /\ hook'[c].time = 1
  BY <1>4 DEF Hooks
<1>. QED
  BY <1>1, <1>2, <1>3, <1>5, AsItWas, TruthIsKept, StepKeeps

LEMMA FocusKeeps ==
  ASSUME Bounds, Inv, Focus
  PROVE  Inv'
<1>1. UNCHANGED <<server, rows, art, read, err, reads, hook>> /\ Draw(el)
  BY DEF Focus
<1>2. FetchTypes' /\ OpenTypes' /\ hook' \in [Captures -> Hooks]
  BY DEF Focus, Event, Inv, Types, FetchTypes, OpenTypes, RowTypes, SoundTypes, Reads, Arts, Records,
         Held, Key, Bounds
<1>. QED
  BY <1>1, <1>2, AsItWas, TruthIsKept, ElementIsSomebodys, StepKeeps

-----------------------------------------------------------------------------
(* The element's events *)

LEMMA LoadedKeeps ==
  ASSUME Bounds, Inv, NEW c \in Captures, Loaded(c)
  PROVE  Inv'
<1>. DEFINE e == [el EXCEPT !.loaded = TRUE]
<1>1. UNCHANGED <<server, rows, art, read, err, reads>> /\ Draw(e)
  BY DEF Loaded
<1>2. FetchTypes' /\ OpenTypes'
  BY DEF Loaded, Inv, Types, FetchTypes, OpenTypes
<1>3. e \in Elements /\ e.of = c /\ e.playing = el.playing /\ e.time = el.time /\ el.of = c
  BY ElementIsSomebodys DEF Elements, Loaded
<1>4. heard
  BY <1>3, ElementIsSomebodys DEF Bounds
<1>5. hook \in [Captures -> Hooks] /\ hook' = [hook EXCEPT ![c] = FromElement(c)]
  BY <1>4 DEF Loaded, Inv, Types, SoundTypes
<1>6. FromElement(c) \in Hooks
  BY ElementIsSomebodys DEF FromElement, Hooks, Elements
<1>7. hook' \in [Captures -> Hooks] /\ hook'[c].playing = el.playing /\ hook'[c].time = el.time
  BY <1>5, <1>6 DEF FromElement
<1>. QED
  BY <1>1, <1>2, <1>3, <1>7, AsItWas, StepKeeps

LEMMA AdvancesKeeps ==
  ASSUME Bounds, Inv, NEW c \in Captures, Advances(c)
  PROVE  Inv'
<1>. DEFINE e == [el EXCEPT !.time = 1]
<1>1. UNCHANGED <<server, rows, art, read, err, reads>> /\ Draw(e) /\ hook' = Heard(e)
  BY DEF Advances
<1>2. FetchTypes' /\ OpenTypes'
  BY DEF Advances, Inv, Types, FetchTypes, OpenTypes
<1>3. e \in Elements /\ e.of = el.of /\ (e = NoElement <=> el = NoElement)
  BY ElementIsSomebodys DEF Elements, NoElement, Advances, Bounds
<1>4. Heard(e) \in [Captures -> Hooks]
      /\ (e.loaded => Heard(e)[e.of].playing = e.playing /\ Heard(e)[e.of].time = e.time)
  BY <1>3, HeardIsHeard
<1>. QED
  BY <1>1, <1>2, <1>3, <1>4, AsItWas, StepKeeps

LEMMA EndedKeeps ==
  ASSUME Bounds, Inv, NEW c \in Captures, Ended(c)
  PROVE  Inv'
<1>. DEFINE e == [el EXCEPT !.playing = FALSE, !.time = 0]
<1>1. UNCHANGED <<server, rows, art, read, err, reads>> /\ Draw(e) /\ hook' = Heard(e)
  BY DEF Ended
<1>2. FetchTypes' /\ OpenTypes'
  BY DEF Ended, Inv, Types, FetchTypes, OpenTypes
<1>3. e \in Elements /\ e.of = el.of /\ (e = NoElement <=> el = NoElement)
  BY ElementIsSomebodys DEF Elements, NoElement, Ended, Bounds
<1>4. Heard(e) \in [Captures -> Hooks]
      /\ (e.loaded => Heard(e)[e.of].playing = e.playing /\ Heard(e)[e.of].time = e.time)
  BY <1>3, HeardIsHeard
<1>. QED
  BY <1>1, <1>2, <1>3, <1>4, AsItWas, StepKeeps

-----------------------------------------------------------------------------
(* What it fetches *)

LEMMA BeginsKeeps ==
  ASSUME Bounds, Inv, NEW c \in Captures, Begins(c)
  PROVE  Inv'
<1>1. UNCHANGED <<server, rows, open, art, err, hook, reads>> /\ Draw(el)
      /\ read' = [read EXCEPT ![c] = [on |-> TRUE, ver |-> Key(c)]]
  BY DEF Begins
<1>2. Key(c) \in Versions /\ Key(c) \in Nat
  BY DEF Key, Inv, Types, RowTypes, Records, Versions
<1>3. FetchTypes' /\ OpenTypes' /\ RowTypes' /\ hook' \in [Captures -> Hooks]
  BY <1>2 DEF Begins, Inv, Types, FetchTypes, OpenTypes, RowTypes, SoundTypes, Reads
<1>4. HeldIsOfRow'
  BY <1>1, <1>2 DEF Inv, HeldIsOfRow, Key, Types, FetchTypes, RowTypes, Records, Versions
<1>5. RowsAreOld'
  BY <1>1 DEF Inv, RowsAreOld
<1>6. \A k \in Captures : k = open /\ k = open' /\ Mounts(k)' /\ Url(k) = Url(k)' => Mounts(k)
  BY <1>1 DEF Mounts, Asks, Unreachable, Url, Held, Key
<1>. QED
  BY <1>1, <1>3, <1>4, <1>5, <1>6, TruthIsKept, ElementIsSomebodys, StepKeeps

LEMMA AnswersKeeps ==
  ASSUME Bounds, Inv, NEW c \in Captures, Answers(c)
  PROVE  Inv'
<1>. DEFINE v == read[c].ver
            a == [st |-> "held", run |-> server[c].run,
                  url |-> IF server[c].audio THEN reads + 1 ELSE 0, old |-> FALSE]
<1>1. /\ UNCHANGED <<server, rows, open, auto, want, hook, events>> /\ Draw(el)
      /\ art' = [art EXCEPT ![c][v] = a] /\ reads' = reads + 1 /\ reads < MaxReads
      /\ read' = [read EXCEPT ![c] = NoRead] /\ read[c].on
      /\ err' = IF v = Key(c) THEN [err EXCEPT ![c] = "none"] ELSE err
  BY DEF Answers, NextUrl
<1>. USE DEF Inv, Types, RowTypes, FetchTypes
<1>2. v \in Versions /\ v <= rows[c].ver
  BY <1>1 DEF HeldIsOfRow
<1>3. reads \in Nat /\ reads' \in 0..MaxReads /\ a \in Arts /\ NoRead \in Reads
  BY <1>1 DEF Bounds, Arts, Records, NoRead, Reads
<1>4. art' \in [Captures -> [Versions -> Arts]]
  BY <1>1, <1>2, <1>3
<1>5. FetchTypes' /\ OpenTypes' /\ RowTypes' /\ hook' \in [Captures -> Hooks]
  BY <1>1, <1>3, <1>4 DEF OpenTypes, SoundTypes
<1>6. ASSUME NEW k \in Captures, NEW w \in Versions
      PROVE  art'[k][w] = IF k = c /\ w = v THEN a ELSE art[k][w]
  BY <1>1, <1>2
<1>7. HeldIsOfRow'
  <2>1. ASSUME NEW k \in Captures
        PROVE  read'[k].on => read'[k].ver \in Versions /\ read'[k].ver <= rows'[k].ver
    BY <1>1 DEF HeldIsOfRow, NoRead
  <2>2. ASSUME NEW k \in Captures, NEW w \in Versions
        PROVE  IF art'[k][w].st = "none" THEN art'[k][w].url = 0
               ELSE /\ w <= rows'[k].ver
                    /\ w = rows'[k].ver => art'[k][w].run >= rows'[k].run
                    /\ art'[k][w].url = 0 => ~server'[k].audio
                    /\ art'[k][w].url <= reads'
    <3>1. CASE k = c /\ w = v
      BY <1>1, <1>2, <1>3, <1>6, <3>1 DEF RowsAreOld, Records
    <3>2. CASE ~(k = c /\ w = v)
      BY <1>1, <1>3, <1>6, <3>2 DEF HeldIsOfRow, Arts
    <3>. QED
      BY <3>1, <3>2
  <2>. QED
    BY <2>1, <2>2 DEF HeldIsOfRow
<1>8. RowsAreOld'
  BY <1>1 DEF RowsAreOld
<1>9. \A k \in Captures : k = open /\ k = open' /\ Mounts(k)' /\ Url(k) = Url(k)' => Mounts(k)
  <2>1. SUFFICES ASSUME NEW k \in Captures, k = open, Mounts(k)', Url(k) = Url(k)' PROVE Mounts(k)
    OBVIOUS
  <2>2. rows[k].ver \in Versions /\ Key(k) = rows[k].ver /\ Key(k)' = rows[k].ver
    BY <1>1 DEF Records, Key
  <2>3. CASE k = c /\ v = Key(c)
    <3>1. Url(k)' = a.url /\ Url(k) = art[c][v].url
      BY <1>6, <2>2, <2>3 DEF Url, Held
    <3>2. art[c][v].url <= reads /\ art[c][v].url \in Nat
      BY <1>2, <1>3 DEF HeldIsOfRow, Arts
    <3>3. Url(k)' # 0
      BY <2>1 DEF Mounts
    <3>. QED
      BY <1>3, <2>1, <3>1, <3>2, <3>3
  <2>4. CASE ~(k = c /\ v = Key(c))
    <3>1. err'[k] = err[k]
      BY <1>1, <2>4
    <3>. QED
      BY <1>1, <2>1, <3>1 DEF Mounts, Asks, Unreachable
  <2>. QED
    BY <2>3, <2>4
<1>. QED
  BY <1>1, <1>5, <1>7, <1>8, <1>9, TruthIsKept, ElementIsSomebodys, StepKeeps

LEMMA FailsKeeps ==
  ASSUME Bounds, Inv, "flaky" \notin Windows, NEW c \in Captures, NEW how \in {"offline", "other"},
         Fails(c, how)
  PROVE  Inv'
<1>1. /\ UNCHANGED <<server, rows, open, auto, want, hook, reads, art>> /\ Draw(el) /\ Event
      /\ read' = [read EXCEPT ![c] = NoRead] /\ read[c].on
      /\ err' = IF read[c].ver = Key(c) THEN [err EXCEPT ![c] = how] ELSE err
      /\ ~(how = "other" /\ Unreachable(c) /\ Url(c) # 0)
  BY DEF Fails, Kept
<1>. USE DEF Inv, Types, RowTypes, FetchTypes
<1>2. events' \in 0..MaxEvents /\ NoRead \in Reads
  BY <1>1 DEF Event, Bounds, NoRead, Reads
<1>3. FetchTypes' /\ OpenTypes' /\ RowTypes' /\ hook' \in [Captures -> Hooks]
  BY <1>1, <1>2 DEF OpenTypes, SoundTypes
<1>4. HeldIsOfRow'
  BY <1>1 DEF HeldIsOfRow, NoRead
<1>5. RowsAreOld'
  BY <1>1 DEF RowsAreOld
<1>6. \A k \in Captures : k = open /\ k = open' /\ Mounts(k)' /\ Url(k) = Url(k)' => Mounts(k)
  BY <1>1 DEF Mounts, Asks, Unreachable, Url, Held, Key
<1>. QED
  BY <1>1, <1>3, <1>4, <1>5, <1>6, TruthIsKept, ElementIsSomebodys, StepKeeps

LEMMA FiveMinutesKeeps ==
  ASSUME Bounds, Inv, FiveMinutes
  PROVE  Inv'
<1>1. /\ UNCHANGED <<server, rows, open, auto, read, err, want, hook, reads>> /\ Draw(el) /\ Event
      /\ art' = [k \in Captures |-> [w \in Versions |->
            IF w = Key(k) THEN [art[k][w] EXCEPT !.old = art[k][w].st = "held"] ELSE NoArt]]
  BY DEF FiveMinutes
<1>. USE DEF Inv, Types, RowTypes, FetchTypes
<1>2. events' \in 0..MaxEvents /\ NoArt \in Arts
  BY <1>1 DEF Event, Bounds, NoArt, Arts
<1>3. ASSUME NEW k \in Captures, NEW w \in Versions
      PROVE  /\ art'[k][w] \in Arts /\ (w # rows[k].ver => art'[k][w] = NoArt)
             /\ w = rows[k].ver => /\ art'[k][w].st = art[k][w].st
                                   /\ art'[k][w].run = art[k][w].run
                                   /\ art'[k][w].url = art[k][w].url
  <2>1. art[k][w] \in Arts
    OBVIOUS
  <2>2. art'[k][w] = IF w = rows[k].ver THEN [art[k][w] EXCEPT !.old = art[k][w].st = "held"] ELSE NoArt
    BY <1>1 DEF Key
  <2>. QED
    BY <1>2, <2>1, <2>2 DEF Arts
<1>4. art' \in [Captures -> [Versions -> Arts]]
  BY <1>1, <1>3
<1>5. FetchTypes' /\ OpenTypes' /\ RowTypes' /\ hook' \in [Captures -> Hooks]
  BY <1>1, <1>2, <1>4 DEF OpenTypes, SoundTypes
<1>6. HeldIsOfRow'
  BY <1>1, <1>3 DEF HeldIsOfRow, NoArt
<1>7. RowsAreOld'
  BY <1>1 DEF RowsAreOld
<1>8. \A k \in Captures : k = open /\ k = open' /\ Mounts(k)' /\ Url(k) = Url(k)' => Mounts(k)
  BY <1>1, <1>3 DEF Mounts, Asks, Unreachable, Url, Held, Key, Records
<1>. QED
  BY <1>1, <1>5, <1>6, <1>7, <1>8, TruthIsKept, ElementIsSomebodys, StepKeeps

-----------------------------------------------------------------------------
(* The server, and the note read again *)

LEMMA RetranscribeKeeps ==
  ASSUME Bounds, Inv, NEW c \in Captures, Retranscribe(c)
  PROVE  Inv'
<1>. DEFINE s == [server[c] EXCEPT !.st = "moving", !.ver = @ + 1]
<1>1. /\ UNCHANGED <<open, auto, art, read, err, want, hook, reads, events>> /\ Draw(el)
      /\ server' = [server EXCEPT ![c] = s] /\ server[c].audio /\ server[c].ver + 2 \in Versions
  <2>1. server' = [server EXCEPT ![c] = s]
    BY DEF Retranscribe, Inv, Types, RowTypes, Records
  <2>. QED
    BY <2>1 DEF Retranscribe
<1>. USE DEF Inv, Types, RowTypes, FetchTypes
<1>2. /\ server[c] \in Records /\ server[c].ver \in Nat /\ server[c].ver + 1 \in Versions
      /\ (server[c].ver + 1) + 1 \in Versions
  BY <1>1 DEF Records, Versions, Bounds
<1>3. s \in Records /\ s.st = "moving" /\ s.ver = server[c].ver + 1 /\ s.run = server[c].run
      /\ s.audio = server[c].audio
  BY <1>2 DEF Records
<1>4. server' \in [Captures -> Records] /\ server'[c] = s
  BY <1>1, <1>3
<1>5. rows' = [rows EXCEPT ![c] = [s EXCEPT !.audio = TRUE]]
  BY <1>4 DEF Retranscribe
<1>6. /\ rows' \in [Captures -> Records] /\ rows'[c].st = "moving" /\ rows'[c].ver = server[c].ver + 1
      /\ rows'[c].run = server[c].run
  BY <1>3, <1>5 DEF Records
<1>7. \A k \in Captures : k # c => server'[k] = server[k] /\ rows'[k] = rows[k]
  BY <1>1, <1>5
<1>8. FetchTypes' /\ OpenTypes' /\ RowTypes' /\ hook' \in [Captures -> Hooks]
  BY <1>1, <1>4, <1>6 DEF OpenTypes, SoundTypes
<1>9. RowsAreOld'
  <2>1. ASSUME NEW k \in Captures, k # c
        PROVE  /\ rows'[k].ver <= server'[k].ver /\ rows'[k].run <= server'[k].run
               /\ rows'[k].ver = server'[k].ver => rows'[k].run = server'[k].run /\ rows'[k].st = server'[k].st
               /\ server'[k].st = "moving" => server'[k].ver + 1 \in Versions
    BY <1>7, <2>1 DEF RowsAreOld
  <2>2. server[c].run \in Nat
    BY DEF Records
  <2>3. /\ rows'[c].ver <= server'[c].ver /\ rows'[c].run <= server'[c].run
        /\ rows'[c].ver = server'[c].ver => rows'[c].run = server'[c].run /\ rows'[c].st = server'[c].st
        /\ server'[c].st = "moving" => server'[c].ver + 1 \in Versions
    BY <1>2, <1>3, <1>4, <1>6, <2>2
  <2>. QED
    BY <2>1, <2>3 DEF RowsAreOld
<1>10. rows[c].ver < rows'[c].ver /\ rows[c].ver \in Nat
  BY <1>2, <1>6 DEF RowsAreOld, Records, Versions
<1>11. HeldIsOfRow'
  <2>1. SUFFICES ASSUME NEW k \in Captures
                 PROVE  /\ read[k].on => read[k].ver \in Versions /\ read[k].ver <= rows'[k].ver
                        /\ \A w \in Versions :
                             IF art[k][w].st = "none" THEN art[k][w].url = 0
                             ELSE /\ w <= rows'[k].ver
                                  /\ w = rows'[k].ver => art[k][w].run >= rows'[k].run
                                  /\ art[k][w].url = 0 => ~server'[k].audio
                                  /\ art[k][w].url <= reads
    BY <1>1 DEF HeldIsOfRow
  <2>2. CASE k # c
    BY <1>7, <2>2 DEF HeldIsOfRow
  <2>3. CASE k = c
    <3>1. rows'[c].ver \in Nat /\ server'[c].audio = server[c].audio
      BY <1>2, <1>3, <1>4, <1>6
    <3>2. read[c].on => read[c].ver \in Versions /\ read[c].ver <= rows'[c].ver
      BY <1>10, <3>1 DEF HeldIsOfRow, Versions
    <3>3. ASSUME NEW w \in Versions, art[c][w].st # "none"
          PROVE  /\ w <= rows'[c].ver /\ w # rows'[c].ver
                 /\ (art[c][w].url = 0 => ~server'[c].audio) /\ art[c][w].url <= reads
      <4>1. w <= rows[c].ver /\ (art[c][w].url = 0 => ~server[c].audio) /\ art[c][w].url <= reads
        BY <3>3 DEF HeldIsOfRow
      <4>. QED
        BY <1>10, <3>1, <4>1 DEF Versions
    <3>. QED
      BY <2>3, <3>2, <3>3 DEF HeldIsOfRow
  <2>. QED
    BY <2>2, <2>3
<1>12. \A k \in Captures : k = open /\ k = open' /\ Mounts(k)' /\ Url(k) = Url(k)' => Mounts(k)
  BY <1>1, <1>6, <1>7 DEF Mounts, Asks, Unreachable, Url, Held, Key
<1>. QED
  BY <1>1, <1>8, <1>9, <1>11, <1>12, TruthIsKept, ElementIsSomebodys, StepKeeps

LEMMA ServerKeeps ==
  ASSUME Bounds, Inv, NEW c \in Captures, Finishes(c) \/ Purged(c)
  PROVE  Inv'
<1>1. UNCHANGED <<rows, open, auto, art, read, err, want, hook, reads>> /\ Draw(el)
      /\ events' \in 0..MaxEvents
  BY DEF Finishes, Purged, Event, Bounds, Inv, Types, FetchTypes
<1>. USE DEF Inv, Types, RowTypes, FetchTypes
<1>2. /\ server' \in [Captures -> Records] /\ \A k \in Captures : k # c => server'[k] = server[k]
      /\ server'[c].st = "settled" /\ (server'[c].audio => server[c].audio)
      /\ \/ server'[c].ver = server[c].ver /\ server'[c].run = server[c].run
            /\ server[c].st = "settled"
         \/ server'[c].ver = server[c].ver + 1 /\ server'[c].run = server[c].run + 1
  <2>1. CASE Finishes(c)
    <3>1. server[c].ver + 1 \in Versions /\ server[c].run + 1 \in Nat
      BY <2>1 DEF Finishes, RowsAreOld, Records
    <3>. QED
      <4>1. server' = [server EXCEPT ![c] = [server[c] EXCEPT !.st = "settled", !.run = @ + 1, !.ver = @ + 1]]
        BY <2>1 DEF Finishes, Records
      <4>2. server[c] \in Records
        OBVIOUS
      <4>3. [server[c] EXCEPT !.st = "settled", !.run = @ + 1, !.ver = @ + 1] \in Records
        BY <3>1, <4>2 DEF Records
      <4>. QED
        BY <4>1, <4>2, <4>3 DEF Records
  <2>2. CASE Purged(c)
    BY <2>2 DEF Purged, Records
  <2>. QED
    BY <2>1, <2>2
<1>3. FetchTypes' /\ OpenTypes' /\ RowTypes' /\ hook' \in [Captures -> Hooks]
  BY <1>1, <1>2 DEF OpenTypes, SoundTypes
<1>4. RowsAreOld'
  <2>1. SUFFICES ASSUME NEW k \in Captures
                 PROVE  /\ rows[k].ver <= server'[k].ver /\ rows[k].run <= server'[k].run
                        /\ rows[k].ver = server'[k].ver => rows[k].run = server'[k].run
                                                          /\ rows[k].st = server'[k].st
                        /\ server'[k].st = "moving" => server'[k].ver + 1 \in Versions
    BY <1>1 DEF RowsAreOld
  <2>2. rows[k].ver \in Nat /\ server[k].ver \in Nat /\ rows[k].run \in Nat /\ server[k].run \in Nat
    BY DEF Records, Versions
  <2>3. CASE k # c
    BY <1>2, <2>3 DEF RowsAreOld
  <2>4. CASE k = c
    BY <1>2, <2>2, <2>4 DEF RowsAreOld
  <2>. QED
    BY <2>3, <2>4
<1>5. HeldIsOfRow'
  BY <1>1, <1>2 DEF HeldIsOfRow
<1>6. \A k \in Captures : k = open /\ k = open' /\ Mounts(k)' /\ Url(k) = Url(k)' => Mounts(k)
  BY <1>1 DEF Mounts, Asks, Unreachable, Url, Held, Key
<1>. QED
  BY <1>1, <1>3, <1>4, <1>5, <1>6, TruthIsKept, ElementIsSomebodys, StepKeeps

LEMMA NoteReadKeeps ==
  ASSUME Bounds, Inv, NoteRead
  PROVE  Inv'
<1>1. /\ UNCHANGED <<server, auto, art, read, want, hook, reads, events>> /\ Draw(el)
      /\ rows' = [k \in Captures |-> [server[k] EXCEPT !.audio = TRUE]]
      /\ err' = [k \in Captures |-> IF rows[k].ver = server[k].ver THEN err[k] ELSE "none"]
      /\ (open' = open \/ open' \in Captures)
  BY DEF NoteRead, Fetched
<1>. USE DEF Inv, Types, RowTypes, FetchTypes
<1>2. /\ rows' \in [Captures -> Records]
      /\ \A k \in Captures : /\ rows'[k].st = server[k].st /\ rows'[k].ver = server[k].ver
                             /\ rows'[k].run = server[k].run
  <2>1. ASSUME NEW k \in Captures
        PROVE  /\ rows'[k] \in Records /\ rows'[k].st = server[k].st /\ rows'[k].ver = server[k].ver
               /\ rows'[k].run = server[k].run
    <3>1. rows'[k] = [server[k] EXCEPT !.audio = TRUE] /\ server[k] \in Records
      BY <1>1
    <3>. QED
      BY <3>1 DEF Records
  <2>. QED
    BY <1>1, <2>1
<1>3. FetchTypes' /\ OpenTypes' /\ RowTypes' /\ hook' \in [Captures -> Hooks]
  BY <1>1, <1>2 DEF OpenTypes, SoundTypes
<1>4. RowsAreOld'
  BY <1>1, <1>2 DEF RowsAreOld, Records, Versions
<1>5. HeldIsOfRow'
  <2>1. SUFFICES ASSUME NEW k \in Captures
                 PROVE  /\ read[k].on => read[k].ver \in Versions /\ read[k].ver <= rows'[k].ver
                        /\ \A w \in Versions :
                             IF art[k][w].st = "none" THEN art[k][w].url = 0
                             ELSE /\ w <= rows'[k].ver
                                  /\ w = rows'[k].ver => art[k][w].run >= rows'[k].run
                                  /\ art[k][w].url = 0 => ~server[k].audio
                                  /\ art[k][w].url <= reads
    BY <1>1 DEF HeldIsOfRow
  <2>2. /\ rows[k].ver <= rows'[k].ver /\ rows[k].ver \in Nat /\ rows'[k].ver \in Nat
        /\ rows[k].ver = rows'[k].ver => rows[k].run = rows'[k].run
    BY <1>2 DEF RowsAreOld, Records, Versions
  <2>3. ASSUME NEW w \in Versions, art[k][w].st # "none"
        PROVE  /\ w <= rows'[k].ver /\ (w = rows'[k].ver => art[k][w].run >= rows'[k].run)
               /\ (art[k][w].url = 0 => ~server[k].audio) /\ art[k][w].url <= reads
    <3>1. /\ w <= rows[k].ver /\ (w = rows[k].ver => art[k][w].run >= rows[k].run)
          /\ (art[k][w].url = 0 => ~server[k].audio) /\ art[k][w].url <= reads
      BY <2>3 DEF HeldIsOfRow
    <3>. QED
      BY <2>2, <3>1 DEF Versions
  <2>4. read[k].on => read[k].ver \in Versions /\ read[k].ver <= rows'[k].ver
    BY <2>2 DEF HeldIsOfRow, Versions
  <2>. QED
    BY <2>3, <2>4 DEF HeldIsOfRow
<1>6. ASSUME NEW k \in Captures, k = open, k = open', Mounts(k)', Url(k) = Url(k)'
      PROVE  Mounts(k)
  <2>1. CASE rows[k].ver = server[k].ver
    BY <1>1, <1>2, <1>6, <2>1 DEF Mounts, Asks, Unreachable, Url, Held, Key, RowsAreOld
  <2>2. CASE rows[k].ver # server[k].ver
    <3>1. Url(k)' = art[k][server[k].ver].url /\ server[k].ver \in Versions
      BY <1>1, <1>2 DEF Url, Held, Key, Records
    <3>2. server[k].ver > rows[k].ver
      BY <2>2 DEF RowsAreOld, Records, Versions
    <3>3. art[k][server[k].ver].st = "none" /\ art[k][server[k].ver].url = 0
      BY <3>1, <3>2 DEF HeldIsOfRow, Arts, Records, Versions
    <3>. QED
      BY <1>6, <3>1, <3>3 DEF Mounts
  <2>. QED
    BY <2>1, <2>2
<1>. QED
  BY <1>1, <1>3, <1>4, <1>5, <1>6, TruthIsKept, ElementIsSomebodys, StepKeeps

-----------------------------------------------------------------------------
(* The whole *)

LEMMA StandingStill ==
  ASSUME Bounds, Inv, UNCHANGED playerVars
  PROVE  Inv'
BY DEF playerVars, Inv, Types, RowTypes, FetchTypes, SoundTypes, OpenTypes, RowsAreOld, HeldIsOfRow,
       ElementIsDrawn, ControlsTellTheTruth, Mounts, Asks, Unreachable, Url, Held, Key

LEMMA NextKeeps ==
  ASSUME Bounds, "flaky" \notin Windows, Inv, [PlayerNext]_playerVars
  PROVE  Inv'
<1>1. ASSUME NEW c \in Captures,
             \/ Toggle(c) \/ PlayTapped(c) \/ Autoplay(c) \/ Seek(c) \/ Retranscribe(c)
             \/ Begins(c) \/ Answers(c) \/ Fails(c, "offline") \/ Fails(c, "other")
             \/ Loaded(c) \/ Advances(c) \/ Ended(c) \/ Finishes(c) \/ Purged(c)
      PROVE  Inv'
  BY <1>1, ToggleKeeps, PlayKeeps, AutoplayKeeps, SeekKeeps, RetranscribeKeeps, BeginsKeeps,
     AnswersKeeps, FailsKeeps, LoadedKeeps, AdvancesKeeps, EndedKeeps, ServerKeeps
<1>. QED
  BY <1>1, SelectingKeeps, FiveMinutesKeeps, FocusKeeps, NoteReadKeeps, StandingStill
     DEF PlayerNext

(* Under a settled row is the transcript of its run, the controls say what the *)
(* audio element does, and only what the store let go is called lost: for any  *)
(* number of recordings, as long as a failed read is not followed by another   *)
(* failure over audio that is held.                                            *)
THEOREM PlayerIsAlwaysTrue ==
  ASSUME Bounds, "flaky" \notin Windows
  PROVE  PlayerSpec => []PlayerIsTrue
<1>1. PlayerInit => Inv
  BY InitHolds
<1>2. Inv /\ [PlayerNext]_playerVars => Inv'
  BY NextKeeps
<1>3. Inv => PlayerIsTrue
  BY InvIsTrue
<1>. QED
  BY <1>1, <1>2, <1>3, PTL DEF PlayerSpec
=============================================================================
