----------------------------- MODULE NoteLists -----------------------------
(***************************************************************************)
(* The library's rows and what a tap on one does (api/queries/notes.ts,    *)
(* components/NoteRow, features/notes/NoteActions and PinnedGroup): pins,  *)
(* colours and drags are shown before the server answers and put back if   *)
(* it refuses, a delete is an archive with an Undo on the toast, and both  *)
(* cached lists are re-read when something moved between them.  A write is *)
(* asked, served and answered in three steps; a read of a list likewise.   *)
(* The server is external: it bumps a note's version on every write and    *)
(* refuses a pin or a colour that names another version.                   *)
(***************************************************************************)
EXTENDS Integers, FiniteSets, FiniteSetsExt

CONSTANTS
  Notes,        \* numbered from 1, in the order the Pinned group starts in
  Colours,      \* "none" among them
  MaxTaps,      \* writes started
  MaxMishaps,   \* refusals, lost answers, another device's edits
  Windows       \* races a run lets happen: "behind", "amid", "run", "half"

VARIABLES
  vault,        \* the server's notes
  lists, shown, \* the cached lists, and the one on the screen
  taps,         \* the mutations, by the order they were started in
  toast,        \* the note an Undo would bring back, as it was
  mishaps,
  behind,       \* the cached versions are known to trail the server's
  foreign,      \* history: notes something other than an answered tap wrote
  refusedOwn    \* history: a write refused for a version this device itself moved

vars == <<vault, lists, shown, taps, toast, mishaps, behind, foreign, refusedOwn>>

Lists == {"home", "archive"}
Taps == 1..MaxTaps

Absent == [rank |-> 0, colour |-> "none", version |-> 0]
Row(note) == [rank |-> note.rank, colour |-> note.colour, version |-> note.version]
Shelf(l) == [n \in Notes |->
              IF vault[n].at = l THEN Row(vault[n]) ELSE Absent]
Listed(l, n) == lists[l].rows[n] # Absent
NoRows == [n \in Notes |-> Absent]
NoToast == [note |-> 0, pinned |-> FALSE]
Unused == [kind |-> "none", note |-> 0, arg |-> "none", order |-> <<>>, version |-> 0,
           st |-> "unused", before |-> [l \in Lists |-> NoRows], got |-> Absent]

Pending(k) == taps[k].st \in {"waiting", "asked", "served", "refused"}
InAir(kinds) == {k \in Taps : Pending(k) /\ taps[k].kind \in kinds}
Ranks(rows) == {rows[n].rank : n \in Notes}

(* A row's own mutations; a colour does not hold the others up. *)
Busy(n) == \E k \in InAir({"pin", "archive", "restore", "undo", "repin", "purge"}) : taps[k].note = n

-----------------------------------------------------------------------------
(* The cached lists *)

(* cancelQueries: a read in the air is dropped; a list marked stale stays so. *)
Cancelled(ls) == [l \in Lists |-> [ls[l] EXCEPT !.read = "no", !.got = NoRows]]

Patched(ls, n, Change(_)) ==
  [l \in Lists |-> [ls[l] EXCEPT !.rows[n] = IF @ = Absent THEN @ ELSE Change(@)]]

Before == [l \in Lists |-> lists[l].rows]
Restored(ls, before) == [l \in Lists |-> [ls[l] EXCEPT !.rows = before[l]]]

(* invalidateQueries: both lists are stale; the one on the screen is read again, *)
(* and a read already in the air is begun anew.                                  *)
Invalidated(ls) ==
  [l \in Lists |-> [ls[l] EXCEPT !.stale = TRUE,
      !.read = IF l = shown THEN "asked" ELSE "no", !.got = NoRows]]

ReadServed(l) ==
  /\ lists[l].read = "asked"
  /\ lists' = [lists EXCEPT ![l].read = "served", ![l].got = Shelf(l)]
  /\ UNCHANGED <<vault, shown, taps, toast, mishaps, behind, foreign, refusedOwn>>

ReadLands(l) ==
  /\ lists[l].read = "served"
  /\ lists' = [lists EXCEPT ![l] = [rows |-> lists[l].got, stale |-> FALSE,
                                    read |-> "no", got |-> NoRows]]
  /\ behind' = (behind /\ (l # "home" \/ InAir({"reorder"}) # {}))
  /\ UNCHANGED <<vault, shown, taps, toast, mishaps, foreign, refusedOwn>>

(* The archive is opened, or left for Home: a stale list is read on the way in. *)
Visit(l) ==
  /\ shown # l /\ shown' = l
  /\ lists' = [lists EXCEPT ![l].read = IF lists[l].stale /\ @ = "no" THEN "asked" ELSE @]
  /\ UNCHANGED <<vault, taps, toast, mishaps, behind, foreign, refusedOwn>>

-----------------------------------------------------------------------------
(* The taps *)

Next1 == CHOOSE k \in Taps : taps[k] = Unused /\ \A j \in Taps : taps[j] = Unused => k <= j
CanTap == \E k \in Taps : taps[k] = Unused

(* The races a run may leave out: a tap on a row whose version is known to be   *)
(* behind; a colour amid anything else that touches the lists.                  *)
InStep(n) == behind => "behind" \in Windows
Apart == InAir({"colour"}) = {} \/ "amid" \in Windows
Alone == \/ "amid" \in Windows
         \/ /\ InAir({"pin", "archive", "restore", "undo", "repin", "purge", "reorder"}) = {}
            /\ \A l \in Lists : lists[l].read = "no" /\ ~lists[l].stale
InTurn == "run" \in Windows \/ InAir({"colour"}) = {}

Start(tap) == taps' = [taps EXCEPT ![Next1] = tap]
Asked(kind, n, arg) ==
  [Unused EXCEPT !.kind = kind, !.note = n, !.arg = arg, !.st = "asked",
                 !.version = lists[shown].rows[n].version]

Pin(n) ==
  /\ CanTap /\ shown = "home" /\ Listed("home", n) /\ ~Busy(n) /\ InStep(n) /\ Apart
  /\ LET pinned == lists.home.rows[n].rank = 0
         last == Max(UNION {Ranks(lists[l].rows) : l \in Lists})
     IN /\ Start([Asked("pin", n, IF pinned THEN "on" ELSE "off") EXCEPT !.before = Before])
        /\ lists' = Patched(Cancelled(lists), n,
                      LAMBDA row : [row EXCEPT !.rank = IF pinned THEN last + 1 ELSE 0])
  /\ UNCHANGED <<vault, shown, toast, mishaps, behind, foreign, refusedOwn>>

(* The requests of one note's colours go one at a time. *)
Turn(n) == IF \E k \in InAir({"colour"}) : taps[k].note = n THEN "waiting" ELSE "asked"

Colour(n, c) ==
  /\ CanTap /\ shown = "home" /\ Listed("home", n) /\ ~Busy(n) /\ c # lists.home.rows[n].colour
  /\ InStep(n) /\ Alone /\ InTurn
  /\ Start([Asked("colour", n, c) EXCEPT !.before = Before, !.st = Turn(n)])
  /\ lists' = Patched(Cancelled(lists), n, LAMBDA row : [row EXCEPT !.colour = c])
  /\ UNCHANGED <<vault, shown, toast, mishaps, behind, foreign, refusedOwn>>

(* One request per drag: the pinned rows, in the new order. *)
Drag(order) ==
  /\ CanTap /\ shown = "home" /\ Apart
  /\ "behind" \in Windows \/ InAir({"pin"}) = {}
  /\ DOMAIN order = {n \in Notes : lists.home.rows[n].rank > 0} /\ Cardinality(DOMAIN order) > 1
  /\ \E n \in DOMAIN order : order[n] # lists.home.rows[n].rank
  /\ Start([Unused EXCEPT !.kind = "reorder", !.order = order, !.st = "asked", !.before = Before])
  /\ lists' = [l \in Lists |-> [Cancelled(lists)[l] EXCEPT !.rows = [n \in Notes |->
                 IF n \in DOMAIN order /\ @[n] # Absent THEN [@[n] EXCEPT !.rank = order[n]] ELSE @[n]]]]
  /\ behind' = TRUE
  /\ UNCHANGED <<vault, shown, toast, mishaps, foreign, refusedOwn>>

(* Delete on Home, Restore and Delete forever in the archive: not shown early. *)
Remove(n, kind) ==
  /\ CanTap /\ Listed(shown, n) /\ ~Busy(n) /\ Apart
  /\ shown = IF kind = "archive" THEN "home" ELSE "archive"
  /\ Start(Asked(kind, n, IF lists[shown].rows[n].rank > 0 THEN "on" ELSE "off"))
  /\ UNCHANGED <<vault, lists, shown, toast, mishaps, behind, foreign, refusedOwn>>

(* The toast's button: the notice goes, and the note is restored as it was. *)
Undo ==
  /\ CanTap /\ toast # NoToast /\ Apart
  /\ Start([Asked("undo", toast.note, IF toast.pinned THEN "on" ELSE "off") EXCEPT !.version = 0])
  /\ toast' = NoToast
  /\ UNCHANGED <<vault, lists, shown, mishaps, behind, foreign, refusedOwn>>

ToastLapses ==
  /\ toast # NoToast /\ toast' = NoToast
  /\ UNCHANGED <<vault, lists, shown, taps, mishaps, behind, foreign, refusedOwn>>

-----------------------------------------------------------------------------
(* The server: pins and colours name a version, the rest do not *)

Kept(n) == vault[n].at = "home"
Written(n, note) == [vault EXCEPT ![n] = [note EXCEPT !.version = vault[n].version + 1]]
LastRank == Max({vault[n].rank : n \in Notes})

Versioned == {"pin", "colour", "repin"}
Accepts(tap) ==
  CASE tap.kind \in Versioned ->
         Kept(tap.note) /\ tap.version = vault[tap.note].version
    [] tap.kind = "reorder" -> \A n \in DOMAIN tap.order : Kept(n) /\ vault[n].rank > 0
    [] tap.kind = "purge" -> vault[tap.note].at = "archive"
    [] OTHER -> vault[tap.note].at # "gone"

Effect(tap) ==
  LET n == tap.note IN
  CASE tap.kind \in {"pin", "repin"} ->
         Written(n, [vault[n] EXCEPT !.rank = IF tap.arg = "off" THEN 0
                                              ELSE IF @ > 0 THEN @ ELSE LastRank + 1])
    [] tap.kind = "colour" -> Written(n, [vault[n] EXCEPT !.colour = tap.arg])
    [] tap.kind = "reorder" ->
         [m \in Notes |-> IF m \in DOMAIN tap.order /\ vault[m].rank # tap.order[m]
            THEN [vault[m] EXCEPT !.rank = tap.order[m], !.version = @ + 1] ELSE vault[m]]
    [] tap.kind = "archive" /\ Kept(n) ->
         Written(n, [vault[n] EXCEPT !.at = "archive", !.rank = 0])
    [] tap.kind \in {"restore", "undo"} /\ ~Kept(n) -> Written(n, [vault[n] EXCEPT !.at = "home"])
    [] tap.kind = "purge" -> [vault EXCEPT ![n].at = "gone"]
    [] OTHER -> vault

Serve(k) ==
  /\ taps[k].st = "asked"
  /\ IF Accepts(taps[k])
     THEN /\ vault' = Effect(taps[k])
          /\ taps' = [taps EXCEPT ![k].st = "served",
                        ![k].got = IF taps[k].note = 0 THEN Absent
                                   ELSE Row(Effect(taps[k])[taps[k].note])]
          /\ UNCHANGED refusedOwn
     ELSE /\ taps' = [taps EXCEPT ![k].st = "refused"]
          /\ refusedOwn' = (refusedOwn \/ (taps[k].kind \in Versioned /\ taps[k].note \notin foreign
                              /\ Kept(taps[k].note)))
          /\ UNCHANGED vault
  /\ UNCHANGED <<lists, shown, toast, mishaps, behind, foreign>>

Mishap == mishaps < MaxMishaps /\ mishaps' = mishaps + 1

(* The server is out of order, or its answer is lost on the way. *)
Fails(k) ==
  /\ taps[k].st = "asked" /\ Mishap
  /\ taps[k].kind = "repin" => "half" \in Windows
  /\ taps' = [taps EXCEPT ![k].st = "refused"]
  /\ \/ UNCHANGED <<vault, foreign>>
     \/ /\ Accepts(taps[k]) /\ vault' = Effect(taps[k])
        /\ foreign' = foreign \cup (IF taps[k].kind = "reorder" THEN DOMAIN taps[k].order
                                    ELSE {taps[k].note})
  /\ UNCHANGED <<lists, shown, toast, behind, refusedOwn>>

OtherDevice(n) ==
  /\ Mishap /\ vault[n].at # "gone"
  /\ vault' = Written(n, vault[n]) /\ foreign' = foreign \cup {n}
  /\ UNCHANGED <<lists, shown, taps, toast, behind, refusedOwn>>

-----------------------------------------------------------------------------
(* The answers *)

Done(k) == [taps EXCEPT ![k] = [Unused EXCEPT !.kind = taps[k].kind, !.st = "done"]]

(* A pin's answer goes into the rows at once: the next tap carries its version. *)
ForgetsVersionMutant(row, got) == [row EXCEPT !.rank = got.rank]
FromServer(row, got) == [row EXCEPT !.rank = got.rank, !.version = got.version]

PinRefused(k) == Invalidated(Restored(lists, taps[k].before))

PinAnswered(k) ==
  /\ taps[k].kind = "pin"
  /\ \/ /\ taps[k].st = "served"
        /\ lists' = Invalidated(Patched(lists, taps[k].note,
                                        LAMBDA row : FromServer(row, taps[k].got)))
        /\ UNCHANGED behind
     \/ /\ taps[k].st = "refused"
        /\ lists' = PinRefused(k) /\ behind' = TRUE
  /\ taps' = Done(k)
  /\ UNCHANGED <<vault, shown, toast, mishaps, foreign, refusedOwn>>

(* The next colour of the note reads the version this answer left in its row. *)
Released(n, ls) ==
  {j \in Taps : taps[j].st = "waiting" /\ taps[j].note = n
                /\ \A i \in Taps : taps[i].st = "waiting" /\ taps[i].note = n => j <= i}
VersionOf(ls, n, fallback) == IF ls.home.rows[n] = Absent THEN fallback ELSE ls.home.rows[n].version
RunsOn(k, ls) ==
  taps' = [j \in Taps |-> IF j \in Released(taps[k].note, ls)
             THEN [taps[j] EXCEPT !.st = "asked",
                                  !.version = VersionOf(ls, taps[j].note, taps[j].version)]
             ELSE Done(k)[j]]

ColourRefused(k) == Restored(lists, taps[k].before)

ColourAnswered(k) ==
  /\ taps[k].kind = "colour" /\ taps[k].st \in {"served", "refused"}
  /\ \E ls \in {IF taps[k].st = "refused" THEN ColourRefused(k)
                ELSE Patched(lists, taps[k].note, LAMBDA row : taps[k].got)} :
        lists' = ls /\ RunsOn(k, ls)
  /\ UNCHANGED <<vault, shown, toast, mishaps, behind, foreign, refusedOwn>>

DragAnswered(k) ==
  /\ taps[k].kind = "reorder" /\ taps[k].st \in {"served", "refused"}
  /\ lists' = Invalidated(IF taps[k].st = "served" THEN lists ELSE Restored(lists, taps[k].before))
  /\ taps' = Done(k)
  /\ UNCHANGED <<vault, shown, toast, mishaps, behind, foreign, refusedOwn>>

(* A refused delete, restore or purge is said under the row, and changes nothing. *)
Removed(k) ==
  /\ taps[k].kind \in {"archive", "restore", "purge"} /\ taps[k].st \in {"served", "refused"}
  /\ IF taps[k].st = "refused" THEN UNCHANGED <<lists, toast, behind>>
     ELSE /\ lists' = Invalidated(lists) /\ behind' = TRUE
          /\ toast' = IF taps[k].kind # "archive" THEN toast
                      ELSE [note |-> taps[k].note, pinned |-> taps[k].arg = "on"]
  /\ taps' = Done(k)
  /\ UNCHANGED <<vault, shown, mishaps, foreign, refusedOwn>>

(* Undo: a note that was pinned is pinned again, on the version the restore left. *)
Repins(k) == taps[k].kind = "undo" /\ taps[k].arg = "on"

UndoAnswered(k) ==
  /\ taps[k].kind \in {"undo", "repin"} /\ taps[k].st \in {"served", "refused"}
  /\ CASE taps[k].st = "refused" -> taps' = Done(k) /\ UNCHANGED <<lists, behind>>
       [] taps[k].st = "served" /\ Repins(k) ->
            /\ taps' = [taps EXCEPT ![k].kind = "repin", ![k].st = "asked",
                                    ![k].version = taps[k].got.version]
            /\ UNCHANGED <<lists, behind>>
       [] OTHER -> taps' = Done(k) /\ lists' = Invalidated(lists) /\ behind' = TRUE
  /\ UNCHANGED <<vault, shown, toast, mishaps, foreign, refusedOwn>>

-----------------------------------------------------------------------------
ListsInit ==
  /\ \E pinned \in SUBSET Notes :
       vault = [n \in Notes |-> [at |-> "home", colour |-> "none", version |-> 1,
                  rank |-> IF n \in pinned THEN Cardinality({m \in pinned : m <= n}) ELSE 0]]
  /\ lists = [l \in Lists |-> [rows |-> Shelf(l), stale |-> FALSE, read |-> "no", got |-> NoRows]]
  /\ shown = "home" /\ taps = [k \in Taps |-> Unused] /\ toast = NoToast
  /\ mishaps = 0 /\ behind = FALSE /\ foreign = {} /\ refusedOwn = FALSE

Answered(k) == PinAnswered(k) \/ ColourAnswered(k) \/ DragAnswered(k) \/ Removed(k) \/ UndoAnswered(k)

ListsNext ==
  \/ \E n \in Notes : \/ Pin(n) \/ OtherDevice(n)
                      \/ \E c \in Colours : Colour(n, c)
                      \/ \E kind \in {"archive", "restore", "purge"} : Remove(n, kind)
  \/ \E d \in SUBSET Notes : \E order \in [d -> 1..Cardinality(d)] :
       (\A i, j \in d : i # j => order[i] # order[j]) /\ Drag(order)
  \/ Undo \/ ToastLapses
  \/ \E k \in Taps : Serve(k) \/ Fails(k) \/ Answered(k)
  \/ \E l \in Lists : ReadServed(l) \/ ReadLands(l) \/ Visit(l)

ListsSpec == ListsInit /\ [][ListsNext]_vars

(* Requests and reads are answered: client.ts bounds each with a timeout. *)
ListsFair ==
  /\ \A k \in Taps : WF_vars(Serve(k) \/ Fails(k) \/ Answered(k))
  /\ \A l \in Lists : WF_vars(ReadServed(l) \/ ReadLands(l))

ListsFairSpec == ListsSpec /\ ListsFair

-----------------------------------------------------------------------------
(* Properties *)

Rows == [rank : 0..(MaxTaps + Cardinality(Notes)), colour : Colours, version : 0..(2 * MaxTaps + MaxMishaps + 1)]

\* The type of the state.
ListsTypeOK ==
  /\ vault \in [Notes -> [at : Lists \cup {"gone"}, rank : Nat, colour : Colours, version : Nat \ {0}]]
  /\ \A l \in Lists : /\ lists[l].rows \in [Notes -> Rows] /\ lists[l].got \in [Notes -> Rows]
                      /\ lists[l].stale \in BOOLEAN /\ lists[l].read \in {"no", "asked", "served"}
  /\ shown \in Lists /\ toast \in [note : Notes \cup {0}, pinned : BOOLEAN]
  /\ \A k \in Taps : taps[k].st \in {"unused", "waiting", "asked", "served", "refused", "done"}

\* "Pin, reopen, Unpin": a write is never refused for a version that only this
\* device's own answered writes moved.
NoOwnConflict == ~refusedOwn

\* A note that moved between the lists is not left rendered in both: the list
\* on the screen is being read again, or is right and the other is marked.
InOneList ==
  \A n \in Notes \ foreign : Listed("home", n) /\ Listed("archive", n) =>
    \/ InAir({"archive", "restore", "undo", "repin", "pin", "reorder"}) # {}
    \/ lists[shown].read # "no"
    \/ ~lists[shown].stale /\ \E l \in Lists \ {shown} : lists[l].stale

\* A colour is shown at once and put back if refused: with none in the air, a
\* row is never of a colour the server did not take.
ColoursAgree ==
  \A n \in Notes \ foreign :
    Listed("home", n) /\ (\A k \in InAir({"colour"}) : taps[k].note # n)
      => lists.home.rows[n].colour = vault[n].colour

\* An Undo that went through has put a pinned note back among the pinned.
UndoRestoresPlace ==
  \A k \in Taps :
    /\ taps[k].kind \in {"undo", "repin"} /\ taps[k].st = "served" /\ taps'[k].st = "done"
    /\ taps[k].arg = "on" /\ taps[k].note \notin foreign
    => taps[k].got.rank > 0

\* Whatever was tapped and whatever was refused, the list on the screen comes
\* to say what the server has.
RowsAreRight == \A n \in Notes \ foreign : lists[shown].rows[n] = Shelf(shown)[n]
RowsSettle == <>[]RowsAreRight

-----------------------------------------------------------------------------
(* The cached lists under taps that cross, are refused and are undone: all of *)
(* the above, in every state and every step.                                  *)
ListsInv == ListsTypeOK /\ NoOwnConflict /\ InOneList /\ ColoursAgree
ListsAgree == []ListsInv /\ [][UndoRestoresPlace]_vars
=============================================================================
