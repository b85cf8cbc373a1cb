---------------------------- MODULE Touch_proofs ----------------------------
(***************************************************************************)
(* Fingers over the four hooks, proved for any number of rows, tabs,       *)
(* touches and moves: a touch does one thing, the registry names the one   *)
(* open tray, the panel and the pull's line stand only where they should,  *)
(* and a tap on a row is heard.                                            *)
(*                                                                         *)
(* None of it is inductive by itself.  Holds adds what the hooks know of   *)
(* one another through the touch: who owns its pointer bounds which of     *)
(* them may call it theirs, a touch that is still has been claimed by      *)
(* nobody, and a touch that is held is alone.                              *)
(***************************************************************************)
EXTENDS Touch, FiniteSetTheorems, TLAPS

Bounds == Rows \subseteq Nat \ {0} /\ LastTab \in Nat /\ MaxTouches \in Nat /\ MaxMoves \in Nat

\* The two timings of Windows left out: the guards of Touch say what each lets in.
Closed == "amid_hold" \notin Windows /\ "interrupted" \notin Windows

-----------------------------------------------------------------------------
(* The shapes of things *)

Doings == {"stepped", "tray", "refreshed", "selected", "closed", "opened", "toggled"}
Axes == {"undecided", "x", "y"}
TouchKinds ==
  [at : {"new", "down", "up"}, on : Rows \cup {Body}, tap : BOOLEAN, held : BOOLEAN,
   owner : {"none", "row", "region"}, moves : Nat, did : SUBSET Doings]
RowKinds ==
  [who : {0} \cup Touches, axis : Axes, wasOpen : BOOLEAN, past : BOOLEAN, open : BOOLEAN]
RegionKinds ==
  [who : {0} \cup Touches, axis : Axes, onRow : BOOLEAN, onOpen : BOOLEAN,
   dir : {"none"} \cup Sideways, far : BOOLEAN]
PullKinds ==
  [who : {0} \cup Touches, phase : {"idle", "pulling", "armed", "refreshing"}, busy : BOOLEAN]

TouchShape == touch \in [Touches -> TouchKinds]
RowShape == rows \in [Rows -> RowKinds]
RegionShape == region \in RegionKinds
PullShape == pull \in PullKinds
SwallowShape == swallow \in [panel : BOOLEAN, rows : SUBSET Rows, held : SUBSET Rows]
ScreenShape ==
  /\ tab \in 0..LastTab /\ asked \in 0..LastTab /\ selecting \in BOOLEAN /\ atTop \in BOOLEAN
  /\ openRow \in Rows \cup {0} /\ press \in [Rows -> {0} \cup Touches]
  /\ enter \in {"none", "waiting", "posed"} /\ panel \in {"rest", "moved"}
Shape == TouchShape /\ RowShape /\ RegionShape /\ PullShape /\ SwallowShape /\ ScreenShape

-----------------------------------------------------------------------------
(* The inductive invariant *)

Lies(p) == touch[p].at = "down"
Still(p) == touch[p].tap \/ touch[p].held

\* A touch that has stayed still, or is held, is the only one.
Alone == \A p \in Touches : Lies(p) /\ Still(p) => \A q \in Touches : Lies(q) => q = p

\* A finger that has not lifted has done nothing but select what it holds.
DoneSoFar ==
  \A p \in Touches :
    /\ touch[p].at = "new" => touch[p] = Untouched
    /\ Lies(p) => touch[p].did = IF touch[p].held THEN {"selected"} ELSE {}

\* A hold's timer runs for a finger that is on that row.
Presses ==
  \A r \in Rows : press[r] # 0 =>
    /\ press[r] \in Touches /\ Lies(press[r]) /\ touch[press[r]].on = r /\ ~touch[press[r]].held
    /\ Mounted

\* A row's gesture is of the finger on it, none that is still, and a drag is of one that
\* owns its pointer.  It may outlive the touch (NeverDeaf), and then hears nothing.
RowGestures ==
  \A r \in Rows : rows[r].who # 0 =>
    LET p == rows[r].who IN
    /\ p \in Touches /\ touch[p].at # "new"
    /\ Lies(p) => /\ touch[p].on = r /\ (touch[p].tap => rows[r].axis = "undecided")
                  /\ (rows[r].axis = "x" => touch[p].owner # "none")

\* The panel's gesture ends with its touch, and once sideways owns the pointer.
RegionGesture ==
  /\ region.who = 0 => region = NoSwipe
  /\ region.who # 0 =>
       LET p == region.who IN
       /\ p \in Touches /\ Lies(p) /\ (Still(p) => region.axis = "undecided")
       /\ (region.axis = "x" => touch[p].owner = "region")

\* A pull under way is of a finger down, moving, that neither other hook has claimed.
PullGesture ==
  /\ pull.who # 0 => pull.who \in Touches /\ touch[pull.who].at # "new"
  /\ pull.busy <=> pull.phase = "refreshing"
  /\ pull.phase \in {"pulling", "armed"} =>
       LET p == pull.who IN
       /\ p # 0 /\ Lies(p) /\ ~Still(p) /\ touch[p].owner = "none"
       /\ region.who = p => region.axis = "y"

\* Under a held finger no tray is open and no row is dragged, and its click will be
\* swallowed: by its row, or because the rows have gone for good while it lies.
HeldTouch ==
  /\ \A p \in Touches : Lies(p) /\ touch[p].held =>
       /\ touch[p].on \in Rows /\ ~swallow.panel /\ swallow.rows = {}
       /\ \A r \in Rows : rows[r].who = 0 /\ ~rows[r].open
       /\ \/ tab = LastTab /\ touch[p].on \in swallow.held
          \/ tab # LastTab /\ asked = tab
  /\ \A r \in swallow.held : \E p \in Touches : Lies(p) /\ touch[p].held /\ touch[p].on = r

\* Nothing waits to swallow the click of a tap on a row.
Taps ==
  \A p \in Touches : Lies(p) /\ touch[p].tap /\ touch[p].on \in Rows =>
    tab = LastTab /\ ~swallow.panel /\ touch[p].on \notin swallow.rows

AtMostOne == \A p \in Touches : \A v, w \in touch[p].did : v = w

Holds ==
  /\ Shape /\ Alone /\ DoneSoFar /\ Presses /\ RowGestures /\ RegionGesture /\ PullGesture
  /\ HeldTouch /\ Taps /\ OneTrayOpen /\ PanelAtRest /\ TapIsHeard /\ AtMostOne

-----------------------------------------------------------------------------
(* What the helpers leave *)

(* A touch that has not landed. *)
LEMMA UntouchedIs ==
  /\ Untouched \in TouchKinds
  /\ Untouched.on = Body /\ ~Untouched.tap /\ ~Untouched.held /\ Untouched.owner = "none" /\ Untouched.did = {}
BY DEF Untouched, TouchKinds, Doings, Body

(* A touch that is long over. *)
LEMMA OverIs ==
  /\ Over \in TouchKinds
  /\ Over.at = "up" /\ Over.on = Body /\ ~Over.tap /\ ~Over.held /\ Over.owner = "none" /\ Over.did = {}
<1>1. ASSUME NEW u \in TouchKinds
      PROVE  LET v == [u EXCEPT !.at = "up"] IN
             /\ v \in TouchKinds /\ v.at = "up" /\ v.on = u.on /\ v.tap = u.tap /\ v.held = u.held
             /\ v.owner = u.owner /\ v.did = u.did
  BY DEF TouchKinds
<1>. QED
  BY <1>1, UntouchedIs, Zenon DEF Over

(* What a row is after a finger landed, on it or elsewhere. *)
RowPressed(g, h, p, hit) ==
  /\ h \in RowKinds
  /\ h.open = (g.open /\ hit)
  /\ \/ h.who = g.who /\ h.axis = g.axis
     \/ hit /\ h.who = p /\ h.axis = "undecided"

(* A row that hears a finger land: it keeps its tray and begins a gesture, *)
(* or goes on with one it has.                                             *)
LEMMA PressedIs ==
  ASSUME NEW g \in RowKinds, NEW p \in Touches
  PROVE  RowPressed(g, Pressed(g, p), p, TRUE) /\ RowPressed(g, [g EXCEPT !.open = FALSE], p, FALSE)
BY DEF RowKinds, Axes, RowPressed, Pressed

(* A row at rest. *)
LEMMA IdleIs == Idle \in RowKinds /\ Idle.who = 0 /\ ~Idle.open
BY DEF Idle, RowKinds, Axes

(* The panel without a gesture. *)
LEMMA NoSwipeIs == NoSwipe \in RegionKinds /\ NoSwipe.who = 0 /\ NoSwipe.axis = "undecided"
BY DEF NoSwipe, RegionKinds, Axes

(* The pull without one. *)
LEMMA UnpulledIs == Unpulled \in PullKinds /\ Unpulled.who = 0 /\ Unpulled.phase = "idle" /\ ~Unpulled.busy
BY DEF Unpulled, PullKinds

(* What RowEnds leaves. *)
EndsRow(p) ==
  /\ rows' \in [Rows -> RowKinds] /\ openRow' \in Rows \cup {0}
  /\ \A r \in Rows :
       /\ rows'[r].who \in {rows[r].who, 0} /\ rows'[r].axis = rows[r].axis
       /\ rows'[r].open <=> openRow' = r

(* A finger lifts or is taken: the trays and the registry agree after it *)
(* as they did before.                                                   *)
LEMMA RowEndsIs ==
  ASSUME Bounds, RowShape, ScreenShape, OneTrayOpen, NEW p \in Touches, NEW cancelled \in BOOLEAN, RowEnds(p, cancelled)
  PROVE  EndsRow(p)
<1> DEFINE r == touch[p].on
<1>1. CASE RowDragged(p)
  <2> DEFINE opens == IF cancelled THEN rows[r].wasOpen ELSE rows[r].past
  <2>1. r \in Rows /\ opens \in BOOLEAN /\ Settle(r, opens)
    BY <1>1 DEF RowDragged, RowHears, RowShape, RowKinds, RowEnds
  <2> HIDE DEF r, opens
  <2>2. ASSUME NEW q \in Rows, q # r
        PROVE  /\ rows'[q] \in RowKinds /\ rows'[q].who = rows[q].who /\ rows'[q].axis = rows[q].axis
               /\ rows'[q].open <=> rows[q].open /\ ~opens
    BY <2>1, <2>2 DEF Settle, RowShape, RowKinds
  <2>3. /\ rows'[r] \in RowKinds /\ rows'[r].who = 0 /\ rows'[r].axis = rows[r].axis
        /\ rows'[r].open <=> opens
    BY <2>1 DEF Settle, RowShape, RowKinds
  <2>4. openRow' = IF opens THEN r ELSE IF openRow = r THEN 0 ELSE openRow
    BY <2>1 DEF Settle
  <2>5. rows' \in [Rows -> RowKinds]
    BY <2>1, <2>2, <2>3 DEF Settle
  <2>. QED
    BY <2>1, <2>2, <2>3, <2>4, <2>5 DEF EndsRow, OneTrayOpen, ScreenShape, Bounds
<1>2. CASE ~RowDragged(p)
  <2>1. rows' = rows \/ (r \in Rows /\ rows' = [rows EXCEPT ![r].who = 0])
    BY <1>2 DEF RowEnds, RowHears
  <2>2. openRow' = openRow
    BY <1>2 DEF RowEnds
  <2> HIDE DEF r
  <2>. QED
    BY <2>1, <2>2 DEF EndsRow, OneTrayOpen, ScreenShape, RowShape, RowKinds
<1>. QED
  BY <1>1, <1>2

(* What RegionEnds leaves. *)
EndsRegion(p) ==
  /\ region' \in RegionKinds /\ enter' \in {"none", "waiting", "posed"} /\ panel' \in {"rest", "moved"}
  /\ asked' \in 0..LastTab
  /\ region.who # p => region' = region
  /\ region.who = p => region' = NoSwipe
  /\ PanelAtRest'
  /\ (region.who = p /\ region.axis = "x") \/ asked' = asked

(* The panel lets go of its finger: in its place, or on its way to the *)
(* next tab.                                                           *)
LEMMA RegionEndsIs ==
  ASSUME Bounds, RegionShape, ScreenShape, PanelAtRest, NEW p \in Touches, NEW cancelled \in BOOLEAN,
         RegionEnds(p, cancelled)
  PROVE  EndsRegion(p)
<1>1. CASE region.who # p
  BY <1>1 DEF RegionEnds, EndsRegion, RegionShape, ScreenShape, PanelAtRest
<1>2. CASE region.who = p /\ Steps(p) /\ ~cancelled
  <2>1. region' = NoSwipe /\ enter' = "waiting" /\ panel' = panel /\ region.axis = "x"
    BY <1>2 DEF RegionEnds, Steps, Swiped
  <2>2. asked' \in 0..LastTab
    BY <1>2 DEF RegionEnds, Steps, CanGo, ScreenShape, Bounds
  <2>. QED
    BY <1>2, <2>1, <2>2, NoSwipeIs DEF EndsRegion, ScreenShape, PanelAtRest
<1>3. CASE region.who = p /\ ~(Steps(p) /\ ~cancelled)
  <2>1. region' = NoSwipe /\ asked' = asked /\ enter' = enter /\ (panel' = "rest" \/ (panel' = panel /\ region.axis # "x"))
    BY <1>3 DEF RegionEnds, Swiped, SnapsBack
  <2>. QED
    BY <1>3, <2>1, NoSwipeIs DEF EndsRegion, ScreenShape, PanelAtRest
<1>. QED
  BY <1>1, <1>2, <1>3

(* What is left of the panel's gesture is of another finger. *)
LEMMA RegionGestureEnds ==
  ASSUME RegionGesture, NEW p \in Touches, EndsRegion(p), \A q \in Touches \ {p} : touch'[q] = touch[q]
  PROVE  RegionGesture'
<1>1. CASE region.who = p
  BY <1>1, NoSwipeIs DEF EndsRegion, RegionGesture
<1>2. CASE region.who # p
  <2>1. region' = region
    BY <1>2 DEF EndsRegion
  <2>2. region.who # 0 => region.who \in Touches \ {p} /\ touch'[region.who] = touch[region.who]
    BY <1>2 DEF RegionGesture
  <2>. QED
    BY <2>1, <2>2 DEF RegionGesture, Lies, Still
<1>. QED
  BY <1>1, <1>2

(* What RowMoves leaves. *)
MovesRow(p) ==
  /\ rows' \in [Rows -> RowKinds]
  /\ \A r \in Rows :
       /\ rows'[r].who = rows[r].who /\ rows'[r].open = rows[r].open
       /\ rows'[r].axis = rows[r].axis \/ (RowHears(p) /\ r = touch[p].on /\ rows[r].axis # "y")

(* A move changes a row's axis alone, and only under the finger that row *)
(* hears.                                                                *)
LEMMA RowMovesIs ==
  ASSUME RowShape, NEW p \in Touches, NEW dir, NEW far \in BOOLEAN, RowMoves(p, dir, far)
  PROVE  MovesRow(p)
<1> DEFINE r == touch[p].on
<1>1. CASE ~RowHears(p)
  BY <1>1 DEF RowMoves, MovesRow, RowShape
<1>2. CASE RowHears(p)
  <2>1. r \in Rows
    BY <1>2 DEF RowHears
  <2> DEFINE g == rows[r]
             h == IF g.axis = "undecided" /\ dir \notin Sideways THEN [g EXCEPT !.axis = "y"]
                  ELSE IF g.axis = "y" THEN g ELSE Dragged(g, dir, far)
  <2>2. rows' = [rows EXCEPT ![r] = h]
    BY <1>2 DEF RowMoves
  <2>3. g \in RowKinds
    BY <2>1 DEF RowShape
  <2> HIDE DEF g, r
  <2>4. h \in RowKinds /\ h.who = g.who /\ h.open = g.open /\ (h.axis = g.axis \/ g.axis # "y")
    BY <2>3 DEF RowKinds, Axes, Dragged
  <2> HIDE DEF h
  <2>5. rows'[r] = h /\ rows' \in [Rows -> RowKinds] /\ \A q \in Rows \ {r} : rows'[q] = rows[q]
    BY <2>1, <2>2, <2>4 DEF RowShape
  <2>. QED
    BY <1>2, <2>4, <2>5 DEF MovesRow, g, r
<1>. QED
  BY <1>1, <1>2

(* What RegionMoves leaves. *)
MovesRegion(p, dir) ==
  /\ region' \in RegionKinds /\ panel' \in {"rest", "moved"}
  /\ region'.who = region.who
  /\ region.who # p => region' = region /\ panel' = panel
  /\ region.who = p => region'.axis \in {"x", "y"} /\ (region'.axis = "x" <=> Swipes(p, dir))
  /\ PanelAtRest'

(* A move changes the panel's gesture only under its own finger, sideways *)
(* if the panel takes it.                                                 *)
LEMMA RegionMovesIs ==
  ASSUME RegionShape, ScreenShape, PanelAtRest, NEW p \in Touches, NEW dir, NEW far \in BOOLEAN,
         RegionMoves(p, dir, far), enter' = enter, Swipes(p, dir) => dir \in Sideways
  PROVE  MovesRegion(p, dir)
<1>1. CASE Swipes(p, dir)
  <2>1. region' = [region EXCEPT !.axis = "x", !.dir = dir, !.far = far] /\ panel' = "moved" /\ region.who = p
    BY <1>1 DEF RegionMoves, Swipes
  <2>2. region' \in RegionKinds /\ region'.who = p /\ region'.axis = "x"
    BY <1>1, <2>1 DEF RegionShape, RegionKinds, Axes, Sideways
  <2>. QED
    BY <1>1, <2>1, <2>2 DEF MovesRegion, PanelAtRest
<1>2. CASE ~Swipes(p, dir)
  <2>1. panel' = panel /\ region' = IF region.who = p THEN [region EXCEPT !.axis = "y"] ELSE region
    BY <1>2 DEF RegionMoves
  <2>2. region.who = p => region.axis # "x"
    BY <1>2 DEF Swipes
  <2>3. CASE region.who = p
    BY <1>2, <2>1, <2>2, <2>3 DEF MovesRegion, RegionShape, RegionKinds, Axes, ScreenShape,
           PanelAtRest
  <2>4. CASE region.who # p
    BY <1>2, <2>1, <2>4 DEF MovesRegion, RegionShape, ScreenShape, PanelAtRest
  <2>. QED
    BY <2>3, <2>4
<1>. QED
  BY <1>1, <1>2

(* A finger that the panel follows sideways has its pointer captured. *)
LEMMA RegionGestureMoves ==
  ASSUME RegionGesture, NEW p \in Touches, NEW dir, MovesRegion(p, dir), p # 0,
         \A q \in Touches \ {p} : touch'[q] = touch[q],
         touch'[p].at = "down", ~touch'[p].tap, ~touch'[p].held, Swipes(p, dir) => touch'[p].owner = "region"
  PROVE  RegionGesture'
<1>1. CASE region.who = p
  BY <1>1 DEF MovesRegion, RegionGesture, Lies, Still
<1>2. CASE region.who # p
  <2>1. region' = region
    BY <1>2 DEF MovesRegion
  <2>2. region.who # 0 => region.who \in Touches \ {p} /\ touch'[region.who] = touch[region.who]
    BY <1>2 DEF RegionGesture
  <2>. QED
    BY <2>1, <2>2 DEF RegionGesture, Lies, Still
<1>. QED
  BY <1>1, <1>2

(* A finger that a row follows sideways has its pointer captured, by the *)
(* row or by the panel.                                                  *)
LEMMA RowGesturesMove ==
  ASSUME RowGestures, NEW p \in Touches, MovesRow(p), touch[p].at = "down",
         \A q \in Touches \ {p} : touch'[q] = touch[q],
         touch'[p].at = "down", touch'[p].on = touch[p].on, ~touch'[p].tap,
         RowHears(p) /\ rows[touch[p].on].axis # "y" => touch'[p].owner # "none",
         touch'[p].owner = "none" => touch[p].owner = "none"
  PROVE  RowGestures'
<1> SUFFICES ASSUME NEW r \in Rows, rows'[r].who # 0, NEW s, s = rows'[r].who
             PROVE  /\ s \in Touches /\ touch'[s].at # "new"
                    /\ touch'[s].at = "down" =>
                         /\ touch'[s].on = r /\ (touch'[s].tap => rows'[r].axis = "undecided")
                         /\ (rows'[r].axis = "x" => touch'[s].owner # "none")
  BY DEF RowGestures, Lies
<1>1. rows[r].who = s /\ (rows'[r].axis = rows[r].axis \/ (RowHears(p) /\ r = touch[p].on /\ rows[r].axis # "y"))
  BY DEF MovesRow
<1>2. /\ s \in Touches /\ touch[s].at # "new"
      /\ touch[s].at = "down" =>
           /\ touch[s].on = r /\ (touch[s].tap => rows[r].axis = "undecided")
           /\ (rows[r].axis = "x" => touch[s].owner # "none")
  BY <1>1 DEF RowGestures, Lies
<1>3. CASE s = p
  BY <1>1, <1>2, <1>3
<1>4. CASE s # p
  <2>1. touch'[s] = touch[s]
    BY <1>2, <1>4
  <2>2. rows'[r].axis = rows[r].axis
    BY <1>1, <1>4 DEF RowHears
  <2>. QED
    BY <1>2, <2>1, <2>2
<1>. QED
  BY <1>3, <1>4

(* A finger that pulls the page down is dragging no row. *)
LEMMA RowGesturesPulled ==
  ASSUME RowGestures, NEW p \in Touches, MovesRow(p), touch[p].at = "down",
         \A q \in Touches \ {p} : touch'[q] = touch[q],
         touch'[p].at = "down", touch'[p].on = touch[p].on, ~touch'[p].tap, touch[p].owner = "none",
         RowHears(p) => rows'[touch[p].on].axis = "y"
  PROVE  RowGestures'
<1> SUFFICES ASSUME NEW r \in Rows, rows'[r].who # 0, NEW s, s = rows'[r].who
             PROVE  /\ s \in Touches /\ touch'[s].at # "new"
                    /\ touch'[s].at = "down" =>
                         /\ touch'[s].on = r /\ (touch'[s].tap => rows'[r].axis = "undecided")
                         /\ (rows'[r].axis = "x" => touch'[s].owner # "none")
  BY DEF RowGestures, Lies
<1>1. rows[r].who = s /\ (rows'[r].axis = rows[r].axis \/ (RowHears(p) /\ r = touch[p].on /\ rows[r].axis # "y"))
  BY DEF MovesRow
<1>2. /\ s \in Touches /\ touch[s].at # "new"
      /\ touch[s].at = "down" =>
           /\ touch[s].on = r /\ (touch[s].tap => rows[r].axis = "undecided")
           /\ (rows[r].axis = "x" => touch[s].owner # "none")
  BY <1>1 DEF RowGestures, Lies
<1>3. CASE s = p
  BY <1>1, <1>2, <1>3
<1>4. CASE s # p
  <2>1. touch'[s] = touch[s]
    BY <1>2, <1>4
  <2>2. rows'[r].axis = rows[r].axis
    BY <1>1, <1>4 DEF RowHears
  <2>. QED
    BY <1>2, <2>1, <2>2
<1>. QED
  BY <1>3, <1>4

-----------------------------------------------------------------------------
(* One lemma for each action *)

(* A finger lands. *)
LEMMA DownHolds ==
  ASSUME Bounds, Closed, Holds, NEW p \in Touches, NEW on \in Rows \cup {Body}, Down(p, on)
  PROVE  Holds'
<1>n. \A q \in Touches : Lies(q) => ~touch[q].held
  BY DEF Down, Fingers, Closed, Lies
<1>w. touch[p].at = "new" /\ touch[p] = Untouched
  BY DEF Down, Holds, DoneSoFar
<1>w0. p # 0
  BY DEF Bounds, Touches
<1>w1. region.who # p
  BY <1>w, <1>w0 DEF Holds, RegionGesture, Lies
<1>w2. pull.who # p
  BY <1>w, <1>w0 DEF Holds, PullGesture
<1>w3. \A r \in Rows : rows[r].who # p
  BY <1>w, <1>w0 DEF Holds, RowGestures
<1>w4. \A r \in Rows : press[r] # p
  BY <1>w, <1>w0 DEF Holds, Presses, Lies
<1>k. touch[p] \in TouchKinds
  BY DEF Holds, Shape, TouchShape
<1>b. (Fingers = {}) \in BOOLEAN
  OBVIOUS
<1>w5. ~touch[p].held /\ touch[p].owner = "none" /\ touch[p].did = {}
  BY <1>w DEF Untouched
<1>t0. touch'[p] = [touch[p] EXCEPT !.at = "down", !.on = on, !.tap = (Fingers = {})]
  BY DEF Down, Holds, Shape, TouchShape
<1>t1. touch'[p] \in TouchKinds
  BY <1>t0, <1>k, <1>b DEF TouchKinds, Body
<1>t2. /\ touch'[p].at = "down" /\ touch'[p].on = on /\ touch'[p].held = touch[p].held
       /\ touch'[p].owner = touch[p].owner /\ touch'[p].did = touch[p].did /\ touch'[p].tap = (Fingers = {})
  BY <1>t0, <1>k DEF TouchKinds
<1>t. /\ touch'[p].at = "down" /\ touch'[p].on = on /\ ~touch'[p].held /\ touch'[p].owner = "none"
      /\ touch'[p].did = {} /\ (touch'[p].tap => Fingers = {})
  BY <1>t2, <1>w5
<1>o. \A q \in Touches \ {p} :
        /\ touch'[q].at = touch[q].at
        /\ touch[q].at = "up" => touch'[q] = Over
        /\ touch[q].at # "up" => touch'[q] = [touch[q] EXCEPT !.tap = FALSE]
  BY DEF Down, Holds, Shape, TouchShape, TouchKinds, Untouched, Over
<1>q0. \A q \in Touches \ {p} : touch[q].at = "up" =>
        /\ touch'[q] \in TouchKinds /\ ~touch'[q].tap /\ touch'[q].did = {}
  BY <1>o, OverIs
<1>q1. \A q \in Touches \ {p} : touch[q].at # "up" =>
        /\ touch'[q] \in TouchKinds /\ ~touch'[q].tap /\ touch'[q].did = touch[q].did
        /\ touch'[q].on = touch[q].on /\ touch'[q].held = touch[q].held /\ touch'[q].owner = touch[q].owner
  BY <1>o DEF Holds, Shape, TouchShape, TouchKinds
<1>q. \A q \in Touches \ {p} :
        /\ touch'[q] \in TouchKinds /\ ~touch'[q].tap
        /\ touch'[q].did = IF touch[q].at = "up" THEN {} ELSE touch[q].did
        /\ touch[q].at # "up" => touch'[q].on = touch[q].on /\ touch'[q].held = touch[q].held /\ touch'[q].owner = touch[q].owner
  BY <1>q0, <1>q1
<1>r0. \A r \in Rows : rows'[r] = IF r = on /\ Mounted THEN Pressed(rows[r], p) ELSE [rows[r] EXCEPT !.open = FALSE]
  BY DEF Down, LandsOn
<1>r. \A r \in Rows : RowPressed(rows[r], rows'[r], p, r = on /\ Mounted)
  BY <1>r0, PressedIs, <1>w0 DEF Holds, Shape, RowShape
<1>r1. \A r \in Rows : rows'[r] \in RowKinds
  BY <1>r DEF RowPressed
<1>r2. \A r \in Rows :
        /\ rows'[r].who = p \/ (rows'[r].who = rows[r].who /\ rows'[r].axis = rows[r].axis)
        /\ rows'[r].who = p => r = on /\ rows'[r].axis = "undecided"
  BY <1>r, <1>w3 DEF RowPressed
<1>r3. \A r \in Rows : rows'[r].open = (rows[r].open /\ r = on /\ Mounted)
  BY <1>r DEF RowPressed
<1>s. swallow'.panel = FALSE /\ swallow'.rows = swallow.rows \ {on} /\ swallow'.held \subseteq swallow.held
  BY DEF Down, Reset, Holds, Shape, SwallowShape
<1>e. swallow.held = {}
  BY <1>n DEF Holds, HeldTouch, Shape, SwallowShape
<1>g0. region.who = 0 => region' = [NoSwipe EXCEPT !.who = p, !.onRow = (on \in Rows /\ Mounted),
                                    !.onOpen = (on \in Rows /\ Mounted /\ rows[on].open)]
  BY DEF Down
<1>g1. region' \in RegionKinds
  BY <1>g0 DEF Down, NoSwipe, RegionKinds, Axes, Sideways, Holds, Shape, RegionShape, RowShape,
         RowKinds
<1>g2. region.who # 0 => region' = region
  BY DEF Down
<1>g3. region.who = 0 => region'.who = p /\ region'.axis = "undecided"
  BY <1>g0 DEF NoSwipe
<1>g4. region.who # 0 => region'.who = region.who /\ region'.axis = region.axis
  BY <1>g2
<1>u. /\ pull' = pull \/ (Fingers = {} /\ ~pull.busy /\ pull' = [pull EXCEPT !.who = p])
      /\ pull' \in PullKinds
  BY DEF Down, Holds, Shape, PullShape, PullKinds
<1>v. pull'.phase = pull.phase /\ pull'.busy = pull.busy /\ (pull'.who = pull.who \/ (Fingers = {} /\ pull'.who = p))
  BY <1>u DEF Holds, Shape, PullShape, PullKinds
<1>pr. \A r \in Rows : press'[r] = IF r = on /\ Mounted THEN p ELSE press[r]
  BY DEF Down, LandsOn, Holds, Shape, ScreenShape
<1>same. tab' = tab /\ selecting' = selecting
  BY DEF Down
<1>z. \A q \in Touches : touch'[q].at = "new" => touch'[q] = Untouched
  <2>1. \A q \in Touches \ {p} : touch'[q].at = "new" => touch[q].at = "new" /\ touch[q] = Untouched
    BY <1>o DEF Holds, DoneSoFar
  <2>2. \A q \in Touches \ {p} : touch[q].at = "new" => touch'[q] = touch[q]
    <3> SUFFICES ASSUME NEW q \in Touches \ {p}, touch[q].at = "new" PROVE touch'[q] = touch[q]
      OBVIOUS
    <3>1. touch[q] \in TouchKinds /\ touch[q].tap = FALSE
      BY DEF Holds, Shape, TouchShape, DoneSoFar, Untouched
    <3>. QED BY <3>1, <1>o DEF TouchKinds
  <2>. QED BY <2>1, <2>2, <1>t
<1>1. TouchShape'
  BY <1>t1, <1>q DEF Down, TouchShape
<1>2. RowShape'
  BY <1>r1 DEF Down, LandsOn, RowShape
<1>3. RegionShape'
  BY <1>g1 DEF RegionShape
<1>4. PullShape'
  BY <1>u DEF PullShape
<1>5. SwallowShape'
  BY DEF Down, Reset, Holds, Shape, SwallowShape
<1>6. ScreenShape'
  BY DEF Down, LandsOn, Holds, Shape, ScreenShape, Body
<1>7. Alone'
  BY <1>t, <1>q, <1>o, <1>n DEF Holds, Alone, Lies, Still, Fingers
<1>8. DoneSoFar'
  BY <1>z, <1>t, <1>q, <1>o DEF Holds, DoneSoFar, Lies
<1>9. Presses'
  <2> SUFFICES ASSUME NEW r \in Rows, press'[r] # 0
               PROVE  /\ press'[r] \in Touches /\ touch'[press'[r]].at = "down" /\ touch'[press'[r]].on = r
                      /\ ~touch'[press'[r]].held /\ tab' = LastTab /\ ~selecting'
    BY DEF Presses, Lies, Mounted
  <2>1. CASE r = on /\ Mounted
    BY <2>1, <1>pr, <1>t, <1>same DEF Mounted
  <2>2. CASE ~(r = on /\ Mounted)
    <3>1. press'[r] = press[r] /\ press[r] # p
      BY <2>2, <1>pr, <1>w4
    <3>2. /\ press[r] \in Touches /\ touch[press[r]].at = "down" /\ touch[press[r]].on = r
          /\ ~touch[press[r]].held /\ Mounted
      BY <3>1 DEF Holds, Presses, Lies
    <3>. QED
      <4> DEFINE s == press[r]
      <4>1. s \in Touches \ {p}
        BY <3>1, <3>2
      <4> HIDE DEF s
      <4>2. touch'[s].at = touch[s].at /\ (touch[s].at # "up" => touch'[s].on = touch[s].on /\ touch'[s].held = touch[s].held)
        BY <4>1, <1>q, <1>o
      <4>. QED
        BY <3>1, <3>2, <4>1, <4>2, <1>same DEF Mounted, s
  <2>. QED
    BY <2>1, <2>2
<1>10. RowGestures'
  <2> SUFFICES ASSUME NEW r \in Rows, rows'[r].who # 0, NEW s, s = rows'[r].who
               PROVE  /\ s \in Touches /\ touch'[s].at # "new"
                      /\ touch'[s].at = "down" =>
                           /\ touch'[s].on = r /\ (touch'[s].tap => rows'[r].axis = "undecided")
                           /\ (rows'[r].axis = "x" => touch'[s].owner # "none")
    BY DEF RowGestures, Lies
  <2>1. CASE s = p
    BY <2>1, <1>r2, <1>t
  <2>2. CASE s # p
    <3>1. rows[r].who = s /\ rows'[r].axis = rows[r].axis
      BY <2>2, <1>r2
    <3>2. /\ s \in Touches \ {p} /\ touch[s].at # "new"
          /\ touch[s].at = "down" => touch[s].on = r /\ (rows[r].axis = "x" => touch[s].owner # "none")
      BY <2>2, <3>1 DEF Holds, RowGestures, Lies
    <3>. QED
      BY <3>1, <3>2, <1>q, <1>o
  <2>. QED
    BY <2>1, <2>2
<1>11. RegionGesture'
  <2>1. CASE region.who = 0
    BY <2>1, <1>g3, <1>t, <1>w0 DEF RegionGesture, Lies, Still
  <2>2. CASE region.who # 0
    <3> DEFINE s == region.who
    <3>1. /\ s \in Touches \ {p} /\ touch[s].at = "down" /\ (touch[s].held => region.axis = "undecided")
          /\ (region.axis = "x" => touch[s].owner = "region")
      BY <2>2, <1>w1 DEF Holds, RegionGesture, Lies, Still
    <3>2. /\ touch'[s].at = "down" /\ ~touch'[s].tap /\ touch'[s].held = touch[s].held /\ touch'[s].owner = touch[s].owner
      BY <3>1, <1>q, <1>o
    <3>. QED
      BY <2>2, <3>1, <3>2, <1>g4 DEF RegionGesture, Lies, Still
  <2>. QED
    BY <2>1, <2>2
<1>12. PullGesture'
  <2> DEFINE s == pull.who
  <2>1. pull'.busy <=> pull'.phase = "refreshing"
    BY <1>v DEF Holds, PullGesture
  <2>2. pull'.who # 0 => pull'.who \in Touches /\ touch'[pull'.who].at # "new"
    <3>1. pull.who # 0 => s \in Touches \ {p} /\ touch[s].at # "new"
      BY <1>w2 DEF Holds, PullGesture
    <3>2. pull.who # 0 => touch'[s].at # "new"
      BY <3>1, <1>o
    <3>. QED
      BY <3>1, <3>2, <1>v, <1>t
  <2>3. ASSUME pull'.phase \in {"pulling", "armed"}
        PROVE  LET r == pull'.who IN
               /\ r # 0 /\ touch'[r].at = "down" /\ ~touch'[r].tap /\ ~touch'[r].held /\ touch'[r].owner = "none"
               /\ region'.who = r => region'.axis = "y"
    <3>1. /\ s \in Touches \ {p} /\ s # 0 /\ touch[s].at = "down" /\ ~touch[s].tap /\ ~touch[s].held /\ touch[s].owner = "none"
          /\ region.who = s => region.axis = "y"
      BY <2>3, <1>v, <1>w2 DEF Holds, PullGesture, Lies, Still
    <3>2. pull'.who = s
      BY <3>1, <1>v DEF Fingers
    <3>3. touch'[s].at = "down" /\ ~touch'[s].tap /\ ~touch'[s].held /\ touch'[s].owner = "none"
      BY <3>1, <1>q, <1>o
    <3>4. region'.who = s => region'.axis = "y"
      BY <3>1, <1>g3, <1>g4
    <3>. QED
      BY <3>1, <3>2, <3>3, <3>4
  <2>. QED
    BY <2>1, <2>2, <2>3 DEF PullGesture, Lies, Still
<1>13. HeldTouch'
  BY <1>t, <1>q, <1>o, <1>n, <1>s, <1>e DEF Lies, HeldTouch
<1>14. Taps'
  BY <1>t, <1>q, <1>s DEF Down, Taps, Lies
<1>15. OneTrayOpen'
  BY <1>r3 DEF Down, LandsOn, Holds, OneTrayOpen, Shape, ScreenShape, Bounds, Mounted
<1>16. PanelAtRest'
  BY <1>g2 DEF Down, Holds, PanelAtRest, RegionGesture, NoSwipe
<1>17. TapIsHeard'
  BY <1>t, <1>q DEF TapIsHeard
<1>18. AtMostOne'
  BY <1>t, <1>q DEF Holds, AtMostOne

<1>. QED
  BY <1>1, <1>2, <1>3, <1>4, <1>5, <1>6, <1>7, <1>8, <1>9, <1>10, <1>11, <1>12, <1>13, <1>14,
     <1>15, <1>16, <1>17, <1>18
     DEF Holds, Shape

(* A hold selects its row. *)
LEMMA HoldFiresHolds ==
  ASSUME Bounds, Closed, Holds, NEW p \in Touches, NEW r \in Rows, HoldFires(p, r)
  PROVE  Holds'
<1>k. /\ touch[p] \in TouchKinds /\ touch[p].tap /\ ~touch[p].held /\ touch[p].at = "down" /\ touch[p].did = {}
      /\ touch[p].on = r /\ tab = LastTab
  BY DEF HoldFires, Holds, Shape, TouchShape, Closed, Presses, DoneSoFar, Lies, Mounted, Touches
<1>t0. touch'[p] = [[touch[p] EXCEPT !.did = @ \cup {"selected"}] EXCEPT !.held = TRUE]
  BY DEF HoldFires, Did, Holds, Shape, TouchShape
<1>t. /\ touch'[p] \in TouchKinds /\ touch'[p].at = "down" /\ touch'[p].on = r /\ touch'[p].held
      /\ touch'[p].owner = touch[p].owner /\ touch'[p].did = {"selected"} /\ touch'[p].tap
  BY <1>t0, <1>k DEF TouchKinds, Doings
<1>q. \A q \in Touches \ {p} : touch'[q] = touch[q] /\ touch[q].at # "down"
  <2>1. \A q \in Touches \ {p} : touch'[q] = touch[q]
    BY DEF HoldFires, Did, Holds, Shape, TouchShape
  <2>2. \A q \in Touches : touch[q].at = "down" => q = p
    BY <1>k DEF Holds, Alone, Lies, Still
  <2>. QED
    BY <2>1, <2>2
<1>r. /\ \A q \in Rows : rows'[q] \in RowKinds /\ rows'[q].who = 0 /\ ~rows'[q].open /\ press'[q] = 0
      /\ openRow' = 0
  BY IdleIs DEF HoldFires
<1>s. swallow'.held = swallow.held \cup {r}
  BY DEF HoldFires, Holds, Shape, SwallowShape
<1>s2. swallow'.rows = {} /\ ~swallow'.panel
  BY <1>k DEF HoldFires, Holds, Taps, Presses, Lies, Shape, SwallowShape, ScreenShape, Touches,
         Bounds
<1>u. UNCHANGED <<tab, asked, region, pull, panel, enter>>
  BY DEF HoldFires
<1>1. TouchShape'
  BY <1>t, <1>q DEF HoldFires, Did, TouchShape, Holds, Shape
<1>2. RowShape'
  BY <1>r DEF HoldFires, RowShape
<1>3. RegionShape'
  BY <1>u DEF Holds, Shape, RegionShape
<1>4. PullShape'
  BY <1>u DEF Holds, Shape, PullShape
<1>5. SwallowShape'
  BY DEF HoldFires, SwallowShape, Holds, Shape
<1>6. ScreenShape'
  BY DEF Holds, Shape, ScreenShape, HoldFires
<1>7. Alone'
  BY <1>q DEF Holds, Alone, Lies, Still
<1>8. DoneSoFar'
  BY <1>t, <1>q DEF Holds, DoneSoFar, Lies
<1>9. Presses'
  BY <1>r DEF Holds, Presses, Lies, Still, Mounted
<1>10. RowGestures'
  BY <1>r DEF Holds, RowGestures, Lies, Still
<1>11. RegionGesture'
  BY <1>t, <1>u, <1>k, <1>q DEF Holds, RegionGesture, Lies, Still
<1>12. PullGesture'
  BY <1>t, <1>u, <1>k, <1>q DEF Holds, PullGesture, Lies, Still
<1>13. HeldTouch'
  BY <1>t, <1>u, <1>k, <1>q, <1>r, <1>s, <1>s2 DEF Holds, HeldTouch, Lies, Still
<1>14. Taps'
  BY <1>t, <1>q, <1>k DEF HoldFires, Holds, Taps, Lies, Shape, SwallowShape
<1>15. OneTrayOpen'
  BY <1>r DEF Holds, OneTrayOpen, Bounds
<1>16. PanelAtRest'
  BY <1>u DEF Holds, PanelAtRest, Lies, Still
<1>17. TapIsHeard'
  BY <1>t, <1>q DEF Holds, TapIsHeard, Lies, Still
<1>18. AtMostOne'
  BY <1>t, <1>q DEF Holds, AtMostOne, Lies, Still
<1>. QED
  BY <1>1, <1>2, <1>3, <1>4, <1>5, <1>6, <1>7, <1>8, <1>9, <1>10, <1>11, <1>12, <1>13, <1>14,
     <1>15, <1>16, <1>17, <1>18
     DEF Holds, Shape

(* A finger moves sideways. *)
LEMMA MoveSidewaysHolds ==
  ASSUME Bounds, Closed, Holds, NEW p \in Touches, NEW dir \in Sideways, NEW far \in BOOLEAN, MoveSideways(p, dir, far)
  PROVE  Holds'
<1>k. /\ touch[p] \in TouchKinds /\ touch[p].at = "down" /\ ~touch[p].held /\ touch[p].did = {} /\ p # 0
      /\ (pull.who = p => pull.phase = "idle")
  BY DEF MoveSideways, Holds, Shape, TouchShape, Closed, DoneSoFar, Lies, Touches, Bounds
<1>o. OwnerAfter(p, dir) \in {"none", "row", "region"}
  BY <1>k DEF OwnerAfter, TouchKinds
<1>m. touch[p].moves + 1 \in Nat
  BY <1>k DEF TouchKinds
<1>t0. touch'[p] = [touch[p] EXCEPT !.moves = touch[p].moves + 1, !.tap = FALSE, !.owner = OwnerAfter(p, dir)]
  BY DEF MoveSideways, Holds, Shape, TouchShape
<1>t1. /\ touch'[p] \in TouchKinds /\ touch'[p].at = touch[p].at /\ touch'[p].did = touch[p].did /\ ~touch'[p].tap
       /\ touch'[p].on = touch[p].on /\ touch'[p].held = touch[p].held /\ touch'[p].owner = OwnerAfter(p, dir)
  <2> DEFINE u == touch[p]  v == touch'[p]  n == touch[p].moves + 1  o == OwnerAfter(p, dir)
  <2>1. u \in TouchKinds /\ n \in Nat /\ o \in {"none", "row", "region"}
    BY <1>k, <1>m, <1>o
  <2>2. v = [u EXCEPT !.moves = n, !.tap = FALSE, !.owner = o]
    BY <1>t0
  <2> HIDE DEF u, v, n, o
  <2>3. /\ v \in TouchKinds /\ v.at = u.at /\ v.did = u.did /\ ~v.tap /\ v.on = u.on /\ v.held = u.held
        /\ v.owner = o
    BY <2>1, <2>2 DEF TouchKinds
  <2>. QED
    BY <2>3 DEF u, v, o
<1>t. /\ touch'[p] \in TouchKinds /\ touch'[p].at = "down" /\ touch'[p].did = {} /\ ~touch'[p].tap
      /\ touch'[p].on = touch[p].on /\ ~touch'[p].held /\ touch'[p].owner = OwnerAfter(p, dir)
  BY <1>k, <1>t1
<1>q. \A q \in Touches \ {p} : touch'[q] = touch[q]
  BY DEF MoveSideways, Holds, Shape, TouchShape
<1>r. MovesRow(p)
  BY RowMovesIs DEF MoveSideways, Holds, Shape
<1>x. RowHears(p) /\ rows[touch[p].on].axis # "y" => OwnerAfter(p, dir) # "none"
  BY DEF OwnerAfter
<1>x2. OwnerAfter(p, dir) = "none" => touch[p].owner = "none" /\ ~Swipes(p, dir)
  BY DEF OwnerAfter
<1>x3. Swipes(p, dir) => OwnerAfter(p, dir) = "region"
  BY DEF OwnerAfter
<1>g. MovesRegion(p, dir)
  BY RegionMovesIs DEF MoveSideways, Holds, Shape
<1>pr. \A r \in Rows : press'[r] = IF press[r] = p THEN 0 ELSE press[r]
  BY DEF MoveSideways
<1>v. /\ pull'.phase = pull.phase /\ pull'.busy = pull.busy /\ pull'.who \in {0, pull.who} /\ pull' \in PullKinds
      /\ (pull.who # p => pull'.who = pull.who)
  BY <1>k DEF MoveSideways, Holds, Shape, PullShape, PullKinds
<1>u. UNCHANGED <<tab, asked, selecting, atTop, openRow, swallow, enter>>
  BY DEF MoveSideways
<1>n. \A q \in Touches : Lies(q) => ~touch[q].held /\ (touch[q].tap => q = p)
  BY <1>k DEF Holds, Alone, Lies, Still
<1>1. TouchShape'
  BY <1>t, <1>q DEF MoveSideways, TouchShape, Holds, Shape
<1>2. RowShape'
  BY <1>r DEF MovesRow, RowShape
<1>3. RegionShape'
  BY <1>g DEF MovesRegion, RegionShape
<1>4. PullShape'
  BY <1>v DEF PullShape
<1>5. SwallowShape'
  BY <1>u DEF Holds, Shape, SwallowShape
<1>6. ScreenShape'
  BY <1>g, <1>u, <1>pr DEF MovesRegion, Holds, Shape, ScreenShape, MoveSideways
<1>7. Alone'
  BY <1>t, <1>q, <1>n DEF Holds, Alone, Lies, Still
<1>8. DoneSoFar'
  BY <1>t, <1>q DEF Holds, DoneSoFar, Lies
<1>9. Presses'
  BY <1>q, <1>pr, <1>u DEF Holds, Presses, Lies, Still, Mounted
<1>10. RowGestures'
  BY <1>k, <1>t, <1>q, <1>r, <1>x, <1>x2, RowGesturesMove DEF Holds
<1>11. RegionGesture'
  BY <1>g, <1>q, <1>t, <1>k, <1>x3, RegionGestureMoves DEF Holds
<1>12. PullGesture'
  BY <1>k, <1>t, <1>q, <1>v, <1>g DEF MovesRegion, Holds, PullGesture, Lies, Still
<1>13. HeldTouch'
  BY <1>t, <1>q, <1>u, <1>n DEF HeldTouch, Lies, Holds
<1>14. Taps'
  BY <1>t, <1>q, <1>n DEF Holds, Taps, Lies, Still
<1>15. OneTrayOpen'
  BY <1>r, <1>u DEF MovesRow, OneTrayOpen, Holds
<1>16. PanelAtRest'
  BY <1>g DEF MovesRegion
<1>17. TapIsHeard'
  BY <1>t, <1>q DEF Holds, TapIsHeard, Lies, Still
<1>18. AtMostOne'
  BY <1>t, <1>q DEF Holds, AtMostOne, Lies, Still
<1>. QED
  BY <1>1, <1>2, <1>3, <1>4, <1>5, <1>6, <1>7, <1>8, <1>9, <1>10, <1>11, <1>12, <1>13, <1>14,
     <1>15, <1>16, <1>17, <1>18
     DEF Holds, Shape

(* A finger pulls the page. *)
LEMMA PullsHolds ==
  ASSUME Bounds, Closed, Holds, NEW p \in Touches, NEW far \in BOOLEAN, Pulls(p, far)
  PROVE  Holds'
<1>k. /\ touch[p] \in TouchKinds /\ touch[p].at = "down" /\ ~touch[p].held /\ touch[p].did = {} /\ p # 0
      /\ touch[p].owner = "none" /\ pull.who = p /\ ~pull.busy
  BY DEF Pulls, Claims, Holds, Shape, TouchShape, Closed, DoneSoFar, Lies, Touches, Bounds
<1>m. touch[p].moves + 1 \in Nat
  BY <1>k DEF TouchKinds
<1>t0. touch'[p] = [touch[p] EXCEPT !.moves = touch[p].moves + 1, !.tap = FALSE]
  BY DEF Pulls, Holds, Shape, TouchShape
<1>t1. /\ touch'[p] \in TouchKinds /\ touch'[p].at = touch[p].at /\ touch'[p].did = touch[p].did /\ ~touch'[p].tap
       /\ touch'[p].on = touch[p].on /\ touch'[p].held = touch[p].held /\ touch'[p].owner = touch[p].owner
  <2> DEFINE u == touch[p]  v == touch'[p]  n == touch[p].moves + 1
  <2>1. u \in TouchKinds /\ n \in Nat
    BY <1>k, <1>m
  <2>2. v = [u EXCEPT !.moves = n, !.tap = FALSE]
    BY <1>t0
  <2> HIDE DEF u, v, n
  <2>3. /\ v \in TouchKinds /\ v.at = u.at /\ v.did = u.did /\ ~v.tap /\ v.on = u.on /\ v.held = u.held
        /\ v.owner = u.owner
    BY <2>1, <2>2 DEF TouchKinds
  <2>. QED
    BY <2>3 DEF u, v
<1>t. /\ touch'[p] \in TouchKinds /\ touch'[p].at = "down" /\ touch'[p].did = {} /\ ~touch'[p].tap
      /\ touch'[p].on = touch[p].on /\ ~touch'[p].held /\ touch'[p].owner = "none"
  BY <1>k, <1>t1
<1>q. \A q \in Touches \ {p} : touch'[q] = touch[q]
  BY DEF Pulls, Holds, Shape, TouchShape
<1>r. MovesRow(p)
  BY RowMovesIs DEF Pulls, Holds, Shape
<1>x. RowHears(p) => rows[touch[p].on].axis # "x"
  BY <1>k DEF Holds, RowGestures, RowHears, Lies
<1>x1. RowHears(p) => rows'[touch[p].on].axis = "y"
  BY <1>x DEF Pulls, RowMoves, Sideways, RowHears, Holds, Shape, RowShape, RowKinds, Axes
<1>x3. ~Swipes(p, "down")
  BY <1>k DEF Swipes, Recognised, Sideways, Holds, RegionGesture
<1>g. MovesRegion(p, "down")
  BY RegionMovesIs, <1>x3 DEF Pulls, Holds, Shape
<1>pr. \A r \in Rows : press'[r] = IF press[r] = p THEN 0 ELSE press[r]
  BY DEF Pulls
<1>v. /\ pull'.phase \in {"pulling", "armed"} /\ ~pull'.busy /\ pull'.who = p /\ pull' \in PullKinds
  BY <1>k DEF Pulls, Holds, Shape, PullShape, PullKinds
<1>u. UNCHANGED <<tab, asked, selecting, atTop, openRow, swallow, enter>>
  BY DEF Pulls
<1>n. \A q \in Touches : Lies(q) => ~touch[q].held /\ (touch[q].tap => q = p)
  BY <1>k DEF Holds, Alone, Lies, Still
<1>1. TouchShape'
  BY <1>t, <1>q DEF Pulls, TouchShape, Holds, Shape
<1>2. RowShape'
  BY <1>r DEF MovesRow, RowShape
<1>3. RegionShape'
  BY <1>g DEF MovesRegion, RegionShape
<1>4. PullShape'
  BY <1>v DEF PullShape
<1>5. SwallowShape'
  BY <1>u DEF Holds, Shape, SwallowShape
<1>6. ScreenShape'
  BY <1>g, <1>u, <1>pr DEF MovesRegion, Holds, Shape, ScreenShape, Pulls
<1>7. Alone'
  BY <1>t, <1>q, <1>n DEF Holds, Alone, Lies, Still
<1>8. DoneSoFar'
  BY <1>t, <1>q DEF Holds, DoneSoFar, Lies
<1>9. Presses'
  BY <1>q, <1>pr, <1>u DEF Holds, Presses, Lies, Still, Mounted
<1>10. RowGestures'
  BY <1>k, <1>t, <1>q, <1>r, <1>x, <1>x1, RowGesturesPulled DEF Holds
<1>11. RegionGesture'
  BY <1>g, <1>q, <1>t, <1>k, <1>x3, RegionGestureMoves DEF Holds
<1>12. PullGesture'
  BY <1>k, <1>t, <1>v, <1>g, <1>x3 DEF MovesRegion, PullGesture, Lies, Still
<1>13. HeldTouch'
  BY <1>t, <1>q, <1>u, <1>n DEF HeldTouch, Lies, Holds
<1>14. Taps'
  BY <1>t, <1>q, <1>n DEF Holds, Taps, Lies, Still
<1>15. OneTrayOpen'
  BY <1>r, <1>u DEF MovesRow, OneTrayOpen, Holds
<1>16. PanelAtRest'
  BY <1>g DEF MovesRegion
<1>17. TapIsHeard'
  BY <1>t, <1>q DEF Holds, TapIsHeard, Lies, Still
<1>18. AtMostOne'
  BY <1>t, <1>q DEF Holds, AtMostOne, Lies, Still
<1>. QED
  BY <1>1, <1>2, <1>3, <1>4, <1>5, <1>6, <1>7, <1>8, <1>9, <1>10, <1>11, <1>12, <1>13, <1>14,
     <1>15, <1>16, <1>17, <1>18
     DEF Holds, Shape

(* A finger lifts. Of a step of the tabs, a tray, a refresh and a click it *)
(* can be at most one: each needs the pointer, and a click needs that no   *)
(* other hook swallowed it.                                                *)
LEMMA LiftHolds ==
  ASSUME Bounds, Closed, Holds, NEW p \in Touches, NEW clicks \in BOOLEAN, Lift(p, clicks)
  PROVE  Holds'
<1>k. /\ touch[p] \in TouchKinds /\ touch[p].at = "down" /\ p # 0
      /\ touch[p].did = (IF touch[p].held THEN {"selected"} ELSE {})
  BY DEF Lift, Holds, Shape, TouchShape, DoneSoFar, Lies, Touches, Bounds
<1>a. \A q \in Touches \ {p} : Lies(q) => ~Still(q)
  BY <1>k DEF Holds, Alone, Lies
<1> DEFINE armed == Armed(p)
           r == touch[p].on
           open == r \in Rows /\ Mounted /\ (IF RowDragged(p) THEN rows[r].past ELSE rows[r].open)
           outcome == IF clicks THEN ClickOutcome(p, armed, open) ELSE "none"
<1>l. /\ (touch[p].tap \/ touch[p].held => clicks) /\ (clicks => pull.who # p \/ pull.phase = "idle")
      /\ IF outcome = "closed"
         THEN rows' = [rows EXCEPT ![r].open = FALSE, ![r].who = 0] /\ openRow' = 0
         ELSE RowEnds(p, FALSE)
      /\ RegionEnds(p, FALSE) /\ pull' = PullEnds(p)
      /\ swallow' = (IF clicks THEN Taken(p, armed) ELSE armed)
      /\ touch' = [touch EXCEPT ![p].at = "up", ![p].did = @ \cup Came(p, outcome)]
      /\ press' = [q \in Rows |-> IF press[q] = p THEN 0 ELSE press[q]]
      /\ UNCHANGED <<tab, selecting, atTop>>
  BY DEF Lift
<1>w. armed \in [panel : BOOLEAN, rows : SUBSET Rows, held : SUBSET Rows] /\ armed.held = swallow.held
  <2>1. RowDragged(p) => r \in Rows
    BY DEF RowDragged, RowHears
  <2>2. swallow.panel \in BOOLEAN /\ Swiped(p) \in BOOLEAN
    BY DEF Holds, Shape, SwallowShape, Swiped
  <2>. QED
    BY <2>1, <2>2 DEF Armed, Holds, Shape, SwallowShape
<1>w2. /\ armed.panel = (swallow.panel \/ Swiped(p))
       /\ armed.rows = IF RowDragged(p) THEN swallow.rows \cup {r} ELSE swallow.rows
  BY DEF Armed, Holds, Shape, SwallowShape
<1>x1. Swiped(p) => touch[p].owner = "region" /\ ~Still(p)
  BY <1>k DEF Swiped, Holds, RegionGesture
<1>x2. RowDragged(p) => /\ touch[p].owner \notin {"none", "region"} /\ ~touch[p].tap /\ ~touch[p].held
                        /\ r \in Rows /\ Mounted
  <2> SUFFICES ASSUME RowDragged(p) PROVE /\ touch[p].owner \notin {"none", "region"} /\ ~touch[p].tap /\ ~touch[p].held
                        /\ r \in Rows /\ Mounted
    OBVIOUS
  <2>1. r \in Rows /\ Mounted /\ rows[r].who = p /\ rows[r].axis = "x" /\ touch[p].owner # "region"
    BY DEF RowDragged, RowHears
  <2>2. touch[p].owner # "none" /\ ~touch[p].tap
    BY <1>k, <2>1 DEF Holds, RowGestures, Lies
  <2>3. ~touch[p].held
    BY <1>k, <2>1 DEF Holds, HeldTouch, Lies
  <2>. QED
    BY <2>1, <2>2, <2>3
<1>x3. ~pull.busy /\ PullEnds(p).busy => pull.phase = "armed" /\ ~touch[p].held
  BY UnpulledIs DEF PullEnds
<1>x4. pull.phase \in {"pulling", "armed"} /\ pull.who = p => ~Still(p) /\ touch[p].owner = "none"
  BY DEF Holds, PullGesture
<1> HIDE DEF armed, outcome, open
<1>c. /\ outcome \in {"none", "closed", "opened", "toggled"}
      /\ (outcome # "none" => clicks /\ ~armed.panel /\ r \in Rows /\ tab = LastTab)
      /\ (outcome # "none" /\ Mounted => r \notin armed.rows)
      /\ (outcome = "closed" => Mounted /\ open)
      /\ (outcome \in {"opened", "toggled"} => r \notin armed.held)
  BY <1>k DEF outcome, ClickOutcome, TouchKinds, Body
<1>c2. clicks /\ ~armed.panel /\ r \in Rows /\ tab = LastTab /\ r \notin armed.rows /\ r \notin armed.held => outcome # "none"
  BY <1>k DEF outcome, ClickOutcome, TouchKinds, Body, Bounds
<1>h. touch[p].held => /\ swallow.held \subseteq {r} /\ ~armed.panel /\ armed.rows = {} /\ clicks
                       /\ r \in Rows /\ (tab = LastTab => r \in armed.held) /\ outcome = "none"
  <2> SUFFICES ASSUME touch[p].held PROVE /\ swallow.held \subseteq {r} /\ ~armed.panel /\ armed.rows = {} /\ clicks
                       /\ r \in Rows /\ (tab = LastTab => r \in armed.held) /\ outcome = "none"
    OBVIOUS
  <2>1. /\ r \in Rows /\ ~swallow.panel /\ swallow.rows = {} /\ ~rows[r].open
        /\ (tab = LastTab => r \in swallow.held)
    BY <1>k DEF Holds, HeldTouch, Lies
  <2>2. swallow.held \subseteq {r}
    BY <1>a DEF Holds, HeldTouch, Still, Shape, SwallowShape
  <2>3. ~Swiped(p) /\ ~RowDragged(p)
    BY <1>x1, <1>x2 DEF Still
  <2>4. ~armed.panel /\ armed.rows = {} /\ ~open
    BY <2>1, <2>3, <1>w2 DEF open
  <2>5. outcome = "none"
    BY <1>c, <2>1, <2>4, <1>w
  <2>. QED
    BY <2>1, <2>2, <2>4, <2>5, <1>w, <1>l
<1>e. swallow'.held = {} /\ swallow' \in [panel : BOOLEAN, rows : SUBSET Rows, held : SUBSET Rows]
  <2>1. clicks => swallow' = Taken(p, armed)
    BY <1>l
  <2>2. ~clicks => swallow' = armed
    BY <1>l
  <2>3. swallow' \in [panel : BOOLEAN, rows : SUBSET Rows, held : SUBSET Rows]
    BY <2>1, <2>2, <1>w DEF Taken
  <2>4. ~touch[p].held => swallow.held = {}
    BY <1>a DEF Holds, HeldTouch, Still, Shape, SwallowShape
  <2>5. ~touch[p].held => swallow'.held = {}
    BY <2>1, <2>2, <2>4, <1>w DEF Taken
  <2>6. touch[p].held => swallow'.held = {}
    BY <2>1, <1>h, <1>w DEF Taken
  <2>. QED
    BY <2>3, <2>5, <2>6
<1>m. /\ Came(p, outcome) \subseteq Doings
      /\ ("stepped" \in Came(p, outcome) => Swiped(p))
      /\ ("tray" \in Came(p, outcome) => RowDragged(p))
      /\ ("refreshed" \in Came(p, outcome) => ~pull.busy /\ PullEnds(p).busy /\ pull.who = p)
      /\ \A v \in Came(p, outcome) : v \in {"stepped", "tray", "refreshed"} \/ (v = outcome /\ outcome # "none")
      /\ (outcome # "none" => outcome \in Came(p, outcome))
  BY <1>c DEF Came, Steps, Doings
<1>m2. \A v, w \in touch[p].did \cup Came(p, outcome) : v = w
  <2>1. touch[p].held => Came(p, outcome) = {}
    BY <1>m, <1>h, <1>x1, <1>x2, <1>x3 DEF Still
  <2>2. ~touch[p].held => touch[p].did = {}
    BY <1>k
  <2>3. "stepped" \in Came(p, outcome) => "tray" \notin Came(p, outcome) /\ "refreshed" \notin Came(p, outcome) /\ outcome = "none"
    BY <1>m, <1>x1, <1>x2, <1>x3, <1>x4, <1>c, <1>w2
  <2>4. "tray" \in Came(p, outcome) => "refreshed" \notin Came(p, outcome) /\ outcome = "none"
    BY <1>m, <1>x2, <1>x3, <1>x4, <1>c, <1>w2
  <2>5. "refreshed" \in Came(p, outcome) => outcome = "none"
    BY <1>m, <1>x3, <1>c, <1>l
  <2>6. touch[p].held => touch[p].did = {"selected"}
    BY <1>k
  <2>. QED
    BY <2>1, <2>2, <2>3, <2>4, <2>5, <2>6, <1>m
<1>t0. touch'[p] = [touch[p] EXCEPT !.at = "up", !.did = touch[p].did \cup Came(p, outcome)]
  BY <1>l DEF Holds, Shape, TouchShape
<1>t. /\ touch'[p] \in TouchKinds /\ touch'[p].at = "up" /\ touch'[p].did = touch[p].did \cup Came(p, outcome)
      /\ touch'[p].tap = touch[p].tap /\ touch'[p].on = r /\ touch'[p].held = touch[p].held
  <2> DEFINE u == touch[p]  v == touch'[p]  d == touch[p].did \cup Came(p, outcome)
  <2>1. u \in TouchKinds /\ d \in SUBSET Doings
    BY <1>k, <1>m DEF TouchKinds
  <2>2. v = [u EXCEPT !.at = "up", !.did = d]
    BY <1>t0
  <2> HIDE DEF u, v, d
  <2>3. v \in TouchKinds /\ v.at = "up" /\ v.did = d /\ v.tap = u.tap /\ v.on = u.on /\ v.held = u.held
    BY <2>1, <2>2 DEF TouchKinds
  <2>. QED
    BY <2>3 DEF u, v, d
<1>q. \A q \in Touches \ {p} : touch'[q] = touch[q]
  BY <1>l DEF Holds, Shape, TouchShape
<1>r. EndsRow(p)
  <2>1. CASE outcome # "closed"
    BY <2>1, <1>l, RowEndsIs DEF Holds, Shape
  <2>2. CASE outcome = "closed"
    <3>1. ~RowDragged(p)
      BY <2>2, <1>c, <1>w2
    <3>2. r \in Rows /\ openRow = r
      BY <2>2, <1>c, <3>1 DEF open, Holds, OneTrayOpen
    <3>3. rows' = [rows EXCEPT ![r].open = FALSE, ![r].who = 0] /\ openRow' = 0
      BY <2>2, <1>l
    <3> HIDE DEF r
    <3>. QED
      BY <3>2, <3>3 DEF EndsRow, Holds, Shape, RowShape, RowKinds, OneTrayOpen, Bounds
  <2>. QED
    BY <2>1, <2>2
<1>o. \A q \in Rows : rows'[q] \in RowKinds /\ (rows'[q].open <=> openRow' = q)
  BY <1>r DEF EndsRow, Holds
<1>f. \A q \in Rows : rows'[q].who # 0 => rows'[q].who = rows[q].who /\ rows'[q].axis = rows[q].axis
  BY <1>r DEF EndsRow
<1>g. EndsRegion(p)
  BY RegionEndsIs, <1>l DEF Holds, Shape
<1>v. /\ pull' \in PullKinds
      /\ \/ pull' = pull /\ pull.phase \notin {"pulling", "armed"}
         \/ /\ pull'.who = 0 /\ pull'.phase \in {"idle", "refreshing"}
            /\ pull'.busy <=> pull'.phase = "refreshing"
  <2>1. CASE pull.who = 0 \/ pull.busy \/ touch[p].held
    <3>1. pull' = pull
      BY <2>1, <1>l DEF PullEnds
    <3>2. pull.phase \in {"pulling", "armed"} => pull.who # 0 /\ ~pull.busy /\ pull.who \in Touches /\ Lies(pull.who) /\ ~Still(pull.who)
      BY DEF Holds, PullGesture
    <3>3. touch[p].held => pull.phase \notin {"pulling", "armed"}
      BY <3>2, <1>k DEF Holds, Alone, Lies, Still
    <3>. QED
      BY <2>1, <3>1, <3>2, <3>3 DEF Holds, Shape, PullShape
  <2>2. CASE ~(pull.who = 0 \/ pull.busy \/ touch[p].held)
    BY <2>2, <1>l, UnpulledIs DEF PullEnds, PullKinds
  <2>. QED
    BY <2>1, <2>2
<1>pr. \A q \in Rows : press'[q] = IF press[q] = p THEN 0 ELSE press[q]
  BY <1>l
<1>u. UNCHANGED <<tab, selecting, atTop>>
  BY <1>l
<1>tap. touch[p].tap /\ r \in Rows /\ ~touch[p].held => Came(p, outcome) # {}
  <2> SUFFICES ASSUME touch[p].tap, r \in Rows, ~touch[p].held PROVE Came(p, outcome) # {}
    OBVIOUS
  <2>1. tab = LastTab /\ ~swallow.panel /\ r \notin swallow.rows
    BY <1>k DEF Holds, Taps, Lies
  <2>2. ~Swiped(p) /\ ~RowDragged(p)
    BY <1>x1, <1>x2 DEF Still
  <2>3. swallow.held = {}
    BY <1>a DEF Holds, HeldTouch, Still, Shape, SwallowShape
  <2>. QED
    BY <2>1, <2>2, <2>3, <1>w, <1>w2, <1>c2, <1>m, <1>l
<1>1. TouchShape'
  BY <1>t, <1>q, <1>l DEF TouchShape, Holds, Shape
<1>2. RowShape'
  BY <1>r DEF EndsRow, RowShape
<1>3. RegionShape'
  BY <1>g DEF EndsRegion, RegionShape
<1>4. PullShape'
  BY <1>v DEF PullShape, Holds, Shape
<1>5. SwallowShape'
  BY <1>e DEF SwallowShape
<1>6. ScreenShape'
  BY <1>r, <1>g, <1>u, <1>pr, <1>l DEF EndsRow, EndsRegion, Holds, Shape, ScreenShape
<1>7. Alone'
  BY <1>t, <1>q DEF Holds, Alone, Lies, Still
<1>8. DoneSoFar'
  BY <1>t, <1>q DEF Holds, DoneSoFar, Lies, Still
<1>9. Presses'
  BY <1>q, <1>pr, <1>u DEF Holds, Presses, Lies, Still, Mounted
<1>10. RowGestures'
  BY <1>t, <1>q, <1>f DEF Holds, RowGestures, Lies, Still
<1>11. RegionGesture'
  BY <1>g, <1>q, RegionGestureEnds DEF Holds
<1>12. PullGesture'
  BY <1>t, <1>q, <1>v DEF Holds, PullGesture, Lies, Still
<1>13. HeldTouch'
  BY <1>a, <1>t, <1>q, <1>e DEF HeldTouch, Lies, Still
<1>14. Taps'
  BY <1>a, <1>t, <1>q DEF Taps, Lies, Still

<1>15. OneTrayOpen'
  BY <1>o DEF OneTrayOpen
<1>16. PanelAtRest'
  BY <1>g DEF EndsRegion
<1>17. TapIsHeard'
  BY <1>tap, <1>t, <1>q DEF Holds, TapIsHeard
<1>18. AtMostOne'
  BY <1>m2, <1>t, <1>q DEF Holds, AtMostOne
<1>. QED
  BY <1>1, <1>2, <1>3, <1>4, <1>5, <1>6, <1>7, <1>8, <1>9, <1>10, <1>11, <1>12, <1>13, <1>14,
     <1>15, <1>16, <1>17, <1>18
     DEF Holds, Shape

(* The system takes the touch. *)
LEMMA CancelledHolds ==
  ASSUME Bounds, Closed, Holds, NEW p \in Touches, Cancelled(p)
  PROVE  Holds'
<1>k. /\ touch[p] \in TouchKinds /\ touch[p].at = "down" /\ ~touch[p].held /\ touch[p].did = {} /\ ~pull.busy
      /\ p # 0
  BY DEF Cancelled, Holds, Shape, TouchShape, Closed, DoneSoFar, Lies, Touches, Bounds
<1>n. \A q \in Touches : Lies(q) => ~touch[q].held
  BY <1>k DEF Holds, Alone, Lies, Still
<1>e0. swallow.held = {}
  BY <1>n DEF Holds, HeldTouch, Lies, Shape, SwallowShape
<1>t. /\ touch'[p] \in TouchKinds /\ touch'[p].at = "up" /\ touch'[p].did = {} /\ ~touch'[p].tap
  BY <1>k DEF Cancelled, Holds, Shape, TouchShape, TouchKinds
<1>q. \A q \in Touches \ {p} : touch'[q] = touch[q]
  BY DEF Cancelled, Holds, Shape, TouchShape
<1>r. EndsRow(p)
  BY RowEndsIs, <1>k DEF Cancelled, Holds, Shape
<1>o. \A r \in Rows : rows'[r] \in RowKinds /\ (rows'[r].open <=> openRow' = r)
  BY <1>r DEF EndsRow, Holds
<1>e. \A r \in Rows : rows'[r].who # 0 => rows'[r].who = rows[r].who /\ rows'[r].axis = rows[r].axis
  BY <1>r DEF EndsRow
<1>g. EndsRegion(p)
  BY RegionEndsIs, <1>k DEF Cancelled, Holds, Shape
<1>pr. \A r \in Rows : press'[r] = IF press[r] = p THEN 0 ELSE press[r]
  BY DEF Cancelled
<1>v. /\ pull'.who = 0 /\ pull'.phase = "idle" /\ ~pull'.busy /\ pull' \in PullKinds
  BY <1>k DEF Cancelled, Holds, Shape, PullShape, PullKinds
<1>u. UNCHANGED <<tab, selecting, swallow>>
  BY DEF Cancelled
<1>1. TouchShape'
  BY <1>t, <1>q DEF Cancelled, TouchShape, Holds, Shape
<1>2. RowShape'
  BY <1>r DEF EndsRow, RowShape
<1>3. RegionShape'
  BY <1>g DEF EndsRegion, RegionShape
<1>4. PullShape'
  BY <1>v DEF PullShape
<1>5. SwallowShape'
  BY <1>u DEF Holds, Shape, SwallowShape
<1>6. ScreenShape'
  BY <1>r, <1>g, <1>u, <1>pr DEF EndsRow, EndsRegion, Holds, Shape, ScreenShape, Cancelled
<1>7. Alone'
  BY <1>t, <1>q DEF Holds, Alone, Lies, Still
<1>8. DoneSoFar'
  BY <1>t, <1>q DEF Holds, DoneSoFar, Lies, Still
<1>9. Presses'
  BY <1>q, <1>pr, <1>u DEF Holds, Presses, Lies, Still, Mounted
<1>10. RowGestures'
  BY <1>t, <1>q, <1>e DEF Holds, RowGestures, Lies, Still
<1>11. RegionGesture'
  BY <1>g, <1>q, RegionGestureEnds DEF Holds
<1>12. PullGesture'
  BY <1>v DEF Holds, PullGesture, Lies, Still
<1>13. HeldTouch'
  BY <1>t, <1>q, <1>u, <1>n, <1>e0 DEF HeldTouch, Lies

<1>14. Taps'
  BY <1>t, <1>q, <1>u DEF Holds, Taps, Lies, Still
<1>15. OneTrayOpen'
  BY <1>o DEF OneTrayOpen
<1>16. PanelAtRest'
  BY <1>g DEF EndsRegion, Holds, PanelAtRest
<1>17. TapIsHeard'
  BY <1>t, <1>q DEF Holds, TapIsHeard, Lies, Still
<1>18. AtMostOne'
  BY <1>t, <1>q DEF Holds, AtMostOne, Lies, Still
<1>. QED
  BY <1>1, <1>2, <1>3, <1>4, <1>5, <1>6, <1>7, <1>8, <1>9, <1>10, <1>11, <1>12, <1>13, <1>14,
     <1>15, <1>16, <1>17, <1>18
     DEF Holds, Shape

(* The browser scrolls. *)
LEMMA PansHolds ==
  ASSUME Bounds, Closed, Holds, NEW p \in Touches, NEW dir \in {"up", "down"}, Pans(p, dir)
  PROVE  Holds'
<1>k. /\ touch[p] \in TouchKinds /\ touch[p].at = "down" /\ touch[p].owner = "none" /\ ~touch[p].held /\ touch[p].did = {}
      /\ (pull.who = p => pull.phase = "idle")
  BY DEF Pans, Holds, Shape, TouchShape, Closed, DoneSoFar, Lies
<1>t. /\ touch'[p] \in TouchKinds /\ touch'[p].at = "up" /\ touch'[p].did = {} /\ ~touch'[p].tap
  BY <1>k DEF Pans, Holds, Shape, TouchShape, TouchKinds
<1>q. \A q \in Touches \ {p} : touch'[q] = touch[q]
  BY DEF Pans, Holds, Shape, TouchShape
<1>r. /\ \A r \in Rows :
           /\ rows'[r] \in RowKinds /\ rows'[r].who = IF rows[r].who = p THEN 0 ELSE rows[r].who
           /\ ~rows'[r].open /\ rows'[r].axis = rows[r].axis
      /\ openRow' = 0
  BY DEF Pans, Holds, Shape, RowShape, RowKinds
<1>pr. \A r \in Rows : press'[r] = IF press[r] = p THEN 0 ELSE press[r]
  BY DEF Pans
<1>g. /\ region.who # p => region' = region
      /\ region.who = p => region' = NoSwipe /\ region'.who = 0 /\ region.axis # "x"
      /\ region' \in RegionKinds
  BY <1>k, NoSwipeIs DEF Pans, Holds, RegionGesture, Shape, RegionShape
<1>v. /\ pull.busy => pull' = pull
      /\ ~pull.busy => pull' = Unpulled /\ pull'.who = 0 /\ pull'.phase = "idle" /\ ~pull'.busy
      /\ pull' \in PullKinds
  BY UnpulledIs DEF Pans, Holds, Shape, PullShape
<1>u. UNCHANGED <<tab, asked, selecting, swallow, enter, panel>>
  BY DEF Pans
<1>1. TouchShape'
  BY <1>t, <1>q DEF Pans, TouchShape, Holds, Shape
<1>2. RowShape'
  BY <1>r DEF Pans, RowShape
<1>3. RegionShape'
  BY <1>g DEF RegionShape
<1>4. PullShape'
  BY <1>v DEF PullShape

<1>5. SwallowShape'
  BY <1>u DEF Holds, Shape, SwallowShape
<1>6. ScreenShape'
  BY DEF Holds, Shape, ScreenShape, Pans
<1>7. Alone'
  BY <1>t, <1>q DEF Holds, Alone, Lies, Still
<1>8. DoneSoFar'
  BY <1>t, <1>q DEF Holds, DoneSoFar, Lies, Still
<1>9. Presses'
  BY <1>q, <1>pr, <1>u DEF Holds, Presses, Lies, Still, Mounted
<1>10. RowGestures'
  BY <1>q, <1>r DEF Holds, RowGestures, Lies, Still
<1>11. RegionGesture'
  BY <1>q, <1>g DEF Holds, RegionGesture, Lies, Still
<1>12. PullGesture'
  BY <1>t, <1>q, <1>v DEF Holds, PullGesture, Lies, Still
<1>13. HeldTouch'
  BY <1>k, <1>t, <1>q, <1>r, <1>u DEF Holds, HeldTouch, Lies, Still
<1>14. Taps'
  BY <1>t, <1>q, <1>u DEF Holds, Taps, Lies, Still
<1>15. OneTrayOpen'
  BY <1>r DEF Holds, OneTrayOpen, Bounds
<1>16. PanelAtRest'
  BY <1>g, <1>u DEF Holds, PanelAtRest, Lies, Still
<1>17. TapIsHeard'
  BY <1>t, <1>q DEF Holds, TapIsHeard, Lies, Still
<1>18. AtMostOne'
  BY <1>t, <1>q DEF Holds, AtMostOne, Lies, Still
<1>. QED
  BY <1>1, <1>2, <1>3, <1>4, <1>5, <1>6, <1>7, <1>8, <1>9, <1>10, <1>11, <1>12, <1>13, <1>14,
     <1>15, <1>16, <1>17, <1>18
     DEF Holds, Shape

(* A tab is picked. *)
LEMMA PicksHolds ==
  ASSUME Bounds, Closed, Holds, NEW t \in 0..LastTab, Picks(t)
  PROVE  Holds'
<1>u. /\ UNCHANGED <<tab, selecting, atTop, touch, rows, openRow, press, swallow, region, enter, panel, pull>>
      /\ asked' = t /\ \A q \in Touches : ~Lies(q)
  BY DEF Picks, Fingers, Lies
<1>1. TouchShape'
  BY <1>u DEF Holds, Shape, TouchShape
<1>2. RowShape'
  BY <1>u DEF Holds, Shape, RowShape
<1>3. RegionShape'
  BY <1>u DEF Holds, Shape, RegionShape
<1>4. PullShape'
  BY <1>u DEF Holds, Shape, PullShape
<1>5. SwallowShape'
  BY <1>u DEF Holds, Shape, SwallowShape
<1>6. ScreenShape'
  BY <1>u DEF Holds, Shape, ScreenShape
<1>7. Alone'
  BY <1>u DEF Holds, Alone, Lies, Still
<1>8. DoneSoFar'
  BY <1>u DEF Holds, DoneSoFar, Lies, Still
<1>9. Presses'
  BY <1>u DEF Holds, Presses, Lies, Still, Mounted
<1>10. RowGestures'
  BY <1>u DEF Holds, RowGestures, Lies, Still
<1>11. RegionGesture'
  BY <1>u DEF Holds, RegionGesture, Lies, Still
<1>12. PullGesture'
  BY <1>u DEF Holds, PullGesture, Lies, Still
<1>13. HeldTouch'
  BY <1>u DEF Holds, HeldTouch, Lies, Still
<1>14. Taps'
  BY <1>u DEF Holds, Taps, Lies, Still
<1>15. OneTrayOpen'
  BY <1>u DEF Holds, OneTrayOpen, Lies, Still
<1>16. PanelAtRest'
  BY <1>u DEF Holds, PanelAtRest, Lies, Still
<1>17. TapIsHeard'
  BY <1>u DEF Holds, TapIsHeard, Lies, Still
<1>18. AtMostOne'
  BY <1>u DEF Holds, AtMostOne, Lies, Still
<1>. QED
  BY <1>1, <1>2, <1>3, <1>4, <1>5, <1>6, <1>7, <1>8, <1>9, <1>10, <1>11, <1>12, <1>13, <1>14,
     <1>15, <1>16, <1>17, <1>18
     DEF Holds, Shape

(* The router commits. *)
LEMMA CommitsHolds ==
  ASSUME Bounds, Closed, Holds, Commits
  PROVE  Holds'
<1>t. \A q \in Touches :
        /\ touch'[q] \in TouchKinds /\ touch'[q].at = touch[q].at /\ touch'[q].on = touch[q].on
        /\ touch'[q].held = touch[q].held /\ touch'[q].owner = touch[q].owner /\ touch'[q].did = touch[q].did
        /\ (touch'[q].tap => touch[q].tap) /\ (touch'[q].tap => touch[q].at # "down")
  BY DEF Commits, Untapped, Holds, Shape, TouchShape, TouchKinds
<1>n. \A q \in Touches : touch[q].at = "new" => touch'[q] = touch[q]
  <2> SUFFICES ASSUME NEW q \in Touches, touch[q].at = "new" PROVE touch'[q] = touch[q]
    OBVIOUS
  <2>1. touch[q] \in TouchKinds /\ touch[q].tap = FALSE
    BY UntouchedIs DEF Holds, Shape, TouchShape, DoneSoFar
  <2>2. touch'[q] = [touch[q] EXCEPT !.tap = touch[q].tap /\ touch[q].at # "down"]
    BY DEF Commits, Untapped
  <2>. QED
    BY <2>1, <2>2 DEF TouchKinds
<1>r. /\ \A r \in Rows : rows'[r] \in RowKinds /\ rows'[r].who = 0 /\ ~rows'[r].open /\ press'[r] = 0
      /\ openRow' = 0
  BY IdleIs DEF Commits, RowsLeave
<1>s. swallow'.panel = swallow.panel /\ swallow'.rows = {} /\ swallow'.held = {}
  BY DEF Commits, Holds, Shape, SwallowShape
<1>u. UNCHANGED <<asked, region, pull, panel>> /\ tab # asked /\ tab' = asked /\ (enter' = "none" <=> enter = "none")
  BY DEF Commits
<1>1. TouchShape'
  BY <1>t DEF Commits, Untapped, TouchShape
<1>2. RowShape'
  BY <1>r DEF Commits, RowsLeave, RowShape
<1>3. RegionShape'
  BY <1>u DEF Holds, Shape, RegionShape
<1>4. PullShape'
  BY <1>u DEF Holds, Shape, PullShape
<1>5. SwallowShape'
  BY DEF Holds, Shape, SwallowShape, Commits
<1>6. ScreenShape'
  BY DEF Holds, Shape, ScreenShape, Commits, RowsLeave
<1>7. Alone'
  BY <1>t DEF Holds, Alone, Lies, Still
<1>8. DoneSoFar'
  BY <1>t, <1>n DEF Holds, DoneSoFar, Lies, Still
<1>9. Presses'
  BY <1>r DEF Holds, Presses, Lies, Still, Mounted
<1>10. RowGestures'
  BY <1>r DEF Holds, RowGestures, Lies, Still
<1>11. RegionGesture'
  BY <1>t, <1>u DEF Holds, RegionGesture, Lies, Still
<1>12. PullGesture'
  BY <1>t, <1>u DEF Holds, PullGesture, Lies, Still
<1>13. HeldTouch'
  BY <1>t, <1>u, <1>r, <1>s DEF Holds, HeldTouch, Lies, Still
<1>14. Taps'
  BY <1>t DEF Holds, Taps, Lies, Still
<1>15. OneTrayOpen'
  BY <1>r DEF Holds, OneTrayOpen, Bounds
<1>16. PanelAtRest'
  BY <1>u DEF Holds, PanelAtRest, Lies, Still
<1>17. TapIsHeard'
  BY <1>t DEF Holds, TapIsHeard, Lies, Still
<1>18. AtMostOne'
  BY <1>t DEF Holds, AtMostOne, Lies, Still
<1>. QED
  BY <1>1, <1>2, <1>3, <1>4, <1>5, <1>6, <1>7, <1>8, <1>9, <1>10, <1>11, <1>12, <1>13, <1>14,
     <1>15, <1>16, <1>17, <1>18
     DEF Holds, Shape

(* A step is let go. *)
LEMMA RestsHolds ==
  ASSUME Bounds, Closed, Holds, Rests
  PROVE  Holds'
<1>u. UNCHANGED <<tab, asked, selecting, atTop, touch, rows, openRow, press, swallow, region, pull>> /\ enter' = "none" /\ panel' = "rest"
  BY DEF Rests
<1>1. TouchShape'
  BY <1>u DEF Holds, Shape, TouchShape
<1>2. RowShape'
  BY <1>u DEF Holds, Shape, RowShape
<1>3. RegionShape'
  BY <1>u DEF Holds, Shape, RegionShape
<1>4. PullShape'
  BY <1>u DEF Holds, Shape, PullShape
<1>5. SwallowShape'
  BY <1>u DEF Holds, Shape, SwallowShape
<1>6. ScreenShape'
  BY <1>u DEF Holds, Shape, ScreenShape
<1>7. Alone'
  BY <1>u DEF Holds, Alone, Lies, Still
<1>8. DoneSoFar'
  BY <1>u DEF Holds, DoneSoFar, Lies, Still
<1>9. Presses'
  BY <1>u DEF Holds, Presses, Lies, Still, Mounted
<1>10. RowGestures'
  BY <1>u DEF Holds, RowGestures, Lies, Still
<1>11. RegionGesture'
  BY <1>u DEF Holds, RegionGesture, Lies, Still
<1>12. PullGesture'
  BY <1>u DEF Holds, PullGesture, Lies, Still
<1>13. HeldTouch'
  BY <1>u DEF Holds, HeldTouch, Lies, Still
<1>14. Taps'
  BY <1>u DEF Holds, Taps, Lies, Still
<1>15. OneTrayOpen'
  BY <1>u DEF Holds, OneTrayOpen, Lies, Still
<1>16. PanelAtRest'
  BY <1>u DEF Holds, PanelAtRest, Lies, Still
<1>17. TapIsHeard'
  BY <1>u DEF Holds, TapIsHeard, Lies, Still
<1>18. AtMostOne'
  BY <1>u DEF Holds, AtMostOne, Lies, Still
<1>. QED
  BY <1>1, <1>2, <1>3, <1>4, <1>5, <1>6, <1>7, <1>8, <1>9, <1>10, <1>11, <1>12, <1>13, <1>14,
     <1>15, <1>16, <1>17, <1>18
     DEF Holds, Shape

(* The rows are rows again. *)
LEMMA SelectionEndsHolds ==
  ASSUME Bounds, Closed, Holds, SelectionEnds
  PROVE  Holds'
<1>t. \A q \in Touches :
        /\ touch'[q] \in TouchKinds /\ touch'[q].at = touch[q].at /\ touch'[q].on = touch[q].on
        /\ touch'[q].held = touch[q].held /\ touch'[q].owner = touch[q].owner /\ touch'[q].did = touch[q].did
        /\ (touch'[q].tap => touch[q].tap) /\ (touch'[q].tap => touch[q].at # "down")
  BY DEF SelectionEnds, Untapped, Holds, Shape, TouchShape, TouchKinds
<1>n. \A q \in Touches : touch[q].at = "new" => touch'[q] = touch[q]
  <2> SUFFICES ASSUME NEW q \in Touches, touch[q].at = "new" PROVE touch'[q] = touch[q]
    OBVIOUS
  <2>1. touch[q] \in TouchKinds /\ touch[q].tap = FALSE
    BY UntouchedIs DEF Holds, Shape, TouchShape, DoneSoFar
  <2>2. touch'[q] = [touch[q] EXCEPT !.tap = touch[q].tap /\ touch[q].at # "down"]
    BY DEF SelectionEnds, Untapped
  <2>. QED
    BY <2>1, <2>2 DEF TouchKinds
<1>u. UNCHANGED <<tab, asked, rows, openRow, press, swallow, region, enter, panel, pull>> /\ selecting /\ ~selecting'
  BY DEF SelectionEnds
<1>1. TouchShape'
  BY <1>t DEF SelectionEnds, Untapped, TouchShape
<1>2. RowShape'
  BY <1>u DEF Holds, Shape, RowShape
<1>3. RegionShape'
  BY <1>u DEF Holds, Shape, RegionShape
<1>4. PullShape'
  BY <1>u DEF Holds, Shape, PullShape
<1>5. SwallowShape'
  BY <1>u DEF Holds, Shape, SwallowShape
<1>6. ScreenShape'
  BY DEF Holds, Shape, ScreenShape, SelectionEnds
<1>7. Alone'
  BY <1>t DEF Holds, Alone, Lies, Still
<1>8. DoneSoFar'
  BY <1>t, <1>n DEF Holds, DoneSoFar, Lies, Still
<1>9. Presses'
  BY <1>u DEF Holds, Presses, Lies, Still, Mounted
<1>10. RowGestures'
  BY <1>t, <1>u DEF Holds, RowGestures, Lies, Still
<1>11. RegionGesture'
  BY <1>t, <1>u DEF Holds, RegionGesture, Lies, Still
<1>12. PullGesture'
  BY <1>t, <1>u DEF Holds, PullGesture, Lies, Still
<1>13. HeldTouch'
  BY <1>t, <1>u DEF Holds, HeldTouch, Lies, Still
<1>14. Taps'
  BY <1>t DEF Holds, Taps, Lies, Still
<1>15. OneTrayOpen'
  BY <1>u DEF Holds, OneTrayOpen, Lies, Still
<1>16. PanelAtRest'
  BY <1>u DEF Holds, PanelAtRest, Lies, Still
<1>17. TapIsHeard'
  BY <1>t DEF Holds, TapIsHeard, Lies, Still
<1>18. AtMostOne'
  BY <1>t DEF Holds, AtMostOne, Lies, Still
<1>. QED
  BY <1>1, <1>2, <1>3, <1>4, <1>5, <1>6, <1>7, <1>8, <1>9, <1>10, <1>11, <1>12, <1>13, <1>14,
     <1>15, <1>16, <1>17, <1>18
     DEF Holds, Shape

(* The refresh ends. *)
LEMMA RefreshEndsHolds ==
  ASSUME Bounds, Closed, Holds, RefreshEnds
  PROVE  Holds'
<1>u. pull' = Unpulled /\ pull'.phase = "idle" /\ ~pull'.busy /\ pull'.who = 0 /\ pull' \in PullKinds
  BY UnpulledIs DEF RefreshEnds
<1>w. UNCHANGED <<tab, asked, selecting, atTop, touch, rows, openRow, press, swallow, region, enter, panel>>
  BY DEF RefreshEnds
<1>1. TouchShape'
  BY <1>w DEF Holds, Shape, TouchShape
<1>2. RowShape'
  BY <1>w DEF Holds, Shape, RowShape
<1>3. RegionShape'
  BY <1>w DEF Holds, Shape, RegionShape
<1>4. PullShape'
  BY <1>u DEF PullShape
<1>5. SwallowShape'
  BY <1>w DEF Holds, Shape, SwallowShape
<1>6. ScreenShape'
  BY <1>w DEF Holds, Shape, ScreenShape
<1>7. Alone'
  BY <1>w DEF Holds, Alone, Lies, Still
<1>8. DoneSoFar'
  BY <1>w DEF Holds, DoneSoFar, Lies, Still
<1>9. Presses'
  BY <1>w DEF Holds, Presses, Lies, Still, Mounted
<1>10. RowGestures'
  BY <1>w DEF Holds, RowGestures, Lies, Still
<1>11. RegionGesture'
  BY <1>w DEF Holds, RegionGesture, Lies, Still
<1>12. PullGesture'
  BY <1>u DEF PullGesture
<1>13. HeldTouch'
  BY <1>w DEF Holds, HeldTouch, Lies, Still
<1>14. Taps'
  BY <1>w DEF Holds, Taps, Lies, Still
<1>15. OneTrayOpen'
  BY <1>w DEF Holds, OneTrayOpen, Lies, Still
<1>16. PanelAtRest'
  BY <1>w DEF Holds, PanelAtRest, Lies, Still
<1>17. TapIsHeard'
  BY <1>w DEF Holds, TapIsHeard, Lies, Still
<1>18. AtMostOne'
  BY <1>w DEF Holds, AtMostOne, Lies, Still
<1>. QED
  BY <1>1, <1>2, <1>3, <1>4, <1>5, <1>6, <1>7, <1>8, <1>9, <1>10, <1>11, <1>12, <1>13, <1>14,
     <1>15, <1>16, <1>17, <1>18
     DEF Holds, Shape

-----------------------------------------------------------------------------
(* What it comes to *)

(* A note opened on its recordings. *)
LEMMA InitHolds ==
  ASSUME Bounds, TouchInit
  PROVE  Holds
<1>1. Shape
  <2>1. TouchShape /\ RowShape /\ RegionShape /\ PullShape
    BY IdleIs, NoSwipeIs, UnpulledIs, UntouchedIs
       DEF TouchInit, TouchShape, RowShape, RegionShape, PullShape
  <2>2. SwallowShape
    BY DEF TouchInit, SwallowShape
  <2>3. ScreenShape
    <3>1. LastTab \in 0..LastTab
      BY DEF Bounds
    <3>2. press \in [Rows -> {0} \cup Touches]
      BY DEF TouchInit
    <3>. QED
      BY <3>1, <3>2 DEF TouchInit, ScreenShape
  <2>. QED
    BY <2>1, <2>2, <2>3 DEF Shape
<1>2. \A p \in Touches : touch[p] = Untouched /\ touch[p].at = "new" /\ touch[p].did = {}
  BY DEF TouchInit, Untouched
<1>3. \A r \in Rows : rows[r].who = 0 /\ ~rows[r].open /\ press[r] = 0 /\ openRow # r
  BY IdleIs DEF TouchInit, Bounds
<1>4. /\ region = NoSwipe /\ region.who = 0 /\ pull.who = 0 /\ pull.phase = "idle" /\ ~pull.busy
      /\ swallow.held = {} /\ panel = "rest"
  BY NoSwipeIs, UnpulledIs DEF TouchInit
<1>. QED
  BY <1>1, <1>2, <1>3, <1>4
     DEF Holds, Alone, DoneSoFar, Presses, RowGestures, RegionGesture, PullGesture, HeldTouch, Taps,
         OneTrayOpen, PanelAtRest, TapIsHeard, AtMostOne, Lies

(* Every step keeps the invariant. *)
LEMMA NextHolds ==
  ASSUME Bounds, Closed, Holds, [TouchNext]_touchVars
  PROVE  Holds'
<1>1. CASE UNCHANGED touchVars
  BY <1>1 DEF touchVars, Holds, Shape, TouchShape, RowShape, RegionShape, PullShape, SwallowShape,
         ScreenShape,
              Alone, DoneSoFar, Presses, RowGestures, RegionGesture, PullGesture, HeldTouch, Taps,
              OneTrayOpen, PanelAtRest, TapIsHeard, AtMostOne, Lies, Still, Mounted
<1>2. CASE TouchNext
  BY <1>2, DownHolds, HoldFiresHolds, MoveSidewaysHolds, PullsHolds, LiftHolds, CancelledHolds,
     PansHolds,
     PicksHolds, CommitsHolds, RestsHolds, SelectionEndsHolds, RefreshEndsHolds DEF TouchNext
<1>. QED
  BY <1>1, <1>2

(* A set whose members are all the same has at most one. *)
LEMMA FewAreOne ==
  ASSUME NEW S, \A v, w \in S : v = w
  PROVE  Cardinality(S) <= 1
<1>1. CASE S = {}
  BY <1>1, FS_EmptySet
<1>2. CASE S # {}
  <2>1. PICK v \in S : TRUE
    BY <1>2
  <2>2. S = {v}
    BY <2>1
  <2>. QED
    BY <2>2, FS_Singleton
<1>. QED
  BY <1>1, <1>2

(* The invariant says more than the property. *)
LEMMA HoldsIsOneThing ==
  ASSUME Holds
  PROVE  TouchIsOneThing
<1>1. TouchTypeOK
  BY DEF Holds, Shape, TouchShape, TouchKinds, PullShape, PullKinds, ScreenShape, TouchTypeOK
<1>2. OneTouchOneThing
  BY FewAreOne DEF Holds, AtMostOne, OneTouchOneThing
<1>3. PullTellsTheTruth
  BY DEF Holds, PullGesture, PullTellsTheTruth, Shape, PullShape, PullKinds, Fingers, Lies
<1>. QED
  BY <1>1, <1>2, <1>3 DEF Holds, TouchIsOneThing

(* A touch does one thing of the four hooks', one tray is open and the  *)
(* registry names it, the panel and the pull's line stand only under a  *)
(* finger or over work that runs, and a tap on a row is heard: for any  *)
(* number of rows, tabs, touches and moves, with no finger landing on a *)
(* held row and no touch taken while a refresh runs.                    *)
THEOREM TouchIsAlwaysOneThing ==
  ASSUME Bounds, Closed
  PROVE  TouchSpec => []TouchIsOneThing
<1>1. TouchInit => Holds
  BY InitHolds
<1>2. Holds /\ [TouchNext]_touchVars => Holds'
  BY NextHolds
<1>3. Holds => TouchIsOneThing
  BY HoldsIsOneThing
<1>. QED
  BY <1>1, <1>2, <1>3, PTL DEF TouchSpec
=============================================================================
