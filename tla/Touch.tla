---------------------------------- MODULE Touch ----------------------------------
(***************************************************************************)
(* Fingers on a note's screen, where four hooks listen to the same touch:  *)
(* the tab swipe across the panel (useHorizontalSwipe), a recording row's  *)
(* tray (useSwipeActions under SwipeRow), the hold that selects a row      *)
(* (useLongPress) and the pull that refreshes the note (usePullToRefresh). *)
(* The row's handlers run before the panel's, and the page's touch         *)
(* listener last.  A move is past the slop; "far" is past half the tray,   *)
(* past 30 % of the width or a flick, or past the pull's threshold.  The   *)
(* browser gives a pointer to the element that asked for it last and tells *)
(* one that had not yet received it nothing.                               *)
(***************************************************************************)
EXTENDS Integers, FiniteSets

CONSTANTS
  Rows,          \* recording rows, positive integers
  LastTab,       \* the Recordings tab; tabs are 0..LastTab
  MaxTouches, MaxMoves,
  Windows        \* timings left out of a run unless named here, see the guards

VARIABLES
  tab, asked,    \* the tab shown; the one the router has been asked for
  selecting,     \* the rows are checkboxes
  atTop,         \* the page is scrolled to its top
  touch,         \* per touch: where it landed, what it does, who has its pointer, what came of it
  rows, openRow, \* per row: its gesture and its tray; the module's registry of the open one
  press,         \* per row: the touch its hold timer runs for, 0 none
  swallow,       \* who waits to swallow a lift's click: the panel 0, the rows, held rows
  region, enter, panel,  \* the tab swipe: its gesture, the step on its way, the panel's place
  pull           \* the pull: its touch, its phase, whether a refresh runs

touchVars == <<tab, asked, selecting, atTop, touch, rows, openRow, press, swallow, region, enter, panel, pull>>

Touches == 1..MaxTouches
Body == 0
Fingers == {p \in Touches : touch[p].at = "down"}
Mounted == tab = LastTab /\ ~selecting

Untouched == [at |-> "new", on |-> Body, tap |-> FALSE, held |-> FALSE, owner |-> "none", moves |-> 0, did |-> {}]
Over == [Untouched EXCEPT !.at = "up"]
Idle == [who |-> 0, axis |-> "undecided", wasOpen |-> FALSE, past |-> FALSE, open |-> FALSE]
NoSwipe == [who |-> 0, axis |-> "undecided", onRow |-> FALSE, onOpen |-> FALSE, dir |-> "none", far |-> FALSE]
Unpulled == [who |-> 0, phase |-> "idle", busy |-> FALSE]

Did(p, what) == [touch EXCEPT ![p].did = @ \cup {what}]
Sideways == {"left", "right"}
CanGo(dir) == IF dir = "left" THEN tab < LastTab ELSE tab > 0

-----------------------------------------------------------------------------
(* A finger lands.  One that is alone from landing to lifting, and still, is a tap. *)

Pressed(g, p) == IF g.who # 0 THEN g ELSE [g EXCEPT !.who = p, !.axis = "undecided", !.wasOpen = g.open, !.past = g.open]

(* A swallow no click consumed is dropped by a new press. *)
Reset(on) ==
  [panel |-> FALSE, rows |-> swallow.rows \ {on}, held |-> IF Mounted THEN swallow.held \ {on} ELSE swallow.held]

LandsOn(p, on) ==
  IF on \in Rows /\ Mounted
  THEN /\ rows' = [r \in Rows |-> IF r = on THEN Pressed(rows[r], p) ELSE [rows[r] EXCEPT !.open = FALSE]]
       /\ openRow' = (IF openRow = on THEN on ELSE 0)
       /\ press' = [press EXCEPT ![on] = p]
  ELSE /\ rows' = [r \in Rows |-> [rows[r] EXCEPT !.open = FALSE]] /\ openRow' = 0 /\ UNCHANGED press

Down(p, on) ==
  /\ touch[p].at = "new" /\ \A q \in 1..(p - 1) : touch[q].at # "new"
  /\ Cardinality(Fingers) < 2 /\ ((\E q \in Fingers : touch[q].held) => "amid_hold" \in Windows)
  /\ (on \in Rows => tab = LastTab)
  /\ touch' = [q \in Touches |-> IF q = p THEN [touch[p] EXCEPT !.at = "down", !.on = on, !.tap = Fingers = {}]
                                ELSE IF touch[q].at = "up" THEN Over ELSE [touch[q] EXCEPT !.tap = FALSE]]
  /\ LandsOn(p, on) /\ swallow' = Reset(on)
  /\ enter' = "none" /\ panel' = (IF enter = "none" THEN panel ELSE "rest")
  /\ region' = IF region.who # 0 THEN region
               ELSE [NoSwipe EXCEPT !.who = p, !.onRow = (on \in Rows /\ Mounted),
                                    !.onOpen = (on \in Rows /\ Mounted /\ rows[on].open)]
  /\ pull' = IF ~pull.busy /\ Fingers = {} /\ atTop THEN [pull EXCEPT !.who = p] ELSE pull
  /\ UNCHANGED <<tab, asked, selecting, atTop>>

(* Held still for LONG_PRESS_MS: the row is selected, and the rows become checkboxes. *)
HoldFires(p, r) ==
  /\ press[r] = p /\ touch[p].at = "down" /\ (~touch[p].tap => "amid_hold" \in Windows)
  /\ touch' = [Did(p, "selected") EXCEPT ![p].held = TRUE]
  /\ swallow' = [swallow EXCEPT !.held = @ \cup {r}, !.rows = {}]
  /\ selecting' = TRUE /\ press' = [q \in Rows |-> 0] /\ rows' = [q \in Rows |-> Idle] /\ openRow' = 0
  /\ UNCHANGED <<tab, asked, atTop, region, enter, panel, pull>>

-----------------------------------------------------------------------------
(* A finger moves *)

(* A scroll, the tray of a closed row opening and an open row either way are not the tabs'. *)
Recognised(p, dir) == dir \in Sideways /\ ~(region.onRow /\ dir = "left") /\ ~region.onOpen

Swipes(p, dir) ==
  /\ region.who = p
  /\ (region.axis = "x" \/ (region.axis = "undecided" /\ Recognised(p, dir)))

(* The tray under a finger: a drag left from closed, or right from open, moves it. *)
Dragged(g, dir, far) ==
  [g EXCEPT !.axis = "x", !.past = IF g.wasOpen THEN ~(dir = "right" /\ far) ELSE dir = "left" /\ far]

RowHears(p) ==
  LET r == touch[p].on IN
  r \in Rows /\ Mounted /\ rows[r].who = p /\ touch[p].owner # "region"

RowMoves(p, dir, far) ==
  LET r == touch[p].on IN
  IF ~RowHears(p) THEN UNCHANGED rows
  ELSE rows' = [rows EXCEPT ![r] =
         IF @.axis = "undecided" /\ dir \notin Sideways THEN [@ EXCEPT !.axis = "y"]
         ELSE IF @.axis = "y" THEN @ ELSE Dragged(@, dir, far)]

RegionMoves(p, dir, far) ==
  IF Swipes(p, dir)
  THEN region' = [region EXCEPT !.axis = "x", !.dir = dir, !.far = far] /\ panel' = "moved"
  ELSE /\ region' = (IF region.who = p THEN [region EXCEPT !.axis = "y"] ELSE region) /\ UNCHANGED panel

OwnerAfter(p, dir) ==
  IF Swipes(p, dir) THEN "region"
  ELSE IF RowHears(p) /\ rows[touch[p].on].axis # "y" /\ dir \in Sideways THEN "row"
  ELSE touch[p].owner

(* Prevented by the panel, sideways or up: not a pull. *)
MoveSideways(p, dir, far) ==
  /\ touch[p].at = "down" /\ touch[p].moves < MaxMoves /\ dir \in Sideways
  /\ (touch[p].held => "amid_hold" \in Windows)
  /\ (pull.who = p => pull.phase = "idle")
  /\ RowMoves(p, dir, far) /\ RegionMoves(p, dir, far)
  /\ touch' = [touch EXCEPT ![p].moves = @ + 1, ![p].tap = FALSE, ![p].owner = OwnerAfter(p, dir)]
  /\ press' = [r \in Rows |-> IF press[r] = p THEN 0 ELSE press[r]]
  /\ pull' = IF pull.who = p /\ ~pull.busy THEN [pull EXCEPT !.who = 0] ELSE pull
  /\ UNCHANGED <<tab, asked, selecting, atTop, openRow, swallow, enter>>

Claims(p, dir) == dir = "down" /\ pull.who = p /\ ~pull.busy /\ atTop

(* Down from the top of the page, alone: the pull's, and the browser is kept off it. *)
Pulls(p, far) ==
  /\ touch[p].at = "down" /\ touch[p].moves < MaxMoves /\ (touch[p].held => "amid_hold" \in Windows)
  /\ touch[p].owner = "none" /\ Claims(p, "down") /\ ~touch[p].held
  /\ RowMoves(p, "down", far) /\ RegionMoves(p, "down", far)
  /\ touch' = [touch EXCEPT ![p].moves = @ + 1, ![p].tap = FALSE]
  /\ press' = [r \in Rows |-> IF press[r] = p THEN 0 ELSE press[r]]
  /\ pull' = [pull EXCEPT !.phase = IF far THEN "armed" ELSE "pulling"]
  /\ UNCHANGED <<tab, asked, selecting, atTop, openRow, swallow, enter>>

-----------------------------------------------------------------------------
(* A finger lifts, or its pointer is taken away *)

Settle(r, opens) ==
  /\ openRow' = (IF opens THEN r ELSE IF openRow = r THEN 0 ELSE openRow)
  /\ rows' = [q \in Rows |-> IF q = r THEN [rows[r] EXCEPT !.who = 0, !.open = opens]
                             ELSE [rows[q] EXCEPT !.open = @ /\ ~opens]]

RowDragged(p) == RowHears(p) /\ rows[touch[p].on].axis = "x"

RowEnds(p, cancelled) ==
  LET r == touch[p].on IN
  IF RowDragged(p) THEN Settle(r, IF cancelled THEN rows[r].wasOpen ELSE rows[r].past)
  ELSE /\ rows' = (IF RowHears(p) THEN [rows EXCEPT ![r].who = 0] ELSE rows)
       /\ UNCHANGED openRow

Swiped(p) == region.who = p /\ region.axis = "x"
Steps(p) == Swiped(p) /\ region.far /\ CanGo(region.dir)

SnapsBack(p) == region' = NoSwipe /\ panel' = "rest" /\ UNCHANGED <<enter, asked>>

RegionEnds(p, cancelled) ==
  IF region.who # p THEN UNCHANGED <<region, enter, panel, asked>>
  ELSE IF Steps(p) /\ ~cancelled
  THEN /\ region' = NoSwipe /\ enter' = "waiting" /\ UNCHANGED panel
       /\ asked' = (IF region.dir = "left" THEN tab + 1 ELSE tab - 1)
  ELSE IF Swiped(p) THEN SnapsBack(p)
  ELSE region' = NoSwipe /\ UNCHANGED <<enter, panel, asked>>

(* A row taken from the page under the finger takes the page's touch events with it. *)
PullEnds(p) ==
  IF pull.who = 0 \/ pull.busy \/ touch[p].held THEN pull
  ELSE IF pull.phase = "armed" THEN [who |-> 0, phase |-> "refreshing", busy |-> TRUE] ELSE Unpulled

UnarmedMutant(p) == swallow
Armed(p) ==
  [swallow EXCEPT !.panel = @ \/ Swiped(p),
                  !.rows = IF RowDragged(p) THEN @ \cup {touch[p].on} ELSE @]

(* What the click does where the finger landed: the panel's, the row's, the summary's handler. *)
ClickOutcome(p, armed, open) ==
  LET r == touch[p].on IN
  IF armed.panel \/ r = Body \/ tab # LastTab THEN "none"
  ELSE IF Mounted
  THEN IF r \in armed.rows THEN "none" ELSE IF open THEN "closed" ELSE IF r \in armed.held THEN "none" ELSE "opened"
  ELSE IF r \in armed.held THEN "none" ELSE "toggled"

(* Whoever swallows a click swallows one. *)
Taken(p, armed) ==
  LET r == touch[p].on IN
  IF armed.panel THEN [armed EXCEPT !.panel = FALSE]
  ELSE IF Mounted /\ r \in armed.rows THEN [armed EXCEPT !.rows = @ \ {r}]
  ELSE [armed EXCEPT !.held = @ \ {r}]

Came(p, outcome) ==
  {w \in {"stepped", "tray", "refreshed", outcome} :
     /\ w = "stepped" => Steps(p)
     /\ w = "tray" => RowDragged(p)
     /\ w = "refreshed" => (~pull.busy /\ PullEnds(p).busy /\ pull.who = p)
     /\ w # "none"}

Lift(p, clicks) ==
  LET armed == Armed(p)  r == touch[p].on
      open == r \in Rows /\ Mounted /\ (IF RowDragged(p) THEN rows[r].past ELSE rows[r].open)
      outcome == IF clicks THEN ClickOutcome(p, armed, open) ELSE "none" IN
  /\ touch[p].at = "down" /\ (touch[p].tap \/ touch[p].held => clicks)
  /\ (clicks => pull.who # p \/ pull.phase = "idle")
  /\ IF outcome = "closed"
     THEN rows' = [rows EXCEPT ![r].open = FALSE, ![r].who = 0] /\ openRow' = 0
     ELSE RowEnds(p, FALSE)
  /\ RegionEnds(p, FALSE) /\ pull' = PullEnds(p)
  /\ swallow' = (IF clicks THEN Taken(p, armed) ELSE armed)
  /\ touch' = [touch EXCEPT ![p].at = "up", ![p].did = @ \cup Came(p, outcome)]
  /\ press' = [q \in Rows |-> IF press[q] = p THEN 0 ELSE press[q]]
  /\ UNCHANGED <<tab, selecting, atTop>>

(* The system takes the touch: no click follows, and no touch end. *)
Cancelled(p) ==
  /\ touch[p].at = "down" /\ (touch[p].held => "amid_hold" \in Windows) /\ (pull.busy => "interrupted" \in Windows)
  /\ RowEnds(p, TRUE) /\ RegionEnds(p, TRUE)
  /\ pull' = [pull EXCEPT !.who = 0, !.phase = "idle"]
  /\ touch' = [touch EXCEPT ![p].at = "up", ![p].tap = FALSE]
  /\ press' = [q \in Rows |-> IF press[q] = p THEN 0 ELSE press[q]]
  /\ UNCHANGED <<tab, selecting, atTop, swallow>>

(* A vertical drag the pull does not claim is the browser's: the pointer is cancelled, *)
(* and what scrolls closes an open tray.                                                *)
Pans(p, dir) ==
  /\ touch[p].at = "down" /\ touch[p].owner = "none" /\ ~Claims(p, dir) /\ (touch[p].held => "amid_hold" \in Windows)
  /\ pull.who = p => pull.phase = "idle"
  /\ region' = (IF region.who = p THEN NoSwipe ELSE region)
  /\ rows' = [r \in Rows |-> [rows[r] EXCEPT !.who = IF @ = p THEN 0 ELSE @, !.open = FALSE]] /\ openRow' = 0
  /\ pull' = (IF pull.busy THEN pull ELSE Unpulled) /\ atTop' \in (IF dir = "up" THEN {FALSE} ELSE BOOLEAN)
  /\ touch' = [touch EXCEPT ![p].at = "up", ![p].tap = FALSE]
  /\ press' = [r \in Rows |-> IF press[r] = p THEN 0 ELSE press[r]]
  /\ UNCHANGED <<tab, asked, selecting, swallow, enter, panel>>

-----------------------------------------------------------------------------
(* The screen *)

Untapped == touch' = [p \in Touches |-> [touch[p] EXCEPT !.tap = @ /\ touch[p].at # "down"]]
RowsLeave == /\ rows' = [r \in Rows |-> Idle] /\ openRow' = 0 /\ press' = [r \in Rows |-> 0]

(* A tab's button or its arrow keys. *)
Picks(t) ==
  /\ asked = tab /\ t # tab /\ Fingers = {} /\ asked' = t
  /\ UNCHANGED <<tab, selecting, atTop, touch, rows, openRow, press, swallow, region, enter, panel, pull>>

(* The router commits: the panel is another's, and a step on its way is posed beside it. *)
Commits ==
  /\ asked # tab /\ tab' = asked /\ selecting' = FALSE /\ RowsLeave /\ Untapped
  /\ swallow' = [swallow EXCEPT !.rows = {}, !.held = {}]
  /\ enter' = (IF enter = "waiting" THEN "posed" ELSE enter) /\ UNCHANGED <<asked, atTop, region, panel, pull>>

(* Two frames later it is let go. *)
Rests ==
  /\ enter = "posed" /\ enter' = "none" /\ panel' = "rest"
  /\ UNCHANGED <<tab, asked, selecting, atTop, touch, rows, openRow, press, swallow, region, pull>>

SelectionEnds ==
  /\ selecting /\ selecting' = FALSE /\ Untapped
  /\ UNCHANGED <<tab, asked, atTop, rows, openRow, press, swallow, region, enter, panel, pull>>

RefreshEnds ==
  /\ pull.busy /\ pull' = Unpulled
  /\ UNCHANGED <<tab, asked, selecting, atTop, touch, rows, openRow, press, swallow, region, enter, panel>>

TouchInit ==
  /\ tab = LastTab /\ asked = LastTab /\ selecting = FALSE /\ atTop \in BOOLEAN
  /\ touch = [p \in Touches |-> Untouched]
  /\ rows = [r \in Rows |-> Idle] /\ openRow = 0 /\ press = [r \in Rows |-> 0]
  /\ swallow = [panel |-> FALSE, rows |-> {}, held |-> {}]
  /\ region = NoSwipe /\ enter = "none" /\ panel = "rest" /\ pull = Unpulled

TouchNext ==
  \/ \E p \in Touches :
       \/ \E on \in Rows \cup {Body} : Down(p, on)
       \/ \E r \in Rows : HoldFires(p, r)
       \/ \E far \in BOOLEAN : Pulls(p, far) \/ \E dir \in Sideways : MoveSideways(p, dir, far)
       \/ \E clicks \in BOOLEAN : Lift(p, clicks)
       \/ \E dir \in {"up", "down"} : Pans(p, dir)
       \/ Cancelled(p)
  \/ \E t \in 0..LastTab : Picks(t)
  \/ Commits \/ Rests \/ SelectionEnds \/ RefreshEnds

TouchSpec == TouchInit /\ [][TouchNext]_touchVars

-----------------------------------------------------------------------------
(* Types. *)
TouchTypeOK ==
  /\ tab \in 0..LastTab /\ asked \in 0..LastTab /\ openRow \in Rows \cup {0}
  /\ enter \in {"none", "waiting", "posed"} /\ pull.phase \in {"idle", "pulling", "armed", "refreshing"}
  /\ \A p \in Touches : touch[p].owner \in {"none", "row", "region"}

(* A touch does one thing: steps the tab, moves a tray, refreshes, selects or taps, of four  *)
(* hooks that do not know of each other (the hand-offs their headers describe).             *)
OneTouchOneThing == \A p \in Touches : Cardinality(touch[p].did) <= 1

(* One tray is open at a time, and the registry names it: another row's, a tap elsewhere and *)
(* a scroll find it to close.                                                               *)
OneTrayOpen == \A r \in Rows : rows[r].open <=> openRow = r

(* The panel is out of its place only under a finger or on its way in.  *)
PanelAtRest == panel = "rest" \/ region.axis = "x" \/ enter # "none"

(* The pull's line stands only under a finger or over a refresh that runs, and says it runs. *)
PullTellsTheTruth ==
  /\ pull.phase = "idle" \/ pull.busy \/ \E p \in Fingers : pull.who = p
  /\ pull.busy <=> pull.phase = "refreshing"

(* swallowNextClick.ts: "a new press resets it".  A tap on a row does what a tap does. *)
TapIsHeard ==
  \A p \in Touches : (touch[p].at = "up" /\ touch[p].tap /\ touch[p].on \in Rows /\ ~touch[p].held)
                       => touch[p].did # {}

-----------------------------------------------------------------------------
(* Fingers over the four hooks: all of the above, in every state.             *)
TouchIsOneThing ==
  /\ TouchTypeOK /\ OneTouchOneThing /\ OneTrayOpen /\ PanelAtRest /\ PullTellsTheTruth
  /\ TapIsHeard

-----------------------------------------------------------------------------
(* What the repository says that the code does not keep. *)

(* useSwipeActions.ts: "Once the drag has committed the row holds capture, so the up or      *)
(* cancel is its own", for a gesture left armed leaves "this row deaf to every later touch". *)
NeverDeaf == Fingers = {} => \A r \in Rows : rows[r].who = 0
=============================================================================
