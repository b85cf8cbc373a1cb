------------------------------ MODULE HoldToTalk ------------------------------
(***************************************************************************)
(* Push-to-talk on the tab bar's record disc: the gesture, a pure reducer  *)
(* (features/capture/holdGesture.ts), the hook that feeds it pointer, key, *)
(* timer and store events and runs its effects (useHoldToTalk.ts), the     *)
(* click a browser sends after a press (hooks/swallowNextClick.ts), and    *)
(* the capture screen a tap or a lock opens (CaptureScreen.tsx).  The take *)
(* is the capture store's, reduced to what a hold and that screen ask of   *)
(* it; Recording has the store itself.  A clock is a flag: "long" is a     *)
(* take of MIN_TALK_MS or more, and the arm's timer fires when it fires.   *)
(***************************************************************************)
EXTENDS Integers, FiniteSets

CONSTANTS
  MaxPresses,
  MaxMishaps,   \* microphones that fail, tracks that end, presses the system takes
  Windows       \* "eager" (pressing again while the take thrown away is still going)

VARIABLES
  gesture,
  fingers,      \* what is physically down: the pointer, Space, R
  tracked,      \* the pointer the disc captured is still its own
  permission,   \* what the browser says of the microphone
  take,
  swallow, click,   \* a click to swallow; the press whose click is still to come, 0 none
  screen,       \* "bar", "opening", "capture", "typing", and the press that opened it
  presses, mishaps,
  recordings,   \* history: the recordings with audio in them each press has made
  left          \* history: the take was left running, from the capture screen

holdVars == <<gesture, fingers, tracked, permission, take, swallow, click, screen, presses, mishaps,
              recordings, left>>

Sources == {"pointer", "space", "key"}
Idle == [st |-> "idle", audio |-> FALSE, long |-> FALSE, sendAsked |-> FALSE,
         discarding |-> FALSE, by |-> 0]
AtRest == [phase |-> "idle", source |-> "pointer", pressing |-> FALSE, suppress |-> FALSE,
           permission |-> "prompt", standDown |-> "none"]
Bar == [at |-> "bar", by |-> 0]

Busy(t) == t.st \in {"requesting", "recording", "stopping", "uploading"}
HasBufferedAudio(t) == t.audio /\ t.st \in {"review", "uploading", "failed"}
Live(t) == t.st \in {"requesting", "recording"} /\ ~t.discarding

Mishap == mishaps < MaxMishaps /\ mishaps' = mishaps + 1

-----------------------------------------------------------------------------
(* The reducer: a gesture and an event to a gesture and its effects. *)

Step(g, effects) == [gesture |-> g, effects |-> effects]

(* Back to rest, keeping only whether a finger is still down. *)
Rest(g) == [AtRest EXCEPT !.pressing = g.pressing, !.suppress = g.suppress]

(* A release sends what is live, and what settled by itself with audio in it. *)
Sendable(t) == t.st = "recording" \/ (t.st \in {"stopping", "review"} /\ t.audio)

Finish(g, t) ==
  IF t.st = "failed" THEN Step(Rest(g), {})
  ELSE IF Sendable(t) /\ t.long THEN Step(Rest(g), {"send"})
  ELSE Step(Rest(g), {"discard"})

StandDownFor(t, p) ==
  IF t.st \in {"uploading", "stopping"} THEN "busy"
  ELSE IF Busy(t) \/ HasBufferedAudio(t) THEN "quiet"
  ELSE IF p = "denied" THEN "blocked" ELSE "none"

UnsuppressedMutant(g) ==
  IF g.standDown # "none" THEN Step([g EXCEPT !.phase = "standdown"], {})
  ELSE Step([g EXCEPT !.phase = "holding"], {"start"})

Arm(g) ==
  IF g.standDown = "quiet" THEN Step([g EXCEPT !.phase = "standdown"], {})
  ELSE IF g.standDown # "none" THEN Step([g EXCEPT !.phase = "standdown", !.suppress = TRUE], {})
  ELSE Step([g EXCEPT !.phase = "holding", !.suppress = TRUE], {"start"})

Down(g, source, t, p) ==
  IF g.phase # "idle" \/ g.pressing THEN Step(g, {})
  ELSE Step([phase |-> "armed", source |-> source, pressing |-> TRUE, suppress |-> FALSE,
             permission |-> p, standDown |-> StandDownFor(t, p)], {})

Tick(g) == IF g.phase = "armed" THEN Arm(g) ELSE Step(g, {})

(* A held pointer past a line; lock is read first. *)
Slide(g, zone) ==
  IF g.phase # "holding" \/ g.source # "pointer" THEN Step(g, {})
  ELSE IF zone \in {"lock", "both"} THEN Step(Rest(g), {"lock"})
  ELSE IF zone = "cancel" THEN Step([g EXCEPT !.phase = "cancelled"], {"discard"})
  ELSE Step(g, {})

Move(g, zone) ==
  IF g.phase # "armed" THEN Slide(g, zone)
  ELSE LET armed == Arm(g)
           next == Slide(armed.gesture, zone)
       IN Step(next.gesture, armed.effects \cup next.effects)

(* Let go, or taken: a tap, a send, a slip, or a lock while the prompt is up. *)
Lift(g, t, tap) ==
  LET lifted == [g EXCEPT !.pressing = FALSE, !.suppress = FALSE]
      out == CASE g.phase = "armed" ->
                    Step(Rest(lifted), IF tap /\ g.source = "space" THEN {"open"} ELSE {})
               [] g.phase = "holding" /\ t.st = "requesting" /\ g.permission # "granted" ->
                    Step(Rest(lifted), {"lock"})
               [] g.phase = "holding" /\ ~(t.st = "requesting" /\ g.permission # "granted") ->
                    Finish(lifted, t)
               [] OTHER -> Step(Rest(lifted), {})
  IN Step(out.gesture, out.effects \cup (IF g.suppress THEN {"suppress"} ELSE {}))

ModelChanged(g, t) ==
  IF g.phase = "holding" /\ t.st = "failed" THEN Step(Rest(g), {}) ELSE Step(g, {})

Escape(g) ==
  CASE g.phase = "holding" -> Step([g EXCEPT !.phase = "cancelled"], {"discard"})
    [] g.phase = "armed" -> Step([g EXCEPT !.phase = "standdown", !.suppress = TRUE], {})
    [] OTHER -> Step(g, {})

-----------------------------------------------------------------------------
(* The effects on the take and the screen *)

Started(t, p) == [Idle EXCEPT !.st = "requesting", !.by = p]

(* stopAndSend: a stop that has settled sends at once, a live one when it settles. *)
Sent(t) ==
  CASE t.st = "review" -> [t EXCEPT !.st = "uploading"]
    [] t.st \in {"recording", "stopping"} -> [t EXCEPT !.st = "stopping", !.sendAsked = TRUE]
    [] OTHER -> t

TakeAfter(t, effects) ==
  LET begun == IF "start" \in effects THEN Started(t, presses) ELSE t
  IN IF "discard" \in effects THEN [begun EXCEPT !.discarding = TRUE]
     ELSE IF "send" \in effects THEN Sent(begun) ELSE begun

Dispatch(result) ==
  /\ gesture' = result.gesture
  /\ take' = TakeAfter(take, result.effects)
  /\ screen' = IF result.effects \cap {"lock", "open"} # {}
               THEN [at |-> "opening", by |-> presses] ELSE screen
  /\ left' = (left /\ "start" \notin result.effects)

Shown == screen.at = "bar"
Arming(result) == swallow' = (swallow \/ "suppress" \in result.effects)

(* A press: the pointer on the disc, Space on it, R from anywhere. *)
Press(source) ==
  /\ Shown /\ click = 0 /\ source \notin fingers /\ presses < MaxPresses
  /\ take.discarding => "eager" \in Windows
  /\ fingers' = fingers \cup {source} /\ presses' = presses + 1
  /\ IF source = "pointer"
     THEN /\ swallow' = FALSE
          /\ tracked' = (tracked \/ gesture.phase = "idle")
          /\ IF tracked \/ gesture.phase # "idle" THEN UNCHANGED <<gesture, take, screen, left>>
             ELSE Dispatch(Down(gesture, source, take, permission))
     ELSE UNCHANGED <<swallow, tracked>> /\ Dispatch(Down(gesture, source, take, permission))
  /\ UNCHANGED <<permission, click, mishaps, recordings>>

ArmFires ==
  /\ Shown /\ gesture.phase = "armed" /\ Dispatch(Tick(gesture))
  /\ UNCHANGED <<fingers, tracked, permission, swallow, click, presses, mishaps, recordings>>

PointerMoves(zone) ==
  /\ Shown /\ tracked /\ "pointer" \in fingers /\ gesture.phase \in {"armed", "holding"}
  /\ Dispatch(Move(gesture, zone))
  /\ UNCHANGED <<fingers, tracked, permission, swallow, click, presses, mishaps, recordings>>

(* The pointer up on the disc, or slid off it: a click may follow. *)
PointerUp ==
  /\ "pointer" \in fingers /\ fingers' = fingers \ {"pointer"} /\ tracked' = FALSE
  /\ click' \in {0, presses}
  /\ IF tracked /\ Shown
     THEN LET result == Lift(gesture, take, TRUE) IN Dispatch(result) /\ Arming(result)
     ELSE UNCHANGED <<gesture, take, screen, left, swallow>>
  /\ UNCHANGED <<permission, presses, mishaps, recordings>>

KeyUp(source) ==
  /\ source # "pointer" /\ source \in fingers /\ fingers' = fingers \ {source}
  /\ IF Shown /\ gesture.source = source /\ gesture.pressing
     THEN LET result == Lift(gesture, take, TRUE) IN Dispatch(result) /\ Arming(result)
     ELSE UNCHANGED <<gesture, take, screen, left, swallow>>
  /\ UNCHANGED <<tracked, permission, click, presses, mishaps, recordings>>

(* pointercancel, a lost capture; the window's blur, with a key's release; a hidden page. *)
Interrupted(cause) ==
  /\ Shown /\ Mishap /\ gesture.pressing
  /\ cause = "pointer" => tracked
  /\ cause = "blur" => gesture.source # "pointer"
  /\ LET result == Lift(gesture, take, FALSE) IN Dispatch(result) /\ Arming(result)
  /\ tracked' = FALSE
  /\ fingers' = CASE cause = "pointer" -> fingers \ {"pointer"}
                  [] cause = "blur" -> fingers \cap {"pointer"}
                  [] OTHER -> {}
  /\ UNCHANGED <<permission, click, presses, recordings>>

EscapeKey ==
  /\ Shown /\ gesture.phase \in {"armed", "holding"} /\ Dispatch(Escape(gesture))
  /\ UNCHANGED <<fingers, tracked, permission, swallow, click, presses, mishaps, recordings>>

(* The click after a press, unless it is a hold's: a tap opens the capture screen. *)
Click ==
  /\ click # 0 /\ Shown /\ click' = 0 /\ swallow' = FALSE
  /\ screen' = IF swallow \/ gesture.phase # "idle" THEN screen ELSE [at |-> "opening", by |-> click]
  /\ UNCHANGED <<gesture, fingers, tracked, permission, take, presses, mishaps, recordings, left>>

(* Enter, or a screen reader's activation: a click no press came before. *)
Activated ==
  /\ Shown /\ presses < MaxPresses /\ (take.discarding => "eager" \in Windows)
  /\ gesture.phase = "idle" /\ click = 0 /\ fingers = {}
  /\ presses' = presses + 1 /\ screen' = [at |-> "opening", by |-> presses + 1]
  /\ UNCHANGED <<gesture, fingers, tracked, permission, take, swallow, click, mishaps, recordings, left>>

-----------------------------------------------------------------------------
(* The store: the microphone, the take, the upload *)

StoreOnly == UNCHANGED <<fingers, tracked, swallow, click, screen, presses, left>>

(* A change of the take, which reaches a hold in progress. *)
Becomes(t) ==
  /\ take' = t /\ gesture' = ModelChanged(gesture, t).gesture /\ StoreOnly

MicrophoneOpens ==
  /\ take.st = "requesting" /\ ~take.discarding /\ permission # "denied"
  /\ permission' = "granted" /\ Becomes([take EXCEPT !.st = "recording"])
  /\ UNCHANGED <<mishaps, recordings>>

MicrophoneFails ==
  /\ take.st = "requesting" /\ ~take.discarding /\ Mishap
  /\ permission' \in {permission, "denied"} /\ Becomes([take EXCEPT !.st = "failed"])
  /\ UNCHANGED recordings

Heard ==
  /\ take.st = "recording" /\ ~take.audio /\ ~take.discarding
  /\ Becomes([take EXCEPT !.audio = TRUE])
  /\ recordings' = [recordings EXCEPT ![take.by] = @ + 1] /\ UNCHANGED <<permission, mishaps>>

GoesOn ==
  /\ take.st = "recording" /\ ~take.long /\ ~take.discarding
  /\ Becomes([take EXCEPT !.long = TRUE]) /\ UNCHANGED <<permission, mishaps, recordings>>

(* A call takes the track, or a limit is reached. *)
StopsByItself ==
  /\ take.st = "recording" /\ ~take.discarding /\ Mishap
  /\ Becomes([take EXCEPT !.st = "stopping"]) /\ UNCHANGED <<permission, recordings>>

Settles ==
  /\ take.st = "stopping" /\ ~take.discarding
  /\ Becomes([take EXCEPT !.st = IF ~take.audio THEN "failed"
                                 ELSE IF take.sendAsked THEN "uploading" ELSE "review",
                          !.sendAsked = FALSE])
  /\ UNCHANGED <<permission, mishaps, recordings>>

UploadEnds ==
  /\ take.st = "uploading"
  /\ \/ Becomes([take EXCEPT !.st = "uploaded"]) /\ UNCHANGED mishaps
     \/ Mishap /\ Becomes([take EXCEPT !.st = "failed"])
  /\ UNCHANGED <<permission, recordings>>

(* A discard awaits the chunks still on their way and the prune. *)
Discarded ==
  /\ take.discarding /\ Becomes(Idle)
  /\ UNCHANGED <<permission, mishaps, recordings>>

-----------------------------------------------------------------------------
(* The capture screen *)

OffTheBar == UNCHANGED <<permission, swallow, click, presses, mishaps, recordings>>

(* Opened: audio not sent and a take that runs are kept; anything else starts one. *)
StartsOne(t) == ~HasBufferedAudio(t) /\ ~Busy(t)

(* The bar goes with its gesture as the screen comes, and hears no release of what is down. *)
Opens ==
  /\ screen.at = "opening" /\ screen' = [screen EXCEPT !.at = "capture"]
  /\ take' = IF StartsOne(take) THEN Started(take, screen.by) ELSE take
  /\ gesture' = AtRest /\ tracked' = FALSE /\ left' = FALSE
  /\ fingers' = {} /\ click' = 0
  /\ UNCHANGED <<permission, swallow, presses, mishaps, recordings>>

(* Done, Back, and the screen's own leaving: what was uploaded is released. *)
Leaves ==
  /\ screen.at \in {"capture", "typing"} /\ screen' = Bar
  /\ take' = IF take.st = "uploaded" THEN Idle ELSE take
  /\ left' = Live(take)
  /\ UNCHANGED <<gesture, fingers, tracked>> /\ OffTheBar

(* Send, from the recording or the review, and Try again on what did not arrive. *)
HandOff ==
  /\ screen.at = "capture"
  /\ \/ take.st \in {"recording", "review"} /\ take' = Sent(take)
     \/ take.st = "failed" /\ take.audio /\ take' = [take EXCEPT !.st = "uploading"]
  /\ screen' = Bar /\ UNCHANGED <<gesture, fingers, tracked, left>> /\ OffTheBar

Stop ==
  /\ screen.at = "capture" /\ take.st = "recording" /\ take' = [take EXCEPT !.st = "stopping"]
  /\ UNCHANGED <<gesture, fingers, tracked, screen, left>> /\ OffTheBar

(* Cancel, Discard, Close: gone, and then left. *)
Abandon ==
  /\ screen.at = "capture" /\ take.st \in {"requesting", "recording", "review", "failed"}
  /\ take' = Idle /\ screen' = Bar /\ UNCHANGED <<gesture, fingers, tracked, left>> /\ OffTheBar

TypeInstead ==
  /\ screen.at = "capture"
  /\ take.st \in {"requesting", "recording"} \/ (take.st = "failed" /\ ~take.audio)
  /\ take' = [take EXCEPT !.discarding = TRUE] /\ screen' = [screen EXCEPT !.at = "typing"]
  /\ UNCHANGED <<gesture, fingers, tracked, left>> /\ OffTheBar

(* Try again, for a microphone that was refused; Re-record, from the review. *)
Restart ==
  /\ screen.at = "capture"
  /\ (take.st = "failed" /\ ~take.audio) \/ take.st = "review"
  /\ Mishap /\ take' = Started(take, 0)
  /\ UNCHANGED <<gesture, fingers, tracked, screen, left, permission, swallow, click, presses, recordings>>

-----------------------------------------------------------------------------
HoldInit ==
  /\ gesture = AtRest /\ fingers = {} /\ tracked = FALSE
  /\ permission \in {"granted", "prompt", "denied"} /\ take = Idle
  /\ swallow = FALSE /\ click = 0 /\ screen = Bar /\ presses = 0 /\ mishaps = 0
  /\ recordings = [p \in 0..MaxPresses |-> 0] /\ left = FALSE

HoldNext ==
  \/ \E s \in Sources : Press(s) \/ KeyUp(s)
  \/ ArmFires \/ PointerUp \/ EscapeKey \/ Click \/ Activated
  \/ \E zone \in {"slop", "cancel", "lock", "both"} : PointerMoves(zone)
  \/ \E cause \in {"pointer", "blur", "hidden"} : Interrupted(cause)
  \/ MicrophoneOpens \/ MicrophoneFails \/ Heard \/ GoesOn \/ StopsByItself \/ Settles \/ UploadEnds
  \/ Discarded \/ Opens \/ Leaves \/ HandOff \/ Stop \/ Abandon \/ TypeInstead \/ Restart

HoldSpec == HoldInit /\ [][HoldNext]_holdVars

-----------------------------------------------------------------------------
(* Types. *)
HoldTypeOK ==
  /\ gesture.phase \in {"idle", "armed", "holding", "cancelled", "standdown"}
  /\ gesture.source \in Sources /\ fingers \subseteq Sources
  /\ take.st \in {"idle", "requesting", "recording", "stopping", "review", "uploading", "uploaded",
                  "failed"}
  /\ screen.at \in {"bar", "opening", "capture", "typing"}

(* A microphone that is open is under a finger, on the capture screen or on its way   *)
(* there, or was left running from it: no release leaves one open with nobody holding. *)
MicrophoneIsHeld ==
  Live(take) => (gesture.phase = "holding" \/ screen.at # "bar" \/ left)

(* One press makes one recording at most: the click that follows a hold opens nothing, *)
(* and a lock's capture screen takes over the take instead of starting another.         *)
OneRecordingPerPress == \A p \in 1..MaxPresses : recordings[p] <= 1

(* The capture screen is never a dead one: there is a take on it, or the field to type. *)
ScreenHasATake == screen.at = "capture" => take.st # "idle"

(* A message, once long enough, is thrown away only by a slide, Escape or the capture   *)
(* screen: not by a release, an interruption, or a take that stopped under the finger.   *)
LongTalkIsKept ==
  (take.long /\ take.audio /\ take'.discarding /\ ~take.discarding)
    => (gesture'.phase = "cancelled" \/ screen.at = "capture")

-----------------------------------------------------------------------------
(* A press, a hold, a lock, the prompt and the microphone: all of the above,  *)
(* in every state and every step.                                             *)
HoldInv == HoldTypeOK /\ MicrophoneIsHeld /\ OneRecordingPerPress /\ ScreenHasATake
HoldIsKept == []HoldInv /\ [][LongTalkIsKept]_holdVars

-----------------------------------------------------------------------------
(* What the repository says that the code does not keep. *)

(* holdGesture.ts: pressing is "a finger or key is down", and a second press is ignored *)
(* until it lifts.  So a gesture that is pressing has something down.                    *)
PressingIsDown == (gesture.pressing /\ screen.at = "bar") => fingers # {}
=============================================================================
