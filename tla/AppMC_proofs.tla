---------------------------- MODULE AppMC_proofs ----------------------------
(***************************************************************************)
(* What the parts promise, promised by the app: the theorems of the        *)
(* session, of the push subscription, of the player and of the gestures of *)
(* one touch, carried over to the module the runs check, for every value   *)
(* of their constants and whichever parts are let in.                      *)
(***************************************************************************)
EXTENDS AppMC, TLAPS

(* A step of the app is a step of the part it is of, and it is of that     *)
(* part ever after.                                                        *)
LEMMA PartActs ==
  ASSUME Next
  PROVE  /\ part' = part
         /\ part = "session" => Se!Next
         /\ part = "push" => Pu!PushNext
         /\ part = "player" => Py!PlayerNext
         /\ part = "touch" => To!TouchNext
BY DEF Next

LEMMA PartSteps ==
  ASSUME [Next]_all
  PROVE  /\ part' = part
         /\ part = "session" => [Se!Next]_(Se!vars)
         /\ part = "push" => [Pu!PushNext]_(Pu!pushVars)
         /\ part = "player" => [Py!PlayerNext]_(Py!playerVars)
         /\ part = "touch" => [To!TouchNext]_(To!touchVars)
<1>1. CASE UNCHANGED all
  BY <1>1 DEF all, Se!vars, Se!held, Se!server, Se!auth, Se!exit, Pu!pushVars, Py!playerVars,
              To!touchVars
<1>. QED
  BY <1>1, PartActs

(* The session: all of SessionHolds, for any number of requests, retries,  *)
(* sign-ins and mishaps, with no answer landing during the wipe.           *)
THEOREM SessionStands ==
  ASSUME Se!Bounds, Windows = {}
  PROVE  Spec => SessionHolds
<1>. DEFINE I == part = "session" => Se!IInv /\ Se!LeavesNothing
<1>1. Init => I
  BY Se!InitHolds DEF Init, Se!Init, Se!LeavesNothing
<1>2. I /\ [Next]_all => I'
  BY PartSteps, Se!NextKeeps, Se!LeavesStep
<1>3. I => (part = "session" => Se!SessionInv)
  BY Se!IInvKept DEF Se!Kept, Se!SessionInv
<1>4. I /\ [Next]_all => [part = "session" => Se!SessionStep]_all
  BY PartActs, Se!StepKept
<1>. QED
  BY <1>1, <1>2, <1>3, <1>4, PTL DEF Spec, SessionHolds

(* Push: tabs that enrol at once do not drop each other's working          *)
(* subscription, and a browser switched off holds none, for any number of  *)
(* tabs, launches and presses, with the timings the windows name left out. *)
THEOREM PushStands ==
  ASSUME MaxEnds \in Nat, Windows = {}
  PROVE  Spec => PushIsKept
<1>. DEFINE I == part = "push" => Pu!Shape /\ Pu!LockInv /\ Pu!OffInv
<1>1. Init => I
  BY Pu!PushInits DEF Init
<1>2. I /\ [Next]_all => I'
  BY PartSteps, Pu!ShapeKept, Pu!LockKept, Pu!OffKept
<1>3. I => (part = "push" => Pu!PushInv)
  BY Pu!ShapeIsTyped DEF Pu!PushInv, Pu!OffInv, Pu!OffStaysOff
<1>4. I /\ [Next]_all => [part = "push" => Pu!WorkingIsNotDropped]_all
  BY PartSteps, Pu!StepKeeps
<1>. QED
  BY <1>1, <1>2, <1>3, <1>4, PTL DEF Spec, PushIsKept

(* The player: under a settled row its own run's transcript, and controls  *)
(* that say what the audio element does, for any number of recordings.     *)
THEOREM PlayerStands ==
  ASSUME Py!Bounds, "flaky" \notin Windows
  PROVE  Spec => []PlayerIsTrue
<1>. DEFINE I == part = "player" => Py!Inv
<1>1. Init => I
  BY Py!InitHolds DEF Init
<1>2. I /\ [Next]_all => I'
  BY PartSteps, Py!NextKeeps
<1>3. I => PlayerIsTrue
  BY Py!InvIsTrue DEF PlayerIsTrue
<1>. QED
  BY <1>1, <1>2, <1>3, PTL DEF Spec

(* One touch: it does one thing, one tray is open, the panel and the       *)
(* pull's line stand only under a finger or over work that runs, and a tap *)
(* on a row is heard, for any number of rows, tabs, touches and moves,     *)
(* with no finger landing on a held row and no touch taken while a refresh *)
(* runs.                                                                   *)
THEOREM TouchStands ==
  ASSUME To!Bounds, To!Closed
  PROVE  Spec => []TouchIsOneThing
<1>. DEFINE I == part = "touch" => To!Holds
<1>1. Init => I
  BY To!InitHolds DEF Init
<1>2. I /\ [Next]_all => I'
  BY PartSteps, To!NextHolds
<1>3. I => TouchIsOneThing
  BY To!HoldsIsOneThing DEF TouchIsOneThing
<1>. QED
  BY <1>1, <1>2, <1>3, PTL DEF Spec
=============================================================================
