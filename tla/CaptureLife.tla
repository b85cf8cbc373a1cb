------------------------------ MODULE CaptureLife ------------------------------
(***************************************************************************)
(* What a capture's owner is promised of its status, whatever runs,        *)
(* redeliveries, repeats and deaths happen behind it.  A recording that    *)
(* has come in is moving.  It is filed, or it stops with something to do   *)
(* about it, and from either it moves again only when a person asks.  One  *)
(* that is filed never turns into one that stopped, and one that is gone   *)
(* stays gone.                                                             *)
(***************************************************************************)
EXTENDS Naturals

VARIABLES
    life,   \* "none", "moving", "filed", "stopped" or "gone"
    asks    \* what people have asked of it so far

vars == <<life, asks>>

Init == life = "none" /\ asks = 0

Arrive == life = "none" /\ life' = "moving" /\ UNCHANGED asks
File == life \in {"moving", "stopped"} /\ life' = "filed" /\ UNCHANGED asks
Stop == life = "moving" /\ life' = "stopped" /\ UNCHANGED asks
Ask == life \in {"moving", "stopped", "filed"} /\ life' = "moving" /\ asks' = asks + 1
AskToDelete == life \notin {"none", "gone"} /\ asks' = asks + 1 /\ UNCHANGED life
Vanish == life # "none" /\ life' = "gone" /\ UNCHANGED asks

Next == Arrive \/ File \/ Stop \/ Ask \/ AskToDelete \/ Vanish

Spec == Init /\ [][Next]_vars

\* Nothing stays on its way for good.
Settles == life = "moving" ~> life # "moving"

=============================================================================
