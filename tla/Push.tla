---------------------------------- MODULE Push ----------------------------------
(***************************************************************************)
(* Notifications for one browser: the subscription the browser holds, the  *)
(* push service that may end it, the server's rows, what the device        *)
(* remembers of the person's choice, and the two that change them: the     *)
(* Notifications card's switch (features/settings/push.ts,                 *)
(* NotificationsCard.tsx) and the check each tab makes at its launch       *)
(* (pwa/usePushResync.ts).  An endpoint is a number, coined afresh by each *)
(* subscribe; the worker prunes the row of one the push service calls      *)
(* gone.  The instance has its key pair and the browser the Push API.      *)
(***************************************************************************)
EXTENDS Integers, FiniteSets

CONSTANTS
  Tabs,
  MaxEnds,      \* endpoints ever coined
  MaxLaunches, MaxPresses,
  MaxMishaps,   \* requests that fail, subscriptions that end, permission withdrawn
  Windows       \* timings left out of a run unless named here, see the guards

VARIABLES
  held,         \* the endpoint this browser holds, 0 none
  live,         \* the endpoints the push service still delivers to
  rows,         \* the endpoints the server lists
  wanted,       \* chintan.push.wanted: "unset", "on", "off"
  permission,
  coined,
  tabs,         \* open; its launch check made; the list it has cached; what its card read
  jobs,         \* what each tab's card and launch check is doing
  launches, presses, mishaps,
  chosen        \* history: the last choice the person made that went through

pushVars == <<held, live, rows, wanted, permission, coined, tabs, jobs, launches, presses, mishaps, chosen>>

Ends == 1..MaxEnds
Unread == MaxEnds + 1
Actors == Tabs \X {"card", "launch"}
NoJob == [at |-> "none", ids |-> {}, fresh |-> 0]
Locked == {"list", "replace", "register", "keep"}

Closed == [open |-> FALSE, tried |-> TRUE, listed |-> FALSE, list |-> {}, local |-> Unread]
Launched == [open |-> TRUE, tried |-> FALSE, listed |-> FALSE, list |-> {}, local |-> Unread]

PushWanted == IF wanted = "unset" THEN permission = "granted" ELSE wanted = "on"

Mishap == mishaps < MaxMishaps /\ mishaps' = mishaps + 1
Goes(a, at) == jobs' = [jobs EXCEPT ![a].at = at]
Quits(a) == jobs' = [jobs EXCEPT ![a] = NoJob]

Enrolling == {a \in Actors : jobs[a].at \in Locked \cup {"queue", "asks"}}
TurningOff == {a \in Actors : jobs[a].at \in {"delete", "unsubscribe"}}

-----------------------------------------------------------------------------
(* The tabs *)

PeopleSame == UNCHANGED <<launches, presses, chosen>>
DeviceSame == UNCHANGED <<held, live, rows, wanted, permission, coined>>

Launch(t) ==
  /\ ~tabs[t].open /\ launches < MaxLaunches /\ launches' = launches + 1
  /\ tabs' = [tabs EXCEPT ![t] = Launched] /\ UNCHANGED <<jobs, presses, mishaps, chosen>> /\ DeviceSame

(* A tab takes what it was doing with it, and lets the lock go. *)
Close(t) ==
  /\ tabs[t].open /\ Mishap /\ tabs' = [tabs EXCEPT ![t] = Closed]
  /\ jobs' = [a \in Actors |-> IF a[1] = t THEN NoJob ELSE jobs[a]]
  /\ PeopleSame /\ DeviceSame

(* The subscriptions query, at its mount, on an invalidation, or once stale and focused. *)
ListReads(t) ==
  /\ tabs[t].open /\ (tabs[t].listed => tabs[t].list # rows)
  /\ tabs' = [tabs EXCEPT ![t].listed = TRUE, ![t].list = rows]
  /\ UNCHANGED <<jobs, mishaps>> /\ PeopleSame /\ DeviceSame

(* You opened: the card reads what this browser holds, once. *)
CardReads(t) ==
  /\ tabs[t].open /\ jobs[<<t, "card">>] = NoJob /\ tabs[t].local # held
  /\ tabs' = [tabs EXCEPT ![t].local = held] /\ UNCHANGED <<jobs, mishaps>> /\ PeopleSame /\ DeviceSame

On(t) == tabs[t].local \in Ends /\ tabs[t].local \in tabs[t].list
Ready(t) == tabs[t].open /\ tabs[t].local # Unread /\ tabs[t].listed

(* "Not reaching this device. Turn on again." *)
SaysLost(t) == Ready(t) /\ ~On(t) /\ permission # "denied" /\ (PushWanted \/ tabs[t].local \in Ends)

Press(t) ==
  /\ presses < MaxPresses /\ presses' = presses + 1
  /\ Ready(t) /\ jobs[<<t, "card">>] = NoJob /\ permission # "denied"
  /\ IF On(t)
     THEN /\ Enrolling # {} => "crossing" \in Windows
          /\ tabs[t].local # held => "stale_card" \in Windows
          /\ Goes(<<t, "card">>, "delete") /\ UNCHANGED chosen
     ELSE /\ TurningOff # {} => "crossing" \in Windows
          /\ Goes(<<t, "card">>, "asks") /\ chosen' = "on"
  /\ UNCHANGED <<tabs, launches, mishaps>> /\ DeviceSame

(* requestPermission, from the tap. *)
Permitted(t) ==
  /\ jobs[<<t, "card">>].at = "asks"
  /\ \/ permission' = "granted" /\ Goes(<<t, "card">>, "queue") /\ UNCHANGED mishaps
     \/ permission = "default" /\ Mishap /\ permission' \in {"default", "denied"} /\ Quits(<<t, "card">>)
  /\ UNCHANGED <<held, live, rows, wanted, coined, tabs>> /\ PeopleSame

(* Once a launch: turned on here, by what it holds or by what it remembers. *)
Resync(t) ==
  /\ tabs[t].open /\ ~tabs[t].tried /\ permission = "granted" /\ tabs[t].listed
  /\ TurningOff # {} => "crossing" \in Windows
  /\ tabs' = [tabs EXCEPT ![t].tried = TRUE]
  /\ IF held # 0 \/ PushWanted THEN Goes(<<t, "launch">>, "queue") ELSE UNCHANGED jobs
  /\ UNCHANGED mishaps /\ PeopleSame /\ DeviceSame

-----------------------------------------------------------------------------
(* enrolThisBrowser *)

UnlockedMutant(a) == TRUE
LockIsFree(a) == \A b \in Actors : jobs[b].at \notin Locked

Locks(a) ==
  /\ jobs[a].at = "queue" /\ LockIsFree(a) /\ Goes(a, "list")
  /\ UNCHANGED <<tabs, mishaps>> /\ PeopleSame /\ DeviceSame

(* The list the server gives now, or nothing is dropped. *)
ListOrNothing(a) ==
  \/ jobs' = [jobs EXCEPT ![a].at = "replace", ![a].ids = rows] /\ UNCHANGED mishaps
  \/ Mishap /\ Quits(a)

ListsAfresh(a) ==
  /\ jobs[a].at = "list" /\ ListOrNothing(a) /\ UNCHANGED tabs /\ PeopleSame /\ DeviceSame

(* What the server does not list is dropped, for a fresh one. *)
Subscribed(a) ==
  /\ coined < MaxEnds /\ coined' = coined + 1 /\ held' = coined + 1
  /\ live' = (live \ {held}) \cup {coined + 1}
  /\ jobs' = [jobs EXCEPT ![a].at = "register", ![a].fresh = coined + 1]

Replaces(a) ==
  /\ jobs[a].at = "replace" /\ permission = "granted"
  /\ IF held # 0 /\ held \in jobs[a].ids
     THEN jobs' = [jobs EXCEPT ![a].at = "keep", ![a].fresh = held] /\ UNCHANGED <<held, live, coined>>
     ELSE Subscribed(a)
  /\ UNCHANGED <<rows, wanted, permission, tabs, mishaps>> /\ PeopleSame

(* Permission withdrawn on the way: subscribe throws. *)
Throws(a) ==
  /\ jobs[a].at = "replace" /\ permission # "granted" /\ Quits(a)
  /\ UNCHANGED <<tabs, mishaps>> /\ PeopleSame /\ DeviceSame

Registers(a) ==
  /\ jobs[a].at = "register"
  /\ \/ rows' = rows \cup {jobs[a].fresh} /\ Goes(a, "keep") /\ UNCHANGED mishaps
     \/ Mishap /\ rows' \in {rows, rows \cup {jobs[a].fresh}} /\ Quits(a)
  /\ UNCHANGED <<held, live, wanted, permission, coined, tabs>> /\ PeopleSame

(* Remembered as on; only the card takes it for its own. *)
Enrolled(a) ==
  /\ jobs[a].at = "keep" /\ wanted' = "on" /\ Quits(a)
  /\ tabs' = IF a[2] = "card" THEN [tabs EXCEPT ![a[1]].local = jobs[a].fresh] ELSE tabs
  /\ UNCHANGED <<held, live, rows, permission, coined, mishaps>> /\ PeopleSame

-----------------------------------------------------------------------------
(* turnOff: the server's row, and then the browser's subscription *)

Deletes(t) ==
  /\ jobs[<<t, "card">>].at = "delete"
  /\ \/ rows' = rows \ {tabs[t].local} /\ Goes(<<t, "card">>, "unsubscribe") /\ UNCHANGED mishaps
     \/ Mishap /\ rows' \in {rows, rows \ {tabs[t].local}} /\ Quits(<<t, "card">>)
  /\ UNCHANGED <<held, live, wanted, permission, coined, tabs>> /\ PeopleSame

RememberedOff == "off"

Unsubscribes(t) ==
  LET mine == tabs[t].local IN
  /\ jobs[<<t, "card">>].at = "unsubscribe" /\ Quits(<<t, "card">>)
  /\ held' = IF held = mine THEN 0 ELSE held
  /\ live' = live \ {mine} /\ wanted' = RememberedOff /\ chosen' = "off"
  /\ tabs' = [tabs EXCEPT ![t].local = 0]
  /\ UNCHANGED <<rows, permission, coined, launches, presses, mishaps>>

-----------------------------------------------------------------------------
(* The world *)

WorldSame == UNCHANGED <<wanted, coined, tabs, jobs>> /\ PeopleSame

(* A recording files: a row whose endpoint is gone is pruned. *)
WorkerSends ==
  /\ rows \ live # {} /\ rows' = rows \cap live
  /\ UNCHANGED <<held, live, permission, mishaps>> /\ WorldSame

(* The push service ends one; the browser drops its own; permission is withdrawn. *)
SubscriptionEnds ==
  /\ Mishap /\ \E e \in live : live' = live \ {e} /\ held' \in {held, IF held = e THEN 0 ELSE held}
  /\ UNCHANGED <<rows, permission>> /\ WorldSame

PermissionWithdrawn ==
  /\ permission = "granted" /\ Mishap /\ permission' = "denied" /\ held' = 0 /\ live' = live \ {held}
  /\ UNCHANGED rows /\ WorldSame

-----------------------------------------------------------------------------
(* Never on; on and working; ended and not yet pruned; pruned; dropped by the browser. *)
PushInit ==
  /\ \/ permission = "default" /\ wanted = "unset" /\ chosen = "none" /\ held = 0 /\ live = {} /\ rows = {}
     \/ permission = "granted" /\ wanted = "on" /\ chosen = "on" /\ held = 1 /\ live \in SUBSET {1} /\ rows = {1}
     \/ permission = "granted" /\ wanted = "on" /\ chosen = "on" /\ held \in {0, 1} /\ live = {} /\ rows = {}
  /\ coined = 1 /\ tabs = [t \in Tabs |-> Closed] /\ jobs = [a \in Actors |-> NoJob]
  /\ launches = 0 /\ presses = 0 /\ mishaps = 0

PushNext ==
  \/ \E t \in Tabs : Launch(t) \/ Close(t) \/ ListReads(t) \/ CardReads(t) \/ Press(t) \/ Permitted(t)
                     \/ Resync(t) \/ Deletes(t) \/ Unsubscribes(t)
  \/ \E a \in Actors : Locks(a) \/ ListsAfresh(a) \/ Replaces(a) \/ Throws(a) \/ Registers(a) \/ Enrolled(a)
  \/ WorkerSends \/ SubscriptionEnds \/ PermissionWithdrawn

PushSpec == PushInit /\ [][PushNext]_pushVars

(* A request is answered or fails; a lock that is free is given; an effect runs. *)
PushFairSpec ==
  /\ PushSpec
  /\ \A t \in Tabs : WF_pushVars(ListReads(t)) /\ WF_pushVars(Resync(t)) /\ WF_pushVars(Permitted(t))
                     /\ WF_pushVars(Deletes(t)) /\ WF_pushVars(Unsubscribes(t))
  /\ \A a \in Actors : WF_pushVars(ListsAfresh(a)) /\ WF_pushVars(Replaces(a)) /\ WF_pushVars(Registers(a))
                       /\ WF_pushVars(Enrolled(a)) /\ WF_pushVars(Locks(a))

-----------------------------------------------------------------------------
(* Types. *)
PushTypeOK ==
  /\ held \in 0..coined /\ live \subseteq 1..coined /\ rows \subseteq 1..coined
  /\ \A a \in Actors : jobs[a].at \in Locked \cup {"none", "asks", "queue", "delete", "unsubscribe"}

(* Only the card's switch, or the world, ends a subscription that works, one the browser   *)
(* holds, the push service delivers to and the server lists: two that enrol at once, from   *)
(* two tabs or a card and a launch, do not drop each other's (push.ts, the lock).           *)
WorkingIsNotDropped ==
  (held # 0 /\ held \in live \cap rows /\ held' # held)
    => (mishaps' > mishaps \/ (held' = 0 /\ wanted' = "off"))

(* A browser switched off, and not on again, holds nothing: no launch brings it back. *)
OffStaysOff == (chosen = "off" /\ Enrolling = {}) => held = 0

(* A launch of a browser that was turned on, and that the server has lost, enrols it with  *)
(* an endpoint the push service delivers to.                                                *)
LaunchedLost(t) ==
  tabs[t].open /\ ~tabs[t].tried /\ permission = "granted" /\ PushWanted /\ held \notin rows
Found(t) == (held \in rows /\ held \in live) \/ wanted = "off" \/ ~tabs[t].open
LostIsFound == \A t \in Tabs : LaunchedLost(t) ~> Found(t)

-----------------------------------------------------------------------------
(* The subscription follows what the person chose, whoever enrols: both of    *)
(* the above, in every state and every step.                                  *)
PushInv == PushTypeOK /\ OffStaysOff
PushIsKept == []PushInv /\ [][WorkingIsNotDropped]_pushVars

-----------------------------------------------------------------------------
(* What the repository says that the code does not keep. *)

(* NotificationsCard.tsx: the hint says "it is not reaching this device", and "is what is  *)
(* left when that could not happen", the shell's enrolling it again.                        *)
HintIsTrue ==
  \A t \in Tabs : (SaysLost(t) /\ tabs[t].list = rows /\ Enrolling = {} /\ TurningOff = {})
                    => ~(held \in rows /\ held \in live)
=============================================================================
