---------------------------- MODULE Push_proofs ----------------------------
(***************************************************************************)
(* The subscription follows what the person chose, proved for any number   *)
(* of tabs, launches, presses and mishaps.                                 *)
(***************************************************************************)
EXTENDS Push, TLAPS

-----------------------------------------------------------------------------
(* The inductive invariants *)

Ats == Locked \cup {"none", "asks", "queue", "delete", "unsubscribe"}
Jobs == [at : Ats, ids : SUBSET Nat, fresh : Nat]
Pages == [open : BOOLEAN, tried : BOOLEAN, listed : BOOLEAN, list : SUBSET Nat, local : Nat]

EndsInv ==
  /\ coined \in Nat /\ held \in 0..coined /\ live \subseteq 1..coined /\ rows \subseteq 1..coined
  /\ mishaps \in Nat
JobsInv ==
  /\ jobs \in [Actors -> Jobs]
  /\ \A a \in Actors : jobs[a].at \in {"register", "keep"} => jobs[a].fresh \in 1..coined
TabsInv == tabs \in [Tabs -> Pages]
Shape == EndsInv /\ JobsInv /\ TabsInv

(* One actor is past the lock, and what it was told the server lists still *)
(* holds what the browser has, if the server lists that at all: rows are   *)
(* added, and endpoints coined, past the lock alone.                       *)
LockInv ==
  /\ \A a, b \in Actors : jobs[a].at \in Locked /\ jobs[b].at \in Locked => a = b
  /\ \A a \in Actors : jobs[a].at = "replace" /\ held \in rows => held \in jobs[a].ids

(* What is being turned off is what the browser holds, and nobody enrols   *)
(* meanwhile; once off, it is remembered as off and holds nothing.  The    *)
(* tab that is turning it off is open.                                     *)
OffInv ==
  /\ TurningOff # {} => Enrolling = {}
  /\ \A t \in Tabs : jobs[<<t, "card">>].at \in {"delete", "unsubscribe"} => held \in {0, tabs[t].local}
  /\ \A t \in Tabs : ~tabs[t].open => jobs[<<t, "card">>].at = "none"
  /\ \A t \in Tabs : jobs[<<t, "launch">>].at \notin {"asks", "delete", "unsubscribe"}
  /\ chosen = "off" => wanted = "off" /\ held = 0 /\ Enrolling = {}

-----------------------------------------------------------------------------
(* What a job's move changes *)

LEMMA CardIsActor == \A t \in Tabs : <<t, "card">> \in Actors /\ <<t, "launch">> \in Actors
  BY DEF Actors

LEMMA GoesIsOneMove ==
  ASSUME jobs \in [Actors -> Jobs], NEW a \in Actors, NEW at \in Ats, Goes(a, at)
  PROVE  /\ jobs' \in [Actors -> Jobs] /\ jobs'[a].at = at
         /\ jobs'[a].ids = jobs[a].ids /\ jobs'[a].fresh = jobs[a].fresh
         /\ \A b \in Actors \ {a} : jobs'[b] = jobs[b]
<1>. DEFINE j == [jobs[a] EXCEPT !.at = at]
<1>1. jobs[a] \in Jobs
  OBVIOUS
<1>2. j \in Jobs /\ j.at = at /\ j.ids = jobs[a].ids /\ j.fresh = jobs[a].fresh
  BY <1>1 DEF Jobs
<1>3. jobs' = [jobs EXCEPT ![a] = j]
  BY DEF Goes
<1>. QED
  BY <1>2, <1>3

LEMMA QuitsIsOneMove ==
  ASSUME jobs \in [Actors -> Jobs], NEW a \in Actors, Quits(a)
  PROVE  jobs' \in [Actors -> Jobs] /\ jobs'[a].at = "none" /\ \A b \in Actors \ {a} : jobs'[b] = jobs[b]
<1>1. NoJob \in Jobs /\ NoJob.at = "none"
  BY DEF NoJob, Jobs, Ats
<1>2. jobs' = [jobs EXCEPT ![a] = NoJob]
  BY DEF Quits
<1>. QED
  BY <1>1, <1>2

LEMMA ReplacesIsOneMove ==
  ASSUME Shape, NEW a \in Actors, Replaces(a)
  PROVE  /\ jobs' \in [Actors -> Jobs] /\ \A b \in Actors \ {a} : jobs'[b] = jobs[b]
         /\ jobs'[a].at \in {"keep", "register"}
         /\ jobs'[a].fresh \in 1..coined' /\ coined' \in Nat /\ coined' >= coined
<1>. USE DEF Shape
<1>0. jobs[a] \in Jobs /\ jobs \in [Actors -> Jobs] /\ "keep" \in Ats /\ "register" \in Ats
  BY DEF JobsInv, Ats, Locked
<1>1. PICK e \in Nat, at \in {"keep", "register"} :
          /\ e \in 1..coined' /\ jobs' = [jobs EXCEPT ![a].at = at, ![a].fresh = e]
          /\ coined' \in Nat /\ coined' >= coined /\ held' = e
  <2>1. CASE held # 0 /\ held \in jobs[a].ids
    <3>1. jobs' = [jobs EXCEPT ![a].at = "keep", ![a].fresh = held] /\ UNCHANGED <<held, coined>>
      BY <2>1 DEF Replaces, Subscribed
    <3>2. held \in Nat /\ held \in 1..coined /\ coined \in Nat /\ coined >= coined
      BY <2>1 DEF EndsInv
    <3>. QED
      BY <3>1, <3>2, Zenon
  <2>2. CASE Subscribed(a)
    <3>1. /\ coined' = coined + 1 /\ held' = coined + 1
          /\ jobs' = [jobs EXCEPT ![a].at = "register", ![a].fresh = coined + 1]
      BY <2>2 DEF Subscribed
    <3>2. coined + 1 \in 1..(coined + 1) /\ coined + 1 \in Nat /\ coined + 1 >= coined
      BY DEF EndsInv
    <3>. QED
      BY <3>1, <3>2
  <2>. QED
    BY <2>1, <2>2 DEF Replaces
<1>. DEFINE j == [jobs[a] EXCEPT !.at = at, !.fresh = e]
<1>2. j \in Jobs /\ j.at = at /\ j.fresh = e
  BY <1>0, <1>1 DEF Jobs
<1>3. jobs' = [jobs EXCEPT ![a] = j]
  BY <1>0, <1>1
<1>. HIDE DEF j
<1>. QED
  BY <1>0, <1>1, <1>2, <1>3

-----------------------------------------------------------------------------
(* Each step keeps the shape *)

LEMMA ShapeKept == ASSUME MaxEnds \in Nat, Shape, [PushNext]_pushVars PROVE Shape'
<1>. USE DEF Shape
<1>0. CASE UNCHANGED pushVars
  BY <1>0 DEF pushVars, EndsInv, JobsInv, TabsInv
<1>a. jobs \in [Actors -> Jobs] /\ tabs \in [Tabs -> Pages]
  BY DEF JobsInv, TabsInv
<1>1. ASSUME NEW t \in Tabs,
             Launch(t) \/ Close(t) \/ ListReads(t) \/ CardReads(t) \/ Press(t) \/ Permitted(t)
             \/ Resync(t) \/ Deletes(t) \/ Unsubscribes(t)
      PROVE  Shape'
  <2>. DEFINE a == <<t, "card">>
  <2>0. a \in Actors /\ <<t, "launch">> \in Actors /\ tabs[t] \in Pages
    BY <1>a, CardIsActor
  <2>a. "none" \in Ats /\ "asks" \in Ats /\ "queue" \in Ats /\ "delete" \in Ats /\ "unsubscribe" \in Ats
    BY DEF Ats
  <2>1. CASE Launch(t)
    BY <2>1, <1>a DEF Launch, DeviceSame, Launched, Unread, EndsInv, JobsInv, TabsInv, Pages
  <2>2. CASE Close(t)
    <3>1. NoJob \in Jobs /\ NoJob.at = "none"
      BY DEF NoJob, Jobs, Ats
    <3>2. JobsInv'
      BY <2>2, <3>1 DEF Close, DeviceSame, JobsInv
    <3>3. EndsInv'
      BY <2>2 DEF Close, Mishap, DeviceSame, EndsInv
    <3>4. TabsInv'
      BY <2>2 DEF Close, Closed, Unread, TabsInv, Pages
    <3>. QED
      BY <3>2, <3>3, <3>4
  <2>3. CASE ListReads(t)
    <3>1. rows \in SUBSET Nat
      BY DEF EndsInv
    <3>2. TabsInv'
      BY <2>3, <3>1 DEF ListReads, DeviceSame, TabsInv, Pages
    <3>. QED
      BY <2>3, <3>2 DEF ListReads, DeviceSame, EndsInv, JobsInv
  <2>4. CASE CardReads(t)
    <3>1. held \in Nat
      BY DEF EndsInv
    <3>2. TabsInv'
      BY <2>4, <3>1 DEF CardReads, DeviceSame, TabsInv, Pages
    <3>. QED
      BY <2>4, <3>2 DEF CardReads, DeviceSame, EndsInv, JobsInv
  <2>5. CASE Press(t)
    <3>1. Goes(a, "delete") \/ Goes(a, "asks")
      BY <2>5 DEF Press
    <3>2. JobsInv'
      BY <2>5, <3>1, <2>0, <2>a, <1>a, GoesIsOneMove DEF Press, DeviceSame, JobsInv
    <3>. QED
      BY <2>5, <3>2 DEF Press, DeviceSame, EndsInv, TabsInv
  <2>6. CASE Permitted(t)
    <3>1. Goes(a, "queue") \/ Quits(a)
      BY <2>6 DEF Permitted
    <3>2. JobsInv'
      BY <2>6, <3>1, <2>0, <2>a, <1>a, GoesIsOneMove, QuitsIsOneMove DEF Permitted, JobsInv
    <3>3. EndsInv'
      BY <2>6 DEF Permitted, Mishap, EndsInv
    <3>. QED
      BY <2>6, <3>2, <3>3 DEF Permitted, TabsInv
  <2>7. CASE Resync(t)
    <3>1. Goes(<<t, "launch">>, "queue") \/ UNCHANGED jobs
      BY <2>7 DEF Resync
    <3>2. JobsInv'
      BY <2>7, <3>1, <2>0, <2>a, <1>a, GoesIsOneMove DEF Resync, DeviceSame, JobsInv
    <3>3. TabsInv'
      BY <2>7 DEF Resync, TabsInv, Pages
    <3>. QED
      BY <2>7, <3>2, <3>3 DEF Resync, DeviceSame, EndsInv
  <2>8. CASE Deletes(t)
    <3>1. Goes(a, "unsubscribe") \/ Quits(a)
      BY <2>8 DEF Deletes
    <3>2. JobsInv'
      BY <2>8, <3>1, <2>0, <2>a, <1>a, GoesIsOneMove, QuitsIsOneMove DEF Deletes, JobsInv
    <3>3. EndsInv'
      <4>1. rows' \subseteq 1..coined
        BY <2>8 DEF Deletes, EndsInv
      <4>2. mishaps' \in Nat
        BY <2>8 DEF Deletes, Mishap, EndsInv
      <4>. QED
        BY <2>8, <4>1, <4>2 DEF Deletes, EndsInv
    <3>. QED
      BY <2>8, <3>2, <3>3 DEF Deletes, TabsInv
  <2>9. CASE Unsubscribes(t)
    <3>1. JobsInv'
      BY <2>9, <2>0, <1>a, QuitsIsOneMove DEF Unsubscribes, JobsInv
    <3>2. EndsInv' /\ TabsInv'
      BY <2>9 DEF Unsubscribes, EndsInv, TabsInv, Pages
    <3>. QED
      BY <3>1, <3>2
  <2>. QED
    BY <1>1, <2>1, <2>2, <2>3, <2>4, <2>5, <2>6, <2>7, <2>8, <2>9
<1>2. ASSUME NEW a \in Actors,
             Locks(a) \/ ListsAfresh(a) \/ Replaces(a) \/ Throws(a) \/ Registers(a) \/ Enrolled(a)
      PROVE  Shape'
  <2>0. jobs[a] \in Jobs /\ "list" \in Ats /\ "replace" \in Ats /\ "keep" \in Ats /\ "register" \in Ats
    BY <1>a DEF Ats, Locked
  <2>1. CASE Locks(a)
    BY <2>1, <2>0, <1>a, GoesIsOneMove DEF Locks, DeviceSame, EndsInv, JobsInv, TabsInv
  <2>2. CASE ListsAfresh(a)
    <3>1. CASE Mishap /\ Quits(a)
      BY <2>2, <3>1, <1>a, QuitsIsOneMove DEF ListsAfresh, Mishap, DeviceSame, EndsInv, JobsInv, TabsInv
    <3>2. CASE jobs' = [jobs EXCEPT ![a].at = "replace", ![a].ids = rows] /\ UNCHANGED mishaps
      <4>. DEFINE j == [jobs[a] EXCEPT !.at = "replace", !.ids = rows]
      <4>0. rows \in SUBSET Nat
        BY DEF EndsInv
      <4>1. j \in Jobs /\ j.at = "replace"
        BY <2>0, <4>0 DEF Jobs
      <4>2. jobs' = [jobs EXCEPT ![a] = j]
        BY <3>2, <1>a
      <4>3. JobsInv'
        BY <2>2, <4>1, <4>2, <1>a DEF JobsInv, ListsAfresh, DeviceSame
      <4>. QED
        BY <2>2, <3>2, <4>3 DEF ListsAfresh, DeviceSame, EndsInv, TabsInv
    <3>. QED
      BY <2>2, <3>1, <3>2 DEF ListsAfresh, ListOrNothing
  <2>3. CASE Replaces(a)
    <3>2. EndsInv'
      <4>1. CASE held # 0 /\ held \in jobs[a].ids
        BY <2>3, <4>1 DEF Replaces, EndsInv
      <4>2. CASE Subscribed(a)
        BY <2>3, <4>2 DEF Replaces, Subscribed, EndsInv
      <4>. QED
        BY <2>3, <4>1, <4>2 DEF Replaces
    <3>3. 1..coined \subseteq 1..coined'
      BY <2>3, ReplacesIsOneMove DEF EndsInv
    <3>4. JobsInv'
      BY <2>3, <3>3, ReplacesIsOneMove DEF JobsInv
    <3>. QED
      BY <2>3, <3>2, <3>4 DEF Replaces, TabsInv
  <2>4. CASE Throws(a)
    BY <2>4, <1>a, QuitsIsOneMove DEF Throws, DeviceSame, EndsInv, JobsInv, TabsInv
  <2>5. CASE Registers(a)
    <3>1. Goes(a, "keep") \/ Quits(a)
      BY <2>5 DEF Registers
    <3>2. JobsInv'
      BY <2>5, <3>1, <2>0, <1>a, GoesIsOneMove, QuitsIsOneMove DEF Registers, JobsInv
    <3>3. EndsInv'
      <4>1. jobs[a].fresh \in 1..coined
        BY <2>5 DEF Registers, JobsInv
      <4>2. rows' \subseteq 1..coined
        BY <2>5, <4>1 DEF Registers, EndsInv
      <4>3. mishaps' \in Nat
        BY <2>5 DEF Registers, Mishap, EndsInv
      <4>. QED
        BY <2>5, <4>2, <4>3 DEF Registers, EndsInv
    <3>. QED
      BY <2>5, <3>2, <3>3 DEF Registers, TabsInv
  <2>6. CASE Enrolled(a)
    <3>1. jobs[a].fresh \in Nat /\ a[1] \in Tabs
      BY <2>0 DEF Jobs, Actors
    <3>2. TabsInv'
      BY <2>6, <3>1 DEF Enrolled, TabsInv, Pages
    <3>. QED
      BY <2>6, <3>2, <1>a, QuitsIsOneMove DEF Enrolled, EndsInv, JobsInv
  <2>. QED
    BY <1>2, <2>1, <2>2, <2>3, <2>4, <2>5, <2>6
<1>3. ASSUME WorkerSends \/ SubscriptionEnds \/ PermissionWithdrawn
      PROVE  Shape'
  <2>1. EndsInv'
    <3>1. CASE WorkerSends
      BY <3>1 DEF WorkerSends, WorldSame, EndsInv
    <3>2. CASE SubscriptionEnds
      <4>1. mishaps' \in Nat /\ UNCHANGED <<rows, coined>>
        BY <3>2 DEF SubscriptionEnds, Mishap, WorldSame, EndsInv
      <4>2. live' \subseteq live /\ held' \in {held, 0}
        BY <3>2 DEF SubscriptionEnds
      <4>. QED
        BY <4>1, <4>2 DEF EndsInv
    <3>3. CASE PermissionWithdrawn
      BY <3>3 DEF PermissionWithdrawn, Mishap, WorldSame, EndsInv
    <3>. QED
      BY <1>3, <3>1, <3>2, <3>3
  <2>2. UNCHANGED <<jobs, tabs, coined>>
    BY <1>3 DEF WorkerSends, SubscriptionEnds, PermissionWithdrawn, WorldSame
  <2>. QED
    BY <2>1, <2>2 DEF JobsInv, TabsInv
<1>. QED
  BY <1>0, <1>1, <1>2, <1>3 DEF PushNext

-----------------------------------------------------------------------------
(* One actor is past the lock *)

(* A step that lets nobody past it, tells nobody another list, and gives   *)
(* neither the browser a new endpoint nor the server a new row while one   *)
(* is being replaced.                                                      *)
LEMMA LockUndisturbed ==
  ASSUME Shape, LockInv, held' \in {held, 0}, 0 \notin rows',
         \A a \in Actors : jobs'[a].at \in Locked => jobs[a].at \in Locked,
         \A a \in Actors : jobs'[a].at = "replace" =>
           jobs[a].at = "replace" /\ jobs'[a].ids = jobs[a].ids /\ rows' \subseteq rows
  PROVE  LockInv'
<1>1. ASSUME NEW a \in Actors, jobs'[a].at = "replace", held' \in rows'
      PROVE  held' \in jobs'[a].ids
  BY <1>1 DEF LockInv
<1>. QED
  BY <1>1 DEF LockInv

LEMMA LockKept == ASSUME MaxEnds \in Nat, Shape, LockInv, [PushNext]_pushVars PROVE LockInv'
<1>0. CASE UNCHANGED pushVars
  BY <1>0 DEF pushVars, LockInv
<1>a. jobs \in [Actors -> Jobs] /\ 0 \notin rows /\ 0 \notin rows' /\ "replace" \in Locked
  BY ShapeKept DEF Shape, JobsInv, EndsInv, Locked
<1>b. \A x \in {"none", "asks", "queue", "delete", "unsubscribe"} : x \in Ats /\ x \notin Locked /\ x # "replace"
  BY DEF Locked, Ats
<1>1. ASSUME NEW t \in Tabs,
             Launch(t) \/ Close(t) \/ ListReads(t) \/ CardReads(t) \/ Press(t) \/ Permitted(t)
             \/ Resync(t) \/ Deletes(t) \/ Unsubscribes(t)
      PROVE  LockInv'
  <2>1. held' \in {held, 0} /\ rows' \subseteq rows
    BY <1>1 DEF Launch, Close, ListReads, CardReads, Press, Permitted, Resync, Deletes, Unsubscribes, DeviceSame
  <2>2. \/ UNCHANGED jobs
        \/ jobs' = [a \in Actors |-> IF a[1] = t THEN NoJob ELSE jobs[a]]
        \/ \E a \in Actors : \/ Quits(a)
                             \/ \E x \in {"asks", "queue", "delete", "unsubscribe"} : Goes(a, x)
    BY <1>1, CardIsActor
    DEF Launch, Close, ListReads, CardReads, Press, Permitted, Resync, Deletes, Unsubscribes
  <2>. DEFINE NobodyEnters == \A a \in Actors : jobs'[a] = jobs[a] \/ jobs'[a].at \notin Locked
  <2>3. NobodyEnters
    <3>1. CASE UNCHANGED jobs
      BY <3>1
    <3>2. CASE jobs' = [a \in Actors |-> IF a[1] = t THEN NoJob ELSE jobs[a]]
      BY <3>2, <1>b DEF NoJob
    <3>3. ASSUME NEW b \in Actors, Quits(b) PROVE NobodyEnters
      BY <3>3, <1>a, <1>b, QuitsIsOneMove
    <3>4. ASSUME NEW b \in Actors, NEW x \in {"asks", "queue", "delete", "unsubscribe"}, Goes(b, x) PROVE NobodyEnters
      BY <3>4, <1>a, <1>b, GoesIsOneMove
    <3>. QED
      BY <2>2, <3>1, <3>2, <3>3, <3>4
  <2>. QED
    BY <1>a, <2>1, <2>3, LockUndisturbed
<1>2. ASSUME NEW a \in Actors,
             Locks(a) \/ ListsAfresh(a) \/ Replaces(a) \/ Throws(a) \/ Registers(a) \/ Enrolled(a)
      PROVE  LockInv'
  <2>0. "list" \in Ats /\ "replace" \in Ats /\ "keep" \in Ats /\ "register" \in Ats /\ "none" \notin Locked
    BY DEF Ats, Locked
  <2>a. \A x \in {"list", "keep", "register"} : x \in Locked /\ x # "replace"
    BY DEF Locked
  <2>1. CASE Locks(a)
    <3>1. /\ jobs'[a].at = "list" /\ \A b \in Actors \ {a} : jobs'[b] = jobs[b] /\ jobs[b].at \notin Locked
      BY <2>1, <2>0, <1>a, GoesIsOneMove DEF Locks, LockIsFree
    <3>. QED
      BY <3>1, <2>a, <1>a DEF LockInv
  <2>2. CASE ListsAfresh(a)
    <3>1. UNCHANGED <<held, rows>> /\ jobs[a].at \in Locked
      BY <2>2, <2>a DEF ListsAfresh, DeviceSame
    <3>2. CASE Quits(a)
      <4>. QED
        BY <1>a, <2>0, <3>1, <3>2, QuitsIsOneMove, LockUndisturbed
    <3>3. CASE jobs' = [jobs EXCEPT ![a].at = "replace", ![a].ids = rows]
      <4>. DEFINE j == [jobs[a] EXCEPT !.at = "replace", !.ids = rows]
      <4>1. j.at = "replace" /\ j.ids = rows
        BY <1>a DEF Jobs
      <4>2. jobs' = [jobs EXCEPT ![a] = j]
        BY <3>3, <1>a
      <4>3. jobs'[a].ids = rows /\ \A b \in Actors \ {a} : jobs'[b] = jobs[b] /\ jobs[b].at \notin Locked
        BY <4>1, <4>2, <3>1, <1>a DEF LockInv
      <4>. QED
        BY <4>3, <3>1, <1>a DEF LockInv
    <3>. QED
      BY <2>2, <3>2, <3>3 DEF ListsAfresh, ListOrNothing
  <2>3. CASE Replaces(a)
    <3>1. jobs[a].at = "replace" /\ jobs'[a].at # "replace" /\ \A b \in Actors \ {a} : jobs'[b] = jobs[b]
      BY <2>3, ReplacesIsOneMove DEF Replaces
    <3>2. \A b \in Actors \ {a} : jobs'[b].at \notin Locked
      BY <3>1, <1>a DEF LockInv
    <3>. QED
      BY <3>1, <3>2, <1>a DEF LockInv
  <2>4. CASE Throws(a)
    BY <2>4, <1>a, <2>0, QuitsIsOneMove, LockUndisturbed DEF Throws, DeviceSame
  <2>5. CASE Registers(a)
    <3>1. Goes(a, "keep") \/ Quits(a)
      BY <2>5 DEF Registers
    <3>2. jobs[a].at \in Locked /\ jobs'[a].at # "replace" /\ \A b \in Actors \ {a} : jobs'[b] = jobs[b]
      BY <2>5, <3>1, <1>a, <2>0, <2>a, GoesIsOneMove, QuitsIsOneMove DEF Registers
    <3>3. \A b \in Actors \ {a} : jobs'[b].at \notin Locked
      BY <3>2 DEF LockInv
    <3>. QED
      BY <3>2, <3>3, <1>a DEF LockInv
  <2>6. CASE Enrolled(a)
    BY <2>6, <1>a, <2>0, QuitsIsOneMove, LockUndisturbed DEF Enrolled
  <2>. QED
    BY <1>2, <2>1, <2>2, <2>3, <2>4, <2>5, <2>6
<1>3. ASSUME WorkerSends \/ SubscriptionEnds \/ PermissionWithdrawn
      PROVE  LockInv'
  <2>1. held' \in {held, 0} /\ rows' \subseteq rows /\ UNCHANGED jobs
    BY <1>3 DEF WorkerSends, SubscriptionEnds, PermissionWithdrawn, WorldSame
  <2>. QED
    BY <1>a, <2>1, LockUndisturbed
<1>. QED
  BY <1>0, <1>1, <1>2, <1>3 DEF PushNext

-----------------------------------------------------------------------------
(* Off stays off *)

(* A job stands, ends, or goes on with what it is at. *)
MovesOn(a) ==
  \/ jobs'[a].at \in {"none", jobs[a].at}
  \/ a \in Enrolling /\ jobs'[a].at \in Locked \cup {"queue"}
  \/ jobs[a].at = "delete" /\ jobs'[a].at = "unsubscribe"

(* A step by which nobody begins to enrol or to turn off, and in which the *)
(* browser is given an endpoint, or remembered as on, by one who enrols.   *)
LEMMA OffUndisturbed ==
  ASSUME OffInv, UNCHANGED chosen, \A a \in Actors : MovesOn(a),
         Enrolling # {} \/ (held' \in {held, 0} /\ wanted' = wanted),
         \A t \in Tabs : \/ /\ tabs'[t].open = tabs[t].open
                            /\ Enrolling # {} \/ tabs'[t].local = tabs[t].local
                         \/ jobs'[<<t, "card">>].at = "none"
  PROVE  OffInv'
<1>0. "none" \notin Locked /\ "delete" \notin Locked /\ "unsubscribe" \notin Locked /\ "asks" \notin Locked
  BY DEF Locked
<1>1. Enrolling' \subseteq Enrolling /\ TurningOff' \subseteq TurningOff
  BY <1>0 DEF MovesOn, Enrolling, TurningOff
<1>2. \A t \in Tabs : <<t, "card">> \in Actors /\ <<t, "launch">> \in Actors
  BY CardIsActor
<1>3. (TurningOff # {} => Enrolling = {})'
  BY <1>1 DEF OffInv
<1>4. ASSUME NEW t \in Tabs, jobs'[<<t, "card">>].at \in {"delete", "unsubscribe"}
      PROVE  held' \in {0, tabs'[t].local}
  <2>1. jobs[<<t, "card">>].at \in {"delete", "unsubscribe"}
    BY <1>4, <1>2, <1>0 DEF MovesOn
  <2>2. Enrolling = {}
    BY <2>1, <1>2 DEF OffInv, TurningOff
  <2>. QED
    BY <1>4, <2>1, <2>2 DEF OffInv
<1>5. ASSUME NEW t \in Tabs, ~tabs'[t].open PROVE jobs'[<<t, "card">>].at = "none"
  <2>1. CASE tabs'[t].open = tabs[t].open
    BY <1>5, <2>1, <1>2 DEF OffInv, MovesOn, Enrolling, Locked
  <2>. QED
    BY <2>1
<1>6. ASSUME NEW t \in Tabs PROVE jobs'[<<t, "launch">>].at \notin {"asks", "delete", "unsubscribe"}
  BY <1>0, <1>2 DEF OffInv, MovesOn
<1>7. ASSUME chosen' = "off" PROVE wanted' = "off" /\ held' = 0 /\ Enrolling' = {}
  BY <1>1, <1>7 DEF OffInv
<1>. QED
  BY <1>3, <1>4, <1>5, <1>6, <1>7 DEF OffInv

LEMMA OffKept ==
  ASSUME Windows = {}, MaxEnds \in Nat, Shape, OffInv, [PushNext]_pushVars
  PROVE  OffInv'
<1>0. CASE UNCHANGED pushVars
  BY <1>0 DEF pushVars, OffInv, TurningOff, Enrolling
<1>a. jobs \in [Actors -> Jobs] /\ tabs \in [Tabs -> Pages] /\ held \in Nat
  BY DEF Shape, JobsInv, TabsInv, EndsInv
<1>b. /\ \A x \in {"none", "asks", "queue", "delete", "unsubscribe"} : x \in Ats /\ x \notin Locked
      /\ \A x \in {"list", "replace", "register", "keep"} : x \in Ats /\ x \in Locked
  BY DEF Locked, Ats
<1>1. ASSUME NEW t \in Tabs,
             Launch(t) \/ Close(t) \/ ListReads(t) \/ CardReads(t) \/ Press(t) \/ Permitted(t)
             \/ Resync(t) \/ Deletes(t) \/ Unsubscribes(t)
      PROVE  OffInv'
  <2>. DEFINE a == <<t, "card">>
  <2>0. a \in Actors /\ <<t, "launch">> \in Actors /\ tabs[t] \in Pages
    BY <1>a, CardIsActor
  <2>1. CASE Launch(t)
    BY <2>1, <1>a, OffUndisturbed DEF Launch, DeviceSame, OffInv, MovesOn
  <2>2. CASE Close(t)
    <3>1. \A b \in Actors : jobs'[b] = IF b[1] = t THEN NoJob ELSE jobs[b]
      BY <2>2 DEF Close
    <3>2. \A b \in Actors : jobs'[b] = jobs[b] \/ jobs'[b].at = "none"
      BY <3>1 DEF NoJob
    <3>3. jobs'[a].at = "none" /\ \A u \in Tabs \ {t} : tabs'[u] = tabs[u]
      BY <2>2, <3>1, <2>0, <1>a DEF Close, NoJob
    <3>. QED
      BY <2>2, <3>2, <3>3, OffUndisturbed DEF Close, DeviceSame, PeopleSame, MovesOn
  <2>3. CASE ListReads(t)
    BY <2>3, <1>a, OffUndisturbed DEF ListReads, DeviceSame, PeopleSame, MovesOn, Pages
  <2>4. CASE CardReads(t)
    <3>1. jobs'[a].at = "none" /\ \A u \in Tabs \ {t} : tabs'[u] = tabs[u]
      BY <2>4, <1>a DEF CardReads, NoJob
    <3>. QED
      BY <2>4, <3>1, OffUndisturbed DEF CardReads, DeviceSame, PeopleSame, MovesOn
  <2>5. CASE Press(t)
    <3>1. CASE On(t)
      <4>1. Goes(a, "delete") /\ Enrolling = {} /\ tabs[t].local = held /\ tabs[t].open
        BY <2>5, <3>1 DEF Press, Ready
      <4>2. jobs'[a].at = "delete" /\ \A b \in Actors \ {a} : jobs'[b] = jobs[b]
        BY <4>1, <2>0, <1>a, <1>b, GoesIsOneMove
      <4>3. Enrolling' = {}
        BY <4>1, <4>2, <1>b DEF Enrolling
      <4>4. \A u \in Tabs : <<u, "card">> \in Actors /\ <<u, "launch">> \in Actors /\ <<u, "launch">> # a
        BY CardIsActor
      <4>5. UNCHANGED <<held, wanted, chosen, tabs>>
        BY <2>5, <3>1 DEF Press, DeviceSame
      <4>. QED
        BY <4>1, <4>2, <4>3, <4>4, <4>5 DEF OffInv
    <3>2. CASE ~On(t)
      <4>1. Goes(a, "asks") /\ TurningOff = {} /\ tabs[t].open /\ chosen' = "on"
        BY <2>5, <3>2 DEF Press, Ready
      <4>2. jobs'[a].at = "asks" /\ \A b \in Actors \ {a} : jobs'[b] = jobs[b]
        BY <4>1, <2>0, <1>a, <1>b, GoesIsOneMove
      <4>3. TurningOff' = {}
        BY <4>1, <4>2 DEF TurningOff
      <4>4. \A u \in Tabs : <<u, "card">> \in Actors /\ <<u, "launch">> \in Actors /\ <<u, "launch">> # a
        BY CardIsActor
      <4>5. UNCHANGED tabs
        BY <2>5 DEF Press
      <4>. QED
        BY <4>1, <4>2, <4>3, <4>4, <4>5 DEF OffInv, TurningOff
    <3>. QED
      BY <3>1, <3>2
  <2>6. CASE Permitted(t)
    <3>1. jobs[a].at = "asks" /\ (Goes(a, "queue") \/ Quits(a))
      BY <2>6 DEF Permitted
    <3>2. \A b \in Actors : MovesOn(b)
      BY <3>1, <2>0, <1>a, <1>b, GoesIsOneMove, QuitsIsOneMove DEF MovesOn, Enrolling
    <3>. QED
      BY <2>6, <3>2, OffUndisturbed DEF Permitted, PeopleSame
  <2>7. CASE Resync(t)
    <3>1. UNCHANGED <<held, wanted, chosen, permission>> /\ TurningOff = {} /\ tabs[t].open
          /\ \A u \in Tabs : tabs'[u].open = tabs[u].open /\ tabs'[u].local = tabs[u].local
      BY <2>7, <1>a DEF Resync, DeviceSame, PeopleSame, Pages
    <3>2. CASE UNCHANGED jobs
      BY <3>1, <3>2, OffUndisturbed DEF MovesOn
    <3>3. CASE (held # 0 \/ PushWanted) /\ Goes(<<t, "launch">>, "queue")
      <4>1. jobs'[<<t, "launch">>].at = "queue" /\ \A b \in Actors \ {<<t, "launch">>} : jobs'[b] = jobs[b]
        BY <3>3, <2>0, <1>a, <1>b, GoesIsOneMove
      <4>2. TurningOff' = {}
        BY <3>1, <4>1 DEF TurningOff
      <4>3. \A u \in Tabs : <<u, "card">> \in Actors /\ <<u, "launch">> \in Actors /\ <<u, "card">> # <<t, "launch">>
        BY CardIsActor
      <4>4. chosen # "off"
        BY <3>3 DEF OffInv, PushWanted
      <4>. QED
        BY <3>1, <4>1, <4>2, <4>3, <4>4 DEF OffInv, TurningOff
    <3>. QED
      BY <2>7, <3>2, <3>3 DEF Resync
  <2>8. CASE Deletes(t)
    <3>1. jobs[a].at = "delete" /\ (Goes(a, "unsubscribe") \/ Quits(a))
      BY <2>8 DEF Deletes
    <3>2. \A b \in Actors : MovesOn(b)
      BY <3>1, <2>0, <1>a, <1>b, GoesIsOneMove, QuitsIsOneMove DEF MovesOn
    <3>. QED
      BY <2>8, <3>2, OffUndisturbed DEF Deletes, PeopleSame
  <2>9. CASE Unsubscribes(t)
    <3>1. a \in TurningOff /\ Enrolling = {}
      BY <2>9, <2>0 DEF Unsubscribes, OffInv, TurningOff
    <3>2. held' = 0 /\ wanted' = "off" /\ chosen' = "off"
      BY <2>9 DEF Unsubscribes, OffInv, RememberedOff
    <3>3. jobs'[a].at = "none" /\ \A b \in Actors \ {a} : jobs'[b] = jobs[b]
      BY <2>9, <2>0, <1>a, QuitsIsOneMove DEF Unsubscribes
    <3>4. Enrolling' = {}
      BY <3>1, <3>3, <1>b DEF Enrolling
    <3>5. \A u \in Tabs : tabs'[u].open = tabs[u].open
      BY <2>9, <1>a DEF Unsubscribes, Pages
    <3>6. \A u \in Tabs : <<u, "card">> \in Actors /\ <<u, "launch">> \in Actors /\ <<u, "launch">> # a
      BY CardIsActor
    <3>. QED
      BY <3>2, <3>3, <3>4, <3>5, <3>6 DEF OffInv
  <2>. QED
    BY <1>1, <2>1, <2>2, <2>3, <2>4, <2>5, <2>6, <2>7, <2>8, <2>9
<1>2. ASSUME NEW a \in Actors,
             Locks(a) \/ ListsAfresh(a) \/ Replaces(a) \/ Throws(a) \/ Registers(a) \/ Enrolled(a)
      PROVE  OffInv'
  <2>1. a \in Enrolling /\ UNCHANGED chosen
    BY <1>2, <1>b DEF Locks, ListsAfresh, Replaces, Throws, Registers, Enrolled, Enrolling, PeopleSame
  <2>2. jobs'[a].at \in Locked \cup {"none"} /\ \A b \in Actors \ {a} : jobs'[b] = jobs[b]
    <3>1. CASE Locks(a) \/ Throws(a) \/ Registers(a) \/ Enrolled(a)
      <4>1. Quits(a) \/ \E x \in {"list", "keep"} : Goes(a, x)
        BY <3>1 DEF Locks, Throws, Registers, Enrolled
      <4>. QED
        BY <4>1, <1>a, <1>b, GoesIsOneMove, QuitsIsOneMove
    <3>2. CASE Replaces(a)
      BY <3>2, <1>b, ReplacesIsOneMove
    <3>3. CASE ListsAfresh(a)
      <4>1. CASE Quits(a)
        BY <4>1, <1>a, QuitsIsOneMove
      <4>2. CASE jobs' = [jobs EXCEPT ![a].at = "replace", ![a].ids = rows]
        <5>. DEFINE j == [jobs[a] EXCEPT !.at = "replace", !.ids = rows]
        <5>1. j.at = "replace"
          BY <1>a DEF Jobs
        <5>2. jobs' = [jobs EXCEPT ![a] = j]
          BY <4>2, <1>a
        <5>. QED
          BY <5>1, <5>2, <1>a, <1>b
      <4>. QED
        BY <3>3, <4>1, <4>2 DEF ListsAfresh, ListOrNothing
    <3>. QED
      BY <1>2, <3>1, <3>2, <3>3
  <2>3. \A b \in Actors : MovesOn(b)
    BY <2>1, <2>2 DEF MovesOn
  <2>4. \A u \in Tabs : tabs'[u].open = tabs[u].open
    BY <1>2, <1>a DEF Locks, ListsAfresh, Replaces, Throws, Registers, Enrolled, Pages
  <2>. QED
    BY <2>1, <2>3, <2>4, OffUndisturbed
<1>3. ASSUME WorkerSends \/ SubscriptionEnds \/ PermissionWithdrawn
      PROVE  OffInv'
  <2>1. held' \in {held, 0} /\ UNCHANGED <<wanted, jobs, tabs, chosen>>
    BY <1>3 DEF WorkerSends, SubscriptionEnds, PermissionWithdrawn, WorldSame, PeopleSame
  <2>. QED
    BY <2>1, OffUndisturbed DEF MovesOn
<1>. QED
  BY <1>0, <1>1, <1>2, <1>3 DEF PushNext

-----------------------------------------------------------------------------
(* What the steps promise *)

(* A subscription that works is not dropped by one who enrols: what it was *)
(* told the server lists is what the server lists.                         *)
LEMMA StepKeeps ==
  ASSUME MaxEnds \in Nat, Shape, LockInv, [PushNext]_pushVars
  PROVE  WorkingIsNotDropped
<1>. SUFFICES ASSUME held # 0, held \in live \cap rows, held' # held
              PROVE  mishaps' > mishaps \/ (held' = 0 /\ wanted' = "off")
  BY DEF WorkingIsNotDropped
<1>1. ASSUME NEW t \in Tabs,
             Launch(t) \/ Close(t) \/ ListReads(t) \/ CardReads(t) \/ Press(t) \/ Permitted(t)
             \/ Resync(t) \/ Deletes(t) \/ Unsubscribes(t)
      PROVE  held' = 0 /\ wanted' = "off"
  BY <1>1 DEF Launch, Close, ListReads, CardReads, Press, Permitted, Resync, Deletes, Unsubscribes,
              DeviceSame, RememberedOff
<1>2. ASSUME NEW a \in Actors,
             Locks(a) \/ ListsAfresh(a) \/ Replaces(a) \/ Throws(a) \/ Registers(a) \/ Enrolled(a)
      PROVE  FALSE
  <2>1. CASE Replaces(a)
    BY <2>1 DEF Replaces, LockInv
  <2>. QED
    BY <1>2, <2>1 DEF Locks, ListsAfresh, Throws, Registers, Enrolled, DeviceSame
<1>3. ASSUME WorkerSends \/ SubscriptionEnds \/ PermissionWithdrawn
      PROVE  mishaps' > mishaps
  <2>1. mishaps \in Nat
    BY DEF Shape, EndsInv
  <2>2. SubscriptionEnds \/ PermissionWithdrawn
    BY <1>3 DEF WorkerSends
  <2>3. mishaps' = mishaps + 1
    BY <2>2 DEF SubscriptionEnds, PermissionWithdrawn, Mishap
  <2>. QED
    BY <2>1, <2>3
<1>. QED
  BY <1>1, <1>2, <1>3 DEF PushNext, pushVars

LEMMA PushInits ==
  ASSUME MaxEnds \in Nat, PushInit
  PROVE  Shape /\ LockInv /\ OffInv
<1>1. \A a \in Actors : jobs[a] = NoJob
  BY DEF PushInit
<1>2. NoJob \in Jobs /\ NoJob.at = "none"
  BY DEF NoJob, Jobs, Ats
<1>3. \A t \in Tabs : <<t, "card">> \in Actors /\ <<t, "launch">> \in Actors
  BY CardIsActor
<1>4. EndsInv
  BY DEF PushInit, EndsInv
<1>5. JobsInv
  BY <1>2 DEF PushInit, JobsInv
<1>6. TabsInv
  BY DEF PushInit, TabsInv, Pages, Closed, Unread
<1>7. LockInv
  BY <1>1, <1>2 DEF LockInv, Locked
<1>8. OffInv
  BY <1>1, <1>2, <1>3 DEF PushInit, OffInv, TurningOff
<1>. QED
  BY <1>4, <1>5, <1>6, <1>7, <1>8 DEF Shape

LEMMA ShapeIsTyped == Shape => PushTypeOK
  BY DEF Shape, EndsInv, JobsInv, PushTypeOK, Jobs, Ats

(* Any windows: a subscription that works is ended by the card's switch or *)
(* the world alone, whoever enrols beside it (push.ts, the lock).          *)
THEOREM WorkingIsNeverDropped ==
  ASSUME MaxEnds \in Nat
  PROVE  PushSpec => [][WorkingIsNotDropped]_pushVars
<1>1. PushInit => Shape /\ LockInv
  BY PushInits
<1>2. Shape /\ LockInv /\ [PushNext]_pushVars => (Shape /\ LockInv)' /\ WorkingIsNotDropped
  BY ShapeKept, LockKept, StepKeeps
<1>. QED
  BY <1>1, <1>2, PTL DEF PushSpec

(* The timings the windows name left out: a browser switched off, and not  *)
(* on again, holds nothing, and no launch brings it back; and a            *)
(* subscription that works is not dropped.                                 *)
THEOREM PushIsAlwaysKept ==
  ASSUME MaxEnds \in Nat, Windows = {}
  PROVE  PushSpec => PushIsKept
<1>1. PushInit => Shape /\ LockInv /\ OffInv
  BY PushInits
<1>2. Shape /\ LockInv /\ OffInv /\ [PushNext]_pushVars
        => (Shape /\ LockInv /\ OffInv)' /\ WorkingIsNotDropped
  BY ShapeKept, LockKept, OffKept, StepKeeps
<1>3. Shape /\ OffInv => PushInv
  BY ShapeIsTyped DEF PushInv, OffInv, OffStaysOff
<1>. QED
  BY <1>1, <1>2, <1>3, PTL DEF PushSpec, PushIsKept
=============================================================================
