---------------------------- MODULE DeviceNotes ----------------------------
(***************************************************************************)
(* The device's own copy of a note (offline/notesCache.ts): written as a   *)
(* side effect of every read the app makes, by list rows, by the search    *)
(* corpus, by the note screen and by the prefetch that fills in bodies     *)
(* (offline/useNotesCache.ts), each of which compares with what is there   *)
(* before it puts.  The server moves notes on, archives and purges them    *)
(* meanwhile, and the person may sign out.                                 *)
(***************************************************************************)
EXTENDS Naturals, FiniteSets

CONSTANTS
  Notes,       \* the newest notes
  Moving,      \* those that change while the others stand still
  MaxReads,    \* reads and saves under way at once
  MaxVersion,  \* how often the note may change
  Windows      \* the hazards a run lets happen: "apart", "late"

VARIABLES
  server,      \* the notes as the server has them
  device,      \* the notes as IndexedDB has them
  answers,     \* answers on their way to the device, and what it held then
  told, idle,  \* rows to be read again; a prefetch waiting for an idle moment
  pass,        \* the prefetch: where its pass is, and what it is fetching
  arrived,     \* rowsArrivedMeanwhile
  attempted,   \* the versions whose bodies were asked for this session
  gaveUp,      \* history: the last pass stopped early
  session, wiped, forgotten

prefetch == <<pass, arrived, attempted, gaveUp>>
ends == <<session, wiped, forgotten>>
devvars == <<server, device, answers, told, idle, prefetch, ends>>

Absent == [version |-> 0, detail |-> FALSE, text |-> FALSE, archived |-> FALSE]

(* What a request of each kind brings back of the note, if anything. *)
Kinds == {"list", "corpus", "archive", "detail"}
Record(n, kind) ==
  [version |-> server[n].version, detail |-> kind = "detail", text |-> kind = "corpus",
   archived |-> server[n].life = "archived"]
Shows(n, kind) ==
  CASE kind \in {"list", "corpus"} -> server[n].life = "active"
    [] kind = "archive" -> server[n].life = "archived"
    [] kind = "detail" -> server[n].life # "gone"

(* The rule every write goes through. *)
Supersedes(next, existing) ==
  \/ existing = Absent
  \/ next.version > existing.version
  \/ /\ existing.detail => next.detail
     /\ existing.text /\ ~next.detail => next.text

(* The get and the put are two transactions: another write fits between. *)
Seen(n, atAnswer) == {device[n]} \cup IF "apart" \in Windows THEN {atAnswer} ELSE {}

Cached(n, next, atAnswer) ==
  \E existing \in Seen(n, atAnswer) :
    device' = IF Supersedes(next, existing) THEN [device EXCEPT ![n] = next] ELSE device

-----------------------------------------------------------------------------
(* The reads of the screens, whose answers `remember` writes. *)

Answered(n, got) ==
  [note |-> n, got |-> got, seen |-> IF "apart" \in Windows THEN device[n] ELSE Absent]
Arrives(a) == Cardinality(answers) < MaxReads /\ answers' = answers \cup {a}

(* A read is what the server answered; one that fails changes nothing. *)
Read ==
  /\ session
  /\ \E n \in Notes, k \in Kinds : Shows(n, k) /\ Arrives(Answered(n, Record(n, k)))
  /\ UNCHANGED <<server, device, told, idle, prefetch, ends>>

Changes(n) == n \in Moving /\ server[n].life # "gone" /\ server[n].version < MaxVersion

(* The editor's own save answers with the note it made. *)
Save ==
  /\ session
  /\ \E n \in Notes :
       /\ Changes(n)
       /\ server' = [server EXCEPT ![n].version = @ + 1]
       /\ Arrives(Answered(n, [Record(n, "detail") EXCEPT !.version = server[n].version + 1]))
  /\ UNCHANGED <<device, told, idle, prefetch, ends>>

InTime(n) == session /\ server[n].life # "gone"

Remember(a) ==
  /\ a \in answers
  /\ "late" \in Windows \/ InTime(a.note)
  /\ Cached(a.note, a.got, a.seen)
  /\ answers' = answers \ {a} /\ told' = TRUE
  /\ UNCHANGED <<server, idle, prefetch, ends>>

(* The document ends, or the answer was to a query nobody keeps. *)
Dropped(a) ==
  /\ a \in answers /\ ~InTime(a.note)
  /\ answers' = answers \ {a}
  /\ UNCHANGED <<server, device, told, idle, prefetch, ends>>

-----------------------------------------------------------------------------
(* The prefetch of bodies. *)

RereadRows ==
  /\ told /\ told' = FALSE
  /\ idle' = (session /\ \E n \in Notes : device[n] # Absent)
  /\ UNCHANGED <<server, device, answers, prefetch, ends>>

TriggerDroppedMutant == arrived
NotesArrival == TRUE

IdleRuns ==
  /\ idle /\ idle' = FALSE
  /\ IF pass.pc # "off"
       THEN arrived' = NotesArrival /\ UNCHANGED <<pass, gaveUp>>
       ELSE arrived' = FALSE /\ pass' = [pass EXCEPT !.pc = "scan"] /\ gaveUp' = FALSE
  /\ UNCHANGED <<server, device, answers, told, attempted, ends>>

Wanted(n) ==
  /\ device[n] # Absent /\ ~device[n].archived /\ ~device[n].detail
  /\ <<n, device[n].version>> \notin attempted

Nobody == CHOOSE n \in Notes : TRUE
Off(pc) == [pc |-> pc, note |-> Nobody, got |-> Absent, todo |-> {}]
StopEarly == pass' = Off("off") /\ gaveUp' = TRUE /\ UNCHANGED arrived
NextBody == pass' = [Off("next") EXCEPT !.todo = pass.todo] /\ UNCHANGED <<arrived, gaveUp>>

(* One pass asks for the rows it found wanting when it began. *)
Scan ==
  /\ pass.pc = "scan"
  /\ pass' = [Off("next") EXCEPT !.todo =
                {<<n, device[n].version>> : n \in {m \in Notes : Wanted(m)}}]
  /\ UNCHANGED <<server, device, answers, told, idle, attempted, arrived, gaveUp, ends>>

PassOver ==
  /\ pass.pc = "next" /\ pass.todo = {}
  /\ pass' = Off(IF arrived THEN "scan" ELSE "off")
  /\ arrived' = FALSE
  /\ UNCHANGED <<server, device, answers, told, idle, attempted, gaveUp, ends>>

AskBody ==
  /\ pass.pc = "next" /\ pass.todo # {}
  /\ IF ~session THEN StopEarly /\ UNCHANGED attempted
     ELSE \E w \in pass.todo :
            /\ attempted' = attempted \cup {w}
            /\ pass' = [pass EXCEPT !.pc = "get", !.note = w[1], !.todo = @ \ {w}]
            /\ UNCHANGED <<arrived, gaveUp>>
  /\ UNCHANGED <<server, device, answers, told, idle, ends>>

StillSignedIn == session

BodyArrives ==
  /\ pass.pc = "get"
  /\ IF ~StillSignedIn THEN StopEarly
     ELSE IF ~Shows(pass.note, "detail") THEN NextBody
     ELSE /\ pass' = [pass EXCEPT !.pc = "cache", !.got = Record(pass.note, "detail")]
          /\ UNCHANGED <<arrived, gaveUp>>
  /\ UNCHANGED <<server, device, answers, told, idle, attempted, ends>>

BodyRefused ==
  /\ pass.pc = "get" /\ StopEarly
  /\ UNCHANGED <<server, device, answers, told, idle, attempted, ends>>

(* Nothing awaits between the second look at the session and the write. *)
CacheBody ==
  /\ pass.pc = "cache"
  /\ Cached(pass.note, pass.got, Absent) /\ NextBody
  /\ UNCHANGED <<server, answers, told, idle, attempted, ends>>

-----------------------------------------------------------------------------
Changed ==
  /\ \E n \in Notes, l \in {"active", "archived"} :
       /\ Changes(n)
       /\ server' = [server EXCEPT ![n] = [version |-> server[n].version + 1, life |-> l]]
  /\ UNCHANGED <<device, answers, told, idle, prefetch, ends>>

Quiet == pass.pc # "cache"

Purge ==
  /\ session
  /\ "late" \in Windows \/ Quiet
  /\ \E n \in Notes : /\ server[n].life = "archived"
                     /\ server' = [server EXCEPT ![n].life = "gone"]
  /\ UNCHANGED <<device, answers, told, idle, prefetch, ends>>

AfterForget(n) == Absent

ForgetNote ==
  /\ session
  /\ \E n \in Notes \ forgotten :
       /\ server[n].life = "gone"
       /\ device' = [device EXCEPT ![n] = AfterForget(n)]
       /\ forgotten' = forgotten \cup {n}
  /\ told' = TRUE
  /\ UNCHANGED <<server, answers, idle, prefetch, session, wiped>>

SignOut ==
  /\ session /\ session' = FALSE
  /\ "late" \in Windows \/ Quiet
  /\ UNCHANGED <<server, device, answers, told, idle, prefetch, wiped, forgotten>>

ClearAll ==
  /\ ~session /\ ~wiped /\ wiped' = TRUE /\ device' = [n \in Notes |-> Absent]
  /\ UNCHANGED <<server, answers, told, idle, prefetch, session, forgotten>>

DevInit ==
  /\ server = [n \in Notes |-> [version |-> 1, life |-> "active"]]
  /\ device = [n \in Notes |-> Absent]
  /\ answers = {} /\ told = FALSE /\ idle = FALSE
  /\ pass = Off("off") /\ arrived = FALSE
  /\ attempted = {} /\ gaveUp = FALSE
  /\ session = TRUE /\ wiped = FALSE /\ forgotten = {}

DevNext ==
  \/ Read \/ Save \/ \E a \in answers : Remember(a) \/ Dropped(a)
  \/ RereadRows \/ IdleRuns \/ Scan \/ PassOver \/ AskBody \/ BodyArrives \/ BodyRefused \/ CacheBody
  \/ Changed \/ Purge \/ ForgetNote \/ SignOut \/ ClearAll

DevSpec == DevInit /\ [][DevNext]_devvars

-----------------------------------------------------------------------------
Records == [version : 0..MaxVersion, detail : BOOLEAN, text : BOOLEAN, archived : BOOLEAN]

DevTypeOK ==
  /\ server \in [Notes -> [version : 1..MaxVersion, life : {"active", "archived", "gone"}]]
  /\ device \in [Notes -> Records]
  /\ answers \subseteq [note : Notes, got : Records, seen : Records]
  /\ pass \in [pc : {"off", "scan", "next", "get", "cache"}, note : Notes, got : Records,
              todo : SUBSET (Notes \X (1..MaxVersion))]
  /\ attempted \subseteq Notes \X (1..MaxVersion) /\ forgotten \subseteq Notes
  /\ {told, idle, arrived, gaveUp, session, wiped} \subseteq BOOLEAN

(* A body on the device is given up only for a newer note, a purge or a    *)
(* sign-out: going back to the library never throws it away.               *)
RowsKeepBodies ==
  \A n \in Notes : device[n].detail /\ ~device'[n].detail =>
    device'[n] = Absent \/ device'[n].version > device[n].version

(* Once the prefetch is at rest, every row it could fill in was asked for: *)
(* rows that land during a pass are not missed.                            *)
BodiesFollow ==
  pass.pc = "off" /\ ~told /\ ~idle /\ ~gaveUp /\ session =>
    \A n \in Notes : ~Wanted(n)

(* Signed out and wiped, or purged and forgotten, nothing is written back. *)
StaysEmpty == \A n \in Notes : wiped \/ n \in forgotten => device[n] = Absent

-----------------------------------------------------------------------------
(* The notes on the device, through reads that cross, a prefetch pass and a   *)
(* sign-out: bodies follow their rows, are not thrown away, and are gone when *)
(* they should be.                                                            *)
CacheInv == DevTypeOK /\ BodiesFollow /\ StaysEmpty
CacheKeepsUp == []CacheInv /\ [][RowsKeepBodies]_devvars

-----------------------------------------------------------------------------
(* What the repository says that the code does not keep. *)

(* The module's second rule, "newer wins": nothing on the device is        *)
(* replaced by something older.                                            *)
NewerWins ==
  [][\A n \in Notes : device[n] # Absent /\ device'[n] # Absent =>
       device'[n].version >= device[n].version]_devvars
=============================================================================
