---------------------------------- MODULE Ask ----------------------------------
(***************************************************************************)
(* The Ask thread: questions over the notes, each sent under its own       *)
(* idempotency key, answered 202 with a row, polled until the worker has   *)
(* settled it, tried again, saved as a note (features/ask/thread.ts,       *)
(* useAskThread.ts, AskPanel.tsx, api/queries/ask.ts).  The hook lives in  *)
(* Home: leaving it drops the thread in memory and not the requests on     *)
(* their way, whose outcomes go to the copy in sessionStorage.  The        *)
(* server is the key's record (handler/idempotency.go), the row            *)
(* (service/ask.go) and the worker's verdict.  An answer's words, sources  *)
(* and the cuts of the history are left out; a body is the keys of the     *)
(* answered turns it carries.                                              *)
(***************************************************************************)
EXTENDS Integers, FiniteSets, SequencesExt

CONSTANTS
  MaxKeys,      \* requests ever coined
  MaxHomes,     \* times Home is mounted
  MaxMishaps,   \* requests lost or refused, failed answers, reloads, five minutes gone by
  Windows       \* timings left out of a run unless named here, see the guards

VARIABLES
  turns,        \* the thread Home holds, empty while there is none
  saved,        \* the thread in sessionStorage
  home, homes,  \* the mount of Home on screen, 0 none; how many there have been
  posts,        \* POST /v1/ask on its way, by the mount that sent it
  keyed, rows,  \* the server's idempotency record and row of each key
  cache,        \* the poll's query: nothing read, read pending, failed since it was
  saves,        \* Save as note on its way, with the answers in it
  coined, mishaps,
  old,          \* questions first sent more than RESUME_WINDOW_MS ago
  heard,        \* history: keys whose 202 came back to a thread that is still kept
  kept          \* history: how many notes hold each answer

askVars == <<turns, saved, home, homes, posts, keyed, rows, cache, saves, coined, mishaps, old, heard, kept>>

Keys == 1..MaxKeys
Statuses == {"asking", "pending", "answered", "failed", "timeout"}
Errors == {"none", "not_sent", "offline", "lost", "told"}

NewTurn(k, question, body) ==
  [key |-> k, question |-> question, status |-> "asking", error |-> "none", row |-> FALSE,
   body |-> body, again |-> FALSE]

Busy(t) == t.status \in {"asking", "pending"}
Free(ts) == ts # <<>> => ~Busy(Last(ts))
Fail(t, error) == [t EXCEPT !.status = "failed", !.error = error]
ApplyRow(t, status) ==
  [t EXCEPT !.status = status, !.row = TRUE, !.again = FALSE,
            !.error = IF status = "failed" THEN "told" ELSE "none"]

AfreshMutant(t) == FALSE

(* The very same request under its key: for a POST that never came back. *)
CanResend(t) == t.status = "failed" /\ t.error = "not_sent"

(* The row polled again: for a wait given up or a connection lost, while young. *)
CanResume(t) ==
  /\ t.row /\ t.key \notin old
  /\ t.status = "timeout" \/ (t.status = "failed" /\ t.error = "lost")

HistoryFor(ts) == {t.key : t \in {u \in ToSet(ts) : u.status = "answered"}}

Resend(t, ts) == [t EXCEPT !.status = "asking", !.row = FALSE, !.error = "none"]

Without(ts, k) == SelectSeq(ts, LAMBDA t : t.key # k)

(* A turn sent again goes to the end, where the poll is. *)
MovedToEnd(ts, t) == Append(Without(ts, t.key), t)

Rewritten(ts, k, Update(_)) == [i \in DOMAIN ts |-> IF ts[i].key = k THEN Update(ts[i]) ELSE ts[i]]

Mishap == mishaps < MaxMishaps /\ mishaps' = mishaps + 1

-----------------------------------------------------------------------------
(* Home: the thread in memory, written to storage whenever it changes *)

Put(ts) == turns' = ts /\ saved' = ts

PutInStorage(ts) == saved' = ts /\ UNCHANGED turns

(* An outcome goes to the thread on screen, or to storage from a Home that has gone. *)
Held(by) == IF by = home THEN turns ELSE saved

Settle(by, ts) == IF by = home THEN Put(ts) ELSE PutInStorage(ts)

(* A send, or offline, which fails at once: known to be so for a first send only. *)
Send(ts, t, by) ==
  \/ /\ Put(ts) /\ UNCHANGED mishaps
     /\ posts' = posts \cup {[key |-> t.key, by |-> by, body |-> t.body, at |-> "out"]}
  \/ /\ t.key <= coined => "offline" \in Windows
     /\ Mishap /\ Put(Rewritten(ts, t.key, LAMBDA u : Fail(u, "offline"))) /\ UNCHANGED posts

Afresh(ts, question) ==
  /\ coined < MaxKeys /\ coined' = coined + 1
  /\ LET t == NewTurn(coined + 1, question, HistoryFor(ts)) IN Send(Append(ts, t), t, home)

QuietSaves == saves = {} \/ "meanwhile" \in Windows
ServerSame == UNCHANGED <<keyed, rows, old, heard, kept>>

AskQuestion ==
  /\ home # 0 /\ Free(turns) /\ QuietSaves /\ Afresh(turns, coined + 1)
  /\ UNCHANGED <<home, homes, cache, saves>> /\ ServerSame

(* Picked up again, in a query that still holds its error if it had read the row before. *)
Resume(t) ==
  /\ CanResume(t) /\ t = Last(turns)
  /\ Put(Rewritten(turns, t.key, LAMBDA u : IF cache[t.key] = "failed" THEN [Fail(u, "lost") EXCEPT !.again = TRUE]
                                            ELSE [u EXCEPT !.status = "pending", !.error = "none", !.again = TRUE]))
  /\ UNCHANGED <<posts, coined, mishaps>>

TryAgain(i) ==
  /\ home # 0 /\ Free(turns) /\ QuietSaves /\ turns[i].status \in {"failed", "timeout"}
  /\ LET t == turns[i]
         resumes == t = Last(turns) /\ CanResume(t)
         resent == Resend(t, turns)
     IN \/ Resume(t)
        \/ ~resumes /\ CanResend(t) /\ Send(MovedToEnd(turns, resent), resent, home) /\ UNCHANGED coined
        \/ ~resumes /\ ~CanResend(t) /\ Afresh(Without(turns, t.key), t.question)
  /\ UNCHANGED <<home, homes, cache, saves>> /\ ServerSame

MayClear == Free(turns) /\ saves = {}

Clear ==
  /\ home # 0 /\ turns # <<>> /\ MayClear /\ Put(<<>>)
  /\ UNCHANGED <<home, homes, posts, cache, saves, coined, mishaps>> /\ ServerSame

Leave ==
  /\ home # 0 /\ home' = 0 /\ turns' = <<>>
  /\ UNCHANGED <<saved, homes, posts, cache, saves, coined, mishaps>> /\ ServerSame

(* The saved thread read back, honest about the time that has passed. *)
Loaded(t, minute) ==
  CASE t.status = "asking" -> IF t.key \in old THEN Fail(t, "not_sent") ELSE t
    [] t.status = "pending" -> IF minute THEN [t EXCEPT !.status = "timeout"] ELSE t
    [] OTHER -> t

(* A last turn still asking belongs to a Home that has gone: the same request goes out again. *)
Replay(ts, by) ==
  IF ts # <<>> /\ Last(ts).status = "asking" THEN Send(ts, Last(ts), by)
  ELSE Put(ts) /\ UNCHANGED <<posts, mishaps>>

Come ==
  /\ home = 0 /\ homes < MaxHomes /\ homes' = homes + 1 /\ home' = homes + 1
  /\ saves = {} \/ "resave" \in Windows
  /\ \E minute \in BOOLEAN : Replay([i \in DOMAIN saved |-> Loaded(saved[i], minute)], homes + 1)
  /\ UNCHANGED <<cache, saves, coined>> /\ ServerSame

(* A reload keeps the session's storage, and nothing else of the page. *)
Reload ==
  /\ Mishap /\ saves = {} /\ posts' = {} /\ cache' = [k \in Keys |-> "none"]
  /\ home' = 0 /\ turns' = <<>> /\ UNCHANGED <<saved, homes, saves, coined>> /\ ServerSame

(* Five minutes since the question was sent. *)
Ages(k) ==
  /\ k <= coined /\ k \notin old /\ Mishap /\ old' = old \cup {k}
  /\ UNCHANGED <<turns, saved, home, homes, posts, keyed, rows, cache, saves, coined, heard, kept>>

-----------------------------------------------------------------------------
(* The request and its key *)

HomeSame == UNCHANGED <<home, homes, cache, saves, coined, old, kept>>

Become(p, at) == posts' = (posts \ {p}) \cup {[p EXCEPT !.at = at]}

(* The key's record decides: claimed, still claimed by another, or settled and replayed. *)
Arrives(p) ==
  /\ p.at = "out"
  /\ LET k == keyed[p.key]
     IN /\ Become(p, CASE k.state # "free" /\ k.body # {p.body} -> "reused"
                       [] k.state = "free" -> "in"
                       [] k.state = "handling" /\ k.body = {p.body} -> "409"
                       [] OTHER -> "202")
        /\ keyed' = IF k.state = "free" THEN [keyed EXCEPT ![p.key] = [state |-> "handling", body |-> {p.body}]]
                    ELSE keyed
  /\ UNCHANGED <<turns, saved, rows, mishaps, heard>> /\ HomeSame

(* The row is written and the worker called, or the claim is let go with a refusal. *)
HandlingEnds(k) ==
  /\ keyed[k].state = "handling"
  /\ \/ /\ keyed' = [keyed EXCEPT ![k].state = "done"] /\ rows' = [rows EXCEPT ![k] = "pending"]
        /\ posts' = {IF p.key = k /\ p.at = "in" THEN [p EXCEPT !.at = "202"] ELSE p : p \in posts}
        /\ UNCHANGED mishaps
     \/ /\ Mishap /\ keyed' = [keyed EXCEPT ![k].state = "free"] /\ UNCHANGED rows
        /\ posts' = {IF p.key = k /\ p.at = "in" THEN [p EXCEPT !.at = "http"] ELSE p : p \in posts}
  /\ UNCHANGED <<turns, saved, heard>> /\ HomeSame

(* From a Home that has gone: while the turn it sent is still as that Home left it. *)
InTime(p) ==
  \/ p.by = home \/ "late" \in Windows
  \/ \A t \in ToSet(saved) : t.key = p.key => t.status = "asking"

Ends(p, Update(_)) == InTime(p) /\ posts' = posts \ {p} /\ Settle(p.by, Rewritten(Held(p.by), p.key, Update))

Accepted(p) ==
  /\ p.at = "202" /\ Ends(p, LAMBDA t : ApplyRow(t, "pending"))
  /\ heard' = IF home \in {0, p.by} THEN heard \cup {p.key} ELSE heard
  /\ UNCHANGED <<keyed, rows, mishaps>> /\ HomeSame

(* A 2xx that is no row: a captive portal's page before the server, a proxy after it. *)
NotARow(p) ==
  /\ p.at \in {"out", "202"} /\ Mishap /\ Ends(p, LAMBDA t : Fail(t, "lost"))
  /\ UNCHANGED <<keyed, rows, heard>> /\ HomeSame

Refused(p) ==
  /\ p.at \in {"http", "reused"} /\ Ends(p, LAMBDA t : Fail(t, "told"))
  /\ UNCHANGED <<keyed, rows, mishaps, heard>> /\ HomeSame

(* "Still in flight": sent again in a second, until the tries are used up. *)
Conflict(p) ==
  /\ p.at = "409"
  /\ \/ Become(p, "out") /\ UNCHANGED <<turns, saved, mishaps>>
     \/ Mishap /\ Ends(p, LAMBDA t : Fail(t, "told"))
  /\ UNCHANGED <<keyed, rows, heard>> /\ HomeSame

Lost(p) ==
  /\ Mishap /\ Ends(p, LAMBDA t : Fail(t, "not_sent"))
  /\ UNCHANGED <<keyed, rows, heard>> /\ HomeSame

-----------------------------------------------------------------------------
(* The row, the worker and the poll *)

Worker(k) ==
  /\ rows[k] = "pending"
  /\ \/ rows' = [rows EXCEPT ![k] = "answered"] /\ UNCHANGED mishaps
     \/ Mishap /\ rows' = [rows EXCEPT ![k] = "failed"]
  /\ UNCHANGED <<turns, saved, posts, keyed, heard>> /\ HomeSame

Polled(t) == t = Last(turns) /\ t.status = "pending" /\ t.row
PollSame == UNCHANGED <<home, homes, posts, keyed, rows, saves, coined, old, heard, kept>>

PollReads ==
  /\ turns # <<>> /\ LET t == Last(turns)
     IN /\ Polled(t)
        /\ IF rows[t.key] = "pending"
           THEN /\ cache' = [cache EXCEPT ![t.key] = "pending"]
                /\ Put(Rewritten(turns, t.key, LAMBDA u : [u EXCEPT !.again = FALSE]))
           ELSE /\ Put(Rewritten(turns, t.key, LAMBDA u : ApplyRow(u, rows[t.key]))) /\ UNCHANGED cache
  /\ UNCHANGED mishaps /\ PollSame

(* A poll that failed for good; the query keeps its error beside a row it had read. *)
PollFails ==
  /\ turns # <<>> /\ LET t == Last(turns)
     IN /\ Polled(t) /\ Mishap
        /\ cache' = [cache EXCEPT ![t.key] = IF @ = "none" THEN "none" ELSE "failed"]
        /\ Put(Rewritten(turns, t.key, LAMBDA u : [Fail(u, "lost") EXCEPT !.again = FALSE]))
  /\ PollSame

(* A minute with no answer. *)
GivesUp ==
  /\ turns # <<>> /\ LET t == Last(turns)
     IN Polled(t) /\ Put(Rewritten(turns, t.key, LAMBDA u : [u EXCEPT !.status = "timeout", !.again = FALSE]))
  /\ UNCHANGED <<cache, mishaps>> /\ PollSame

-----------------------------------------------------------------------------
(* Save as note *)

SaveAsNote ==
  /\ home # 0 /\ Free(turns) /\ HistoryFor(turns) # {} /\ \A s \in saves : s.by # home
  /\ saves' = saves \cup {[by |-> home, answers |-> HistoryFor(turns)]}
  /\ UNCHANGED <<turns, saved, home, homes, posts, cache, coined, mishaps>> /\ ServerSame

(* The thread is ended: the one on screen, or from a Home that has gone the saved one. *)
Ended(by) == IF by = home THEN Put(<<>>) ELSE PutInStorage(<<>>)

SaveEnds(s) ==
  /\ saves' = saves \ {s}
  /\ \/ /\ Ended(s.by) /\ kept' = [k \in Keys |-> kept[k] + (IF k \in s.answers THEN 1 ELSE 0)]
        /\ UNCHANGED mishaps
     \/ Mishap /\ UNCHANGED <<turns, saved, kept>>
  /\ UNCHANGED <<home, homes, posts, keyed, rows, cache, coined, old, heard>>

-----------------------------------------------------------------------------
AskInit ==
  /\ turns = <<>> /\ saved = <<>> /\ home = 1 /\ homes = 1 /\ posts = {} /\ saves = {}
  /\ keyed = [k \in Keys |-> [state |-> "free", body |-> {}]] /\ rows = [k \in Keys |-> "none"]
  /\ cache = [k \in Keys |-> "none"] /\ coined = 0 /\ mishaps = 0 /\ old = {} /\ heard = {}
  /\ kept = [k \in Keys |-> 0]

Request == \E p \in posts : Arrives(p) \/ Accepted(p) \/ Refused(p) \/ Conflict(p)

AskNext ==
  \/ AskQuestion \/ Clear \/ Leave \/ Come \/ Reload \/ SaveAsNote
  \/ \E i \in DOMAIN turns : TryAgain(i)
  \/ \E k \in Keys : Ages(k) \/ HandlingEnds(k) \/ Worker(k)
  \/ \E p \in posts : Arrives(p) \/ Accepted(p) \/ NotARow(p) \/ Refused(p) \/ Conflict(p) \/ Lost(p)
  \/ PollReads \/ PollFails \/ GivesUp
  \/ \E s \in saves : SaveEnds(s)

AskSpec == AskInit /\ [][AskNext]_askVars

(* A request is answered or fails in its time; the minute's timer fires. *)
AskFairSpec ==
  /\ AskSpec /\ WF_askVars(Request) /\ WF_askVars(GivesUp)
  /\ \A k \in Keys : WF_askVars(HandlingEnds(k))

-----------------------------------------------------------------------------
Thread == ToSet(turns)

(* Types. *)
AskTypeOK ==
  /\ \A t \in Thread \cup ToSet(saved) :
       /\ t.key \in 1..coined /\ t.question \in 1..coined /\ t.body \subseteq 1..coined
       /\ t.status \in Statuses /\ t.error \in Errors
  /\ home \in 0..homes /\ \A p \in posts : p.by \in 1..homes /\ p.key \in 1..coined
  /\ cache \in [Keys -> {"none", "pending", "failed"}]
  /\ rows \in [Keys -> {"none", "pending", "answered", "failed"}]

(* One question at a time is being waited for and it is the last, the one that is polled: *)
(* through questions, tries again, a Home left and come back to (useAskThread.ts:69).      *)
OneAtATime == \A i \in DOMAIN turns : Busy(turns[i]) => i = Len(turns)

(* A key is never sent with two bodies, which the server would refuse: a question sent     *)
(* again after others were answered carries the history it first had (thread.ts, request). *)
KeyKeepsItsBody == \A p \in posts : p.at # "reused"

(* A question whose 202 came back, even to a Home already left, is not shown as never sent. *)
NeverCalledUnsent == \A t \in Thread : t.error = "not_sent" => t.key \notin heard

(* An answer is put in one note: the thread ends with the note that holds it, whichever    *)
(* Home the save comes back to (AskPanel.tsx, saveAsNote).                                  *)
SavedOnce == \A k \in Keys : kept[k] <= 1

(* A question is asked, and paid for, again only when it is too old, no longer the last,    *)
(* or was answered with an error or with what is no row, which leaves nothing to poll: Try  *)
(* again takes up anything else that was asked already.                                     *)
NotPaidTwice ==
  (coined' > coined)
    => \A t \in Thread :
         (/\ Last(turns').question = t.question /\ t = Last(turns)
          /\ t.key \notin old /\ t.error # "told" /\ (t.error = "lost" => t.row))
           => (rows[t.key] = "none" /\ keyed[t.key].state = "free")

(* What is being waited for is not thrown away while its Home is on the screen. *)
NothingDropped ==
  \A t \in Thread : (Busy(t) /\ home' = home) => \E u \in ToSet(turns') : u.key = t.key

(* A question on the screen stops waiting: an answer, a failure, or a minute. *)
WaitedFor(k) == \E t \in Thread : t.key = k /\ Busy(t)
WaitsAreOver == \A k \in Keys : []<>~WaitedFor(k)

-----------------------------------------------------------------------------
(* A question is asked once, waited for, and its answer kept once: all of the *)
(* above, in every state and every step.                                      *)
AskInv == AskTypeOK /\ OneAtATime /\ KeyKeepsItsBody /\ NeverCalledUnsent /\ SavedOnce
AskStep == NotPaidTwice /\ NothingDropped
AskedOnce == []AskInv /\ [][AskStep]_askVars

-----------------------------------------------------------------------------
(* What the repository says that the code does not keep. *)

(* thread.ts: a turn the client "lost the connection to" is "polled again" on Try again: *)
(* it does not fail again before anything was asked.                                      *)
LostIsPolledAgain == \A t \in Thread : t.status = "failed" => ~t.again

(* useAskThread.ts: after the tries a replay still in flight is "shown as not sent, and  *)
(* Try again sends the same request once more".                                           *)
InFlightIsResent ==
  \A t \in Thread : (t.status = "failed" /\ keyed[t.key].state = "handling") => CanResend(t)
=============================================================================
