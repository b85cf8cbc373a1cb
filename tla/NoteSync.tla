------------------------------ MODULE NoteSync ------------------------------
(***************************************************************************)
(* One note on one device: the editor screens that come and go over it,    *)
(* their debounced one-at-a-time saves, the queue of edits kept while      *)
(* offline and the pass that flushes it, the copy of the note the screens  *)
(* are opened from, and the server, where recordings are filed and another *)
(* device writes.                                                          *)
(*                                                                         *)
(* "ed" and "net" are the page's memory; "dev" is the device's disk and    *)
(* the caches over it; "note" is the server; "truth" is history.           *)
(***************************************************************************)
EXTENDS NoteModel, FiniteSets

CONSTANTS
    Visits,        \* the times the note is opened, in order: 1..n
    MaxAttempts,   \* failed passes after which a queued edit is retired
    WaitLimit,     \* times one save is put off for an append
    MaxMishaps,    \* bound: outages, server errors, lost answers, storage
                   \* refusing and reloads, in all
    MaxNews,       \* bound: appends, edits elsewhere and version moves, in all
    Windows        \* the narrow races let in; see where each is named

ASSUME BoundsAssumption ==
    /\ Visits \subseteq Nat \ {0} /\ MaxAttempts \in Nat \ {0} /\ WaitLimit \in Nat
    /\ MaxMishaps \in Nat /\ MaxNews \in Nat
    /\ Windows \subseteq {"held", "left", "answers", "unread", "recover",
                     "reopened", "overtaken", "retired", "resent"}

VARIABLES note, dev, ed, net, truth, left
vars == <<note, dev, ed, net, truth, left>>

NoEntry == [key |-> 0, patch |-> Patch(0, <<>>), tries |-> 0]
IsDead(entry) == entry.tries >= MaxAttempts
Unread == [read |-> FALSE, entry |-> NoEntry]
Read(entry) == [read |-> TRUE, entry |-> entry]

\* The queue's answer as the editor holds it.
Held(seen) == IF ~seen.read THEN "unread"
              ELSE IF seen.entry = NoEntry THEN "none"
              ELSE IF IsDead(seen.entry) THEN "dead" ELSE "pending"

\* What a run of save() sees through its closure: the queue's entry as last
\* read, and the version of the copy the screen shows.
Sees(seen, base) == [seen |-> seen, base |-> base]
Blind == Sees(Unread, 0)

Grounded == [pc |-> "idle", sent |-> Blank, patch |-> Patch(0, <<>>), sees |-> Blind]

Unopened ==
    [at |-> "out", m |-> InitialEditor(Note(Blank, 0)), timer |-> "none", sees |-> Blind,
     again |-> FALSE, rebased |-> FALSE, waits |-> 0, asking |-> FALSE, fly |-> Grounded]

NoFlush == [pc |-> "idle", entry |-> NoEntry]

Init ==
    /\ note = [ver |-> 1, draft |-> Blank, busy |-> FALSE, done |-> {}]
    /\ dev = [q |-> NoEntry, seen |-> Unread, cache |-> Note(Blank, 1), keys |-> 0]
    /\ ed = [i \in Visits |-> Unopened]
    /\ net = [online |-> TRUE, flush |-> NoFlush]
    /\ truth = [typed |-> {}, landed |-> {}, given |-> {}]
    /\ left = [mishaps |-> MaxMishaps, news |-> MaxNews]

Mishap == left.mishaps > 0 /\ left' = [left EXCEPT !.mishaps = @ - 1]
News == left.news > 0 /\ left' = [left EXCEPT !.news = @ - 1]

(***************************************************************************)
(* The server                                                              *)
(***************************************************************************)

\* A body is refused while an append holds the note, then an old version is.
Answer(patch) ==
    IF "body" \in DOMAIN patch.set /\ note.busy THEN "busy"
    ELSE IF patch.ver # note.ver THEN "refused" ELSE "stored"

Write(draft) ==
    /\ note' = [note EXCEPT !.ver = @ + 1, !.draft = draft]
    /\ truth' = [truth EXCEPT !.landed = @ \cup WordsOf(draft)]

\* UpdateNote.
Update(patch) == Write(Upon(patch.set, note.draft))

\* A recording's append: the stamp goes on, then the paragraph lands and the
\* row is refreshed, which lifts it.
StampNote ==
    /\ ~note.busy /\ Paragraph \notin truth.landed /\ News
    /\ note' = [note EXCEPT !.busy = TRUE]
    /\ UNCHANGED <<dev, ed, net, truth>>

FileParagraph ==
    /\ note.busy
    /\ note' = [note EXCEPT !.ver = @ + 1, !.draft["body"] = @ \cup {Paragraph}, !.busy = FALSE]
    /\ truth' = [truth EXCEPT !.landed = @ \cup {Paragraph}]
    /\ UNCHANGED <<dev, ed, net, left>>

EditElsewhere ==
    /\ Elsewhere \notin truth.landed /\ ~note.busy /\ News
    /\ Write([note.draft EXCEPT !["body"] = @ \cup {Elsewhere}])
    /\ UNCHANGED <<dev, ed, net>>

\* A clean request, or the worker's cleaned view.
CleanBump ==
    /\ News
    /\ note' = [note EXCEPT !.ver = @ + 1]
    /\ UNCHANGED <<dev, ed, net, truth>>

(***************************************************************************)
(* The connection, the page                                                *)
(***************************************************************************)

GoOffline ==
    /\ net.online /\ Mishap
    /\ net' = [net EXCEPT !.online = FALSE]
    /\ UNCHANGED <<note, dev, ed, truth>>

GoOnline ==
    /\ ~net.online
    /\ net' = [net EXCEPT !.online = TRUE]
    /\ UNCHANGED <<note, dev, ed, truth, left>>

Open(i) == ed[i].at = "open"
Nobody == \A i \in Visits : ~Open(i)

\* A screen whose save outlived it: on the wire, or put off for an append.
Lingers(i) == ed[i].at = "gone" /\ (ed[i].fly.pc # "idle" \/ ed[i].timer = "wait")

\* The screen opens over the copy the device holds.  "reopened": before a left
\* screen's save has come back, so over the copy from before that edit.
Visit(i) ==
    /\ "reopened" \in Windows \/ \A j \in Visits : ~Lingers(j)
    /\ ed[i].at = "out" /\ Nobody /\ \A j \in Visits : j < i => ed[j].at # "out"
    /\ ed' = [ed EXCEPT ![i] = [Unopened EXCEPT !.at = "open", !.m = InitialEditor(dev.cache)]]
    /\ UNCHANGED <<note, dev, net, truth, left>>

\* beforeunload warns of the open screen's unsaved work, so a person who goes
\* on has given it up; a save that outlived its screen goes unwarned.
Reload ==
    /\ Mishap
    /\ truth' = [truth EXCEPT !.given = @ \cup
                    UNION {WordsOf(ed[i].m.draft) :
                              i \in {j \in Visits : Open(j) /\ HasUnsavedWork(ed[j].m)}}]
    /\ ed' = [i \in Visits |->
                 IF ed[i].at = "out" THEN ed[i]
                 ELSE [Unopened EXCEPT !.at = "gone",
                          !.m.draft = IF Open(i) THEN Blank ELSE ed[i].m.draft]]
    /\ dev' = [dev EXCEPT !.seen = Unread]
    /\ net' = [net EXCEPT !.flush = NoFlush]
    /\ UNCHANGED note

(***************************************************************************)
(* The editor's save: at most one on the wire                              *)
(***************************************************************************)

\* The last render's; a screen that has gone has had its last.
Rendered == Sees(dev.seen, dev.cache.ver)
Closure(e) == IF e.at = "gone" THEN e.sees ELSE Rendered

\* performSave up to the request.
Begin(e, sees) ==
    IF e.m.state \notin {"dirty", "error"} THEN e
    ELSE LET mine == PatchFor(e.m)
         IN  [e EXCEPT !.m = SaveStart(@),
                       !.fly = [pc |-> "sent", sent |-> e.m.draft, sees |-> sees,
                                patch |-> IF Held(sees.seen) = "pending"
                                          THEN Over(sees.seen.entry.patch, mine) ELSE mine]]

\* save: one already running is asked to run once more.
Save(e, sees) == IF e.fly.pc = "idle" THEN Begin(e, sees) ELSE [e EXCEPT !.again = TRUE]

\* The save is over; one asked for meanwhile starts from what is there now.
Settled(e, sees) ==
    LET done == [e EXCEPT !.fly = Grounded, !.again = FALSE]
    IN  IF e.again THEN Begin(done, sees) ELSE done

\* It may run before the screen has rendered, so with a closure that still
\* reads the queued edit just forgotten or replaced.
Reads(e, d) == IF e.at = "gone" THEN {e.sees} ELSE {Rendered, Sees(d.seen, d.cache.ver)}

\* "held": a queued edit, waiting or retired, that the draft being saved does
\* not show: a copy fetched while it waited, a conflict settled over it, a re-run
\* that still reads it.  Its older words go out at the newer version, or are
\* forgotten with it.  "retired": a retired edit's fields, shown as saved and
\* so left out of the save that forgets it.  "unread": nothing was read, and
\* whatever is there goes.
Fits(f) ==
    LET q == f.sees.seen.entry.patch.set
    IN  f.pc = "sent" =>
          /\ "held" \notin Windows => \A g \in DOMAIN q :
                q[g] \subseteq f.sent[g] /\ Upon(f.patch.set, q)[g] = f.sent[g]
          /\ "retired" \notin Windows => DOMAIN q \subseteq DOMAIN f.patch.set
          /\ "unread" \notin Windows => (f.sees.seen.read \/ dev.q = NoEntry)

\* A screen that has gone, its saves over, is never read again.  What it could
\* not save is left behind.
Rested(e) ==
    IF e.at # "gone" \/ e.fly.pc # "idle" \/ e.timer = "wait" THEN e
    ELSE [Unopened EXCEPT !.at = "gone",
                          !.m.draft = IF e.m.state \in {"error", "conflict"} THEN e.m.draft
                                      ELSE Blank]

Set(i, e) == Fits(e.fly) /\ ed' = [ed EXCEPT ![i] = Rested(e)]

\* "recover": a word typed, or Try again, while a refused edit is read back, and
\* a refused edit read back over a screen whose own newer words failed to save:
\* the older words replace the newer.
Unhurried(i) == "recover" \in Windows \/ ~ed[i].asking

\* A word is typed: the mirror moves at once, the debounce starts over.
Type(i, f) ==
    LET w == Cardinality(truth.typed) + 1
    IN  /\ Open(i) /\ w \in Own /\ Unhurried(i)
        /\ Set(i, [ed[i] EXCEPT !.m = ApplyEdit(@, f, @.draft[f] \cup {w}),
                                !.timer = "debounce", !.sees = Rendered])
        /\ truth' = [truth EXCEPT !.typed = @ \cup {w}]
        /\ UNCHANGED <<note, dev, net, left>>

\* The debounce fires.  Its handle is never cleared: "spent".
Debounce(i) ==
    LET e == [ed[i] EXCEPT !.timer = "spent", !.sees = Blind]
    IN  /\ ed[i].timer = "debounce" /\ Open(i)
        /\ Set(i, Save(e, ed[i].sees))
        /\ UNCHANGED <<note, dev, net, truth, left>>

\* The wait for an append is over, on the screen or after it.
WaitOver(i) ==
    LET e == [ed[i] EXCEPT !.timer = "none"]
    IN  /\ ed[i].timer = "wait"
        /\ Set(i, Save(e, Closure(e)))
        /\ UNCHANGED <<note, dev, net, truth, left>>

\* saveNow: a blur, Try again, and a hidden page with a debounce armed.
SaveNow(i) ==
    LET e == [ed[i] EXCEPT !.timer = "none", !.sees = Blind]
    IN  /\ Open(i) /\ (ed[i].timer # "none" \/ ed[i].m.state = "error")
        /\ Unhurried(i)
        /\ Set(i, Save(e, Rendered))
        /\ UNCHANGED <<note, dev, net, truth, left>>

\* Mutant: a retired edit is put to the person without its fields.
HeldOverMutant(draft) == draft

\* The queued fields over a draft.
HeldOver(draft) == Upon(dev.q.patch.set, draft)

\* "resent": a retired edit is sent again from the screen, its entry forgotten
\* first, while the caches show its words.  Left before the answer, or after a
\* failed one, the screen takes them along, and the note reopened reads as saved.
Resends(i) ==
    \E g \in Fields :
        (dev.cache.draft[g] \cap ed[i].m.draft[g])
            \ (ed[i].m.server[g] \cup HeldOver(Blank)[g]) # {}

\* The screen goes: an armed debounce is flushed.
Leave(i) ==
    LET gone == [ed[i] EXCEPT !.at = "gone", !.sees = Rendered, !.asking = FALSE]
        e == IF gone.timer = "none" THEN gone
             ELSE Save([gone EXCEPT !.timer = "none"], gone.sees)
    IN  /\ Open(i) /\ ("resent" \in Windows \/ ~Resends(i))
        /\ Set(i, e)
        /\ UNCHANGED <<note, dev, net, truth, left>>

(***************************************************************************)
(* The PATCH and its answer                                                *)
(***************************************************************************)

Answered(i, what) == Set(i, [ed[i] EXCEPT !.fly.pc = what])

Arrive(i) ==
    LET f == ed[i].fly
        a == Answer(f.patch)
    IN  /\ f.pc = "sent" /\ net.online
        /\ Answered(i, a)
        /\ IF a = "stored" THEN Update(f.patch) ELSE UNCHANGED <<note, truth>>
        /\ UNCHANGED <<dev, net, left>>

\* The request never arrives.
Unreachable(i) ==
    /\ ed[i].fly.pc = "sent" /\ ~net.online
    /\ Answered(i, "offline")
    /\ UNCHANGED <<note, dev, net, truth, left>>

\* A server error; and, as "answers", a write whose answer is lost.
Disturbed(i) ==
    LET f == ed[i].fly
    IN  /\ f.pc = "sent" /\ net.online /\ Mishap
        /\ \/ Answered(i, "failed") /\ UNCHANGED <<note, truth>>
           \/ "answers" \in Windows /\ Answer(f.patch) = "stored"
              /\ Answered(i, "offline") /\ Update(f.patch)
        /\ UNCHANGED <<dev, net>>

\* A note newly in the cache, on the open screen: adopted with nothing to lose,
\* carried over when the words are the ones last saved, else left alone.
ResetAllowed(e) ==
    e.m.state \in {"clean", "saved"} /\ e.fly.pc = "idle" /\ e.timer = "none"

\* Mutant: a newer note is adopted whatever is on the screen.
OnNoteMutant(e, n) ==
    IF e.at # "open" \/ n.ver <= e.m.ver THEN e
    ELSE [e EXCEPT !.m = InitialEditor(n), !.asking = FALSE]

OnNote(e, n) ==
    IF e.at # "open" THEN e
    ELSE LET c == [e EXCEPT !.asking = FALSE]
         IN  IF n.ver <= e.m.ver THEN c
             ELSE IF ResetAllowed(e) THEN [c EXCEPT !.m = InitialEditor(n)]
             ELSE IF e.fly.pc = "idle" /\ SameText(n.draft, e.m.saved)
             THEN [c EXCEPT !.m = Rebase(@, n.ver)]
             ELSE c

\* recordSavedNote: the caches read as the note was sent, and every screen
\* reads the caches.
Record(i, e, n) ==
    /\ Fits(e.fly)
    /\ ed' = [j \in Visits |-> IF j = i THEN Rested(e) ELSE OnNote(ed[j], n)]

\* forgetQueued: only the entry under the key the save read, and when it had
\* read nothing, whatever is there.  A newer entry is read back.
Forget(held) ==
    LET gone == ~held.read \/ dev.q.key \in {0, held.entry.key}
    IN  IF gone THEN [dev EXCEPT !.q = NoEntry, !.seen = Read(NoEntry)]
        ELSE [dev EXCEPT !.seen = Read(dev.q)]

\* The queue is forgotten, the caches written, the model told.
Stored(i) ==
    LET e == ed[i]
        n == Note(e.fly.sent, e.fly.patch.ver + 1)
        m == SaveSuccess(e.m, e.fly.sent, n.ver)
        d == IF e.fly.sees.seen = Read(NoEntry) THEN dev ELSE Forget(e.fly.sees.seen)
    IN  /\ e.fly.pc = "stored"
        /\ \E sees \in Reads(e, d) :
              Record(i, Settled([e EXCEPT !.m = m, !.rebased = FALSE, !.waits = 0], sees), n)
        /\ dev' = [d EXCEPT !.cache = n]
        /\ UNCHANGED <<note, net, truth, left>>

\* enqueueReplacing: one entry per note, over what it holds, under a new key.
Enqueued(patch) == [key |-> dev.keys + 1, patch |-> Over(dev.q.patch, patch), tries |-> 0]

\* "overtaken": the screen's copy has moved past the draft being queued, so the
\* caches show the old words at the new version, and what is typed over them
\* overwrites the server's newer ones unasked, or leaves the queued ones out.
\* With the window closed no word counts after that.
Overtaken(f) ==
    IF "overtaken" \notin Windows /\ f.sees.base > f.patch.ver THEN Words ELSE {}

\* Offline is a write made somewhere else: queue, caches at the version of the
\* screen's copy, the editor's read of the queue.
Queue(i) ==
    LET e == ed[i]
        entry == Enqueued(e.fly.patch)
        n == Note(e.fly.sent, e.fly.sees.base)
        d == [q |-> entry, seen |-> Read(entry), cache |-> n, keys |-> entry.key]
    IN  /\ e.fly.pc = "offline"
        /\ dev' = d
        /\ \E sees \in Reads(e, d) :
              Record(i, Settled([e EXCEPT !.m = SaveQueued(@, e.fly.sent)], sees), n)
        /\ truth' = [truth EXCEPT !.given = @ \cup Overtaken(e.fly)]
        /\ UNCHANGED <<note, net, left>>

\* Storage refuses, or the server failed: the edit is only on this screen.
Failed(i) ==
    LET e == ed[i]
    IN  /\ \/ e.fly.pc = "failed" /\ UNCHANGED left
           \/ e.fly.pc = "offline" /\ Mishap
        /\ Set(i, Settled([e EXCEPT !.m = SaveError(@)], Closure(e)))
        /\ UNCHANGED <<note, dev, net, truth>>

\* An append is in progress: the save is put off, so many times.
Deferred(i) ==
    LET e == ed[i]
        f == IF e.waits >= WaitLimit
             THEN [e EXCEPT !.m = SaveError(@), !.waits = 0]
             ELSE [e EXCEPT !.m = SaveDeferred(@), !.waits = @ + 1, !.timer = "wait"]
    IN  /\ e.fly.pc = "busy"
        /\ Set(i, Settled(f, Closure(e)))
        /\ UNCHANGED <<note, dev, net, truth, left>>

\* The server's words are still those last saved: only the version moved.
CarriesOver(e) ==
    /\ note.ver > e.m.ver /\ ~e.rebased
    /\ SameText(note.draft, e.m.saved)

\* A lost version check: the server's copy is fetched (the fetch and what is
\* done with it are one step: what moves in between moves after it), and the
\* draft carried over it once, or both copies shown.
Refused(i) ==
    LET e == ed[i]
        shown == [e EXCEPT !.m = Conflict(@, @.draft, note), !.waits = 0]
        carried == [e EXCEPT !.m = Rebase(@, note.ver), !.rebased = TRUE, !.again = TRUE,
                             !.waits = 0]
    IN  /\ e.fly.pc = "refused"
        /\ \/ net.online
              /\ Set(i, Settled(IF CarriesOver(e) THEN carried ELSE shown, Closure(e)))
           \/ ~net.online /\ Set(i, Settled([e EXCEPT !.m = SaveError(@), !.waits = 0], Closure(e)))
        /\ UNCHANGED <<note, dev, net, truth, left>>

(***************************************************************************)
(* The choices                                                             *)
(***************************************************************************)

\* What one draft says and the other does not.
Missing(a, b) == UNION {a[g] \ b[g] : g \in Fields}

Gives(words) == truth' = [truth EXCEPT !.given = @ \cup words]

Forgotten == [dev EXCEPT !.q = NoEntry, !.seen = Read(NoEntry)]

TakeTheirsTap(i) ==
    LET m == ed[i].m
    IN  /\ Open(i) /\ m.state = "conflict"
        /\ Set(i, [ed[i] EXCEPT !.m = TakeTheirs(@)])
        /\ dev' = Forgotten
        /\ Gives(Missing(m.draft, m.theirs.draft))
        /\ UNCHANGED <<note, net, left>>

\* Keep my edits, or keep them and add the paragraph; then saveNow.
KeepTap(i) ==
    LET m == ed[i].m
        kept(k) == Save([ed[i] EXCEPT !.m = k, !.timer = "none"], Rendered)
    IN  /\ Open(i) /\ m.state = "conflict"
        /\ \/ Set(i, kept(KeepMine(m))) /\ Gives(Missing(m.theirs.draft, m.draft))
           \/ m.theirs.adds /\ Set(i, kept(KeepBoth(m)))
              /\ Gives(Missing(m.theirs.draft, KeepBoth(m).draft))
        /\ UNCHANGED <<note, dev, net, left>>

(***************************************************************************)
(* A queued edit the server refused                                        *)
(***************************************************************************)

MayAsk(i) ==
    /\ Open(i) /\ net.online /\ Held(dev.seen) = "dead" /\ ~ed[i].asking
    /\ ed[i].m.state \in {"clean", "saved", "queued", "error"} /\ ed[i].fly.pc = "idle"
    /\ "recover" \in Windows \/ ed[i].m.state # "error"

AskBack(i) ==
    /\ MayAsk(i)
    /\ Set(i, [ed[i] EXCEPT !.asking = TRUE])
    /\ UNCHANGED <<note, dev, net, truth, left>>

\* The queued fields are my side.  A note that has moved on is a conflict; one
\* that has not is sent the edit again.
AnswerBack(i) ==
    LET e == [ed[i] EXCEPT !.asking = FALSE]
        m == Conflict(e.m, HeldOver(e.m.draft), note)
    IN  /\ ed[i].asking /\ net.online
        /\ IF dev.q = NoEntry THEN Set(i, e) /\ UNCHANGED dev
           ELSE IF note.ver <= dev.q.patch.ver
           THEN Set(i, Save([e EXCEPT !.m = KeepMine(m)], Rendered)) /\ dev' = Forgotten
           ELSE Set(i, [e EXCEPT !.m = m]) /\ UNCHANGED dev
        /\ UNCHANGED <<note, net, truth, left>>

(***************************************************************************)
(* Reads: the queue's entry, the note                                      *)
(***************************************************************************)

ReadQueue ==
    /\ dev.seen # Read(dev.q)
    /\ dev' = [dev EXCEPT !.seen = Read(dev.q)]
    /\ UNCHANGED <<note, ed, net, truth, left>>

\* A fetch and its arrival are one step: an answer from before a save that
\* lands after it is not modelled.
Fetch ==
    LET n == Note(note.draft, note.ver)
    IN  /\ net.online /\ note.ver # dev.cache.ver
        /\ dev' = [dev EXCEPT !.cache = n]
        /\ ed' = [j \in Visits |-> OnNote(ed[j], n)]
        /\ UNCHANGED <<note, net, truth, left>>

(***************************************************************************)
(* The flush: one pass at a time, over the entry as it was read            *)
(***************************************************************************)

Flushing(what) == net' = [net EXCEPT !.flush.pc = what]

FlushStart ==
    /\ net.online /\ net.flush.pc = "idle" /\ dev.q # NoEntry /\ ~IsDead(dev.q)
    /\ net' = [net EXCEPT !.flush = [pc |-> "sent", entry |-> dev.q]]
    /\ UNCHANGED <<note, dev, ed, truth, left>>

\* runMutation: under the key it was queued with, so a replay of one that was
\* stored is answered as stored.
FlushArrive ==
    LET entry == net.flush.entry
        a == IF entry.key \in note.done THEN "stored" ELSE Answer(entry.patch)
        stores == a = "stored" /\ entry.key \notin note.done
    IN  /\ net.flush.pc = "sent"
        /\ \/ net.online /\ Flushing(a) /\ UNCHANGED left
           \/ Mishap /\ Flushing("offline")
        /\ IF stores
           THEN /\ note' = [note EXCEPT !.ver = @ + 1, !.draft = Upon(entry.patch.set, @),
                                        !.done = @ \cup {entry.key}]
                /\ truth' = [truth EXCEPT !.landed = @ \cup WordsOf(Upon(entry.patch.set, note.draft))]
           ELSE UNCHANGED <<note, truth>>
        /\ UNCHANGED <<dev, ed>>

FlushDisturbed ==
    /\ net.flush.pc = "sent"
    /\ \/ ~net.online /\ Flushing("offline") /\ UNCHANGED left
       \/ net.online /\ Mishap /\ Flushing("failed")
    /\ UNCHANGED <<note, dev, ed, truth>>

\* Mutant: the entry is settled by its note, not by its key.
SettleMutant(entry) == entry

\* settle: only while the stored entry is still the one that was sent.
Settle(entry) == IF dev.q.key = net.flush.entry.key THEN entry ELSE dev.q

Outcome ==
    LET sent == net.flush.entry
    IN  CASE net.flush.pc = "stored" -> NoEntry
          [] net.flush.pc = "refused" -> [sent EXCEPT !.tries = MaxAttempts]
          [] net.flush.pc = "failed" -> [sent EXCEPT !.tries = @ + 1]
          [] OTHER -> dev.q

FlushSettle ==
    /\ net.flush.pc \notin {"idle", "sent"}
    /\ dev' = [dev EXCEPT !.q = Settle(Outcome)]
    /\ net' = [net EXCEPT !.flush = NoFlush]
    /\ UNCHANGED <<note, ed, truth, left>>

(***************************************************************************)
(* The whole                                                               *)
(***************************************************************************)

Next ==
    \/ StampNote \/ FileParagraph \/ EditElsewhere \/ CleanBump
    \/ GoOffline \/ GoOnline \/ Reload
    \/ \E i \in Visits :
          \/ Visit(i) \/ Leave(i) \/ Debounce(i) \/ WaitOver(i) \/ SaveNow(i)
          \/ \E f \in Fields : Type(i, f)
          \/ Arrive(i) \/ Unreachable(i) \/ Disturbed(i)
          \/ Stored(i) \/ Queue(i) \/ Failed(i) \/ Deferred(i) \/ Refused(i)
          \/ TakeTheirsTap(i) \/ KeepTap(i) \/ AskBack(i) \/ AnswerBack(i)
    \/ ReadQueue \/ Fetch
    \/ FlushStart \/ FlushArrive \/ FlushDisturbed \/ FlushSettle

Spec == Init /\ [][Next]_vars

\* The worker ends its append; the page runs its timers, effects and answers;
\* the network answers one way or the other; the flush is asked for again.
FairSpec ==
    /\ Spec
    /\ WF_vars(FileParagraph) /\ WF_vars(ReadQueue)
    /\ WF_vars(FlushStart) /\ WF_vars(FlushArrive \/ FlushDisturbed) /\ WF_vars(FlushSettle)
    /\ \A i \in Visits :
          /\ WF_vars(Debounce(i)) /\ WF_vars(WaitOver(i))
          /\ WF_vars(Arrive(i) \/ Unreachable(i))
          /\ WF_vars(Stored(i) \/ Queue(i) \/ Failed(i) \/ Deferred(i) \/ Refused(i))
          /\ WF_vars(AskBack(i)) /\ WF_vars(AnswerBack(i))

(***************************************************************************)
(* Properties                                                              *)
(***************************************************************************)

Entries == [key : Nat, patch : [ver : Nat, set : UNION {[F -> SUBSET Words] : F \in SUBSET Fields}],
            tries : 0..MaxAttempts]

\* The type of the state.
TypeOK ==
    /\ note.ver \in Nat /\ note.draft \in Drafts /\ note.busy \in BOOLEAN
    /\ dev.q \in Entries /\ dev.seen.entry \in Entries /\ dev.cache.draft \in Drafts
    /\ \A i \in Visits :
          /\ ed[i].at \in {"out", "open", "gone"}
          /\ ed[i].m.draft \in Drafts /\ ed[i].m.state \in SaveStates
          /\ ed[i].timer \in {"none", "debounce", "wait", "spent"}
          /\ ed[i].fly.pc \in {"idle", "sent", "stored", "refused", "busy", "failed", "offline"}
    /\ net.flush.pc \in {"idle", "sent", "stored", "refused", "busy", "failed", "offline"}

\* Where a typed word can be found again.
Somewhere ==
    WordsOf(note.draft) \cup WordsOf(dev.q.patch.set) \cup
    UNION {WordsOf(ed[i].m.draft) : i \in {j \in Visits : Open(j) \/ Lingers(j)}}

\* Words a screen took with it when it was left: its last save was refused or
\* failed with nobody there to be told.
LeftBehind == UNION {WordsOf(ed[i].m.draft) : i \in {j \in Visits : ed[j].at = "gone"}}

\* A typed word is on the server, in the queue, or on a screen that still
\* means to send it, until the person gives it up knowing so.  "left": unless
\* its screen was left before its save came back.
WordsKept ==
    truth.typed \ truth.given \subseteq
        Somewhere \cup (IF "left" \in Windows THEN {} ELSE LeftBehind)

\* Nothing that reached the server, typed here, filed by the worker or written
\* elsewhere, is erased by anyone who was not shown it.
NothingClobbered == truth.landed \ truth.given \subseteq WordsOf(note.draft)

\* A screen that says Saved, waiting to sync, or nothing, may be closed: every
\* word on it that was typed here is on the server or in the queue.
SavedMeansStored ==
    \A i \in Visits :
        Open(i) /\ ReconcileQueued(ed[i].m, Held(dev.seen)) \in {"clean", "saved", "queued"} =>
            (WordsOf(ed[i].m.draft) \cap truth.typed) \ truth.given
                \subseteq WordsOf(note.draft) \cup WordsOf(dev.q.patch.set)

\* A screen that will say so before its words are lost.
Unsaved(i) == Open(i) /\ HasUnsavedWork(ed[i].m)

\* "The queue keeps such entries rather than deleting them, which is what lets
\* a screen say 'this edit did not go through, and here is why' instead of an
\* edit quietly ceasing to exist": a retired edit leaves the queue when its
\* words are on the server, unsaved on the screen, or given up.
RetiredIsKept ==
    [][IsDead(dev.q) /\ dev'.q = NoEntry =>
          (WordsOf(dev.q.patch.set) \cap truth.typed) \ truth'.given \subseteq
              WordsOf(note'.draft) \cup UNION {WordsOf(ed[i].m.draft)' : i \in {j \in Visits : Unsaved(j)'}}]_vars

\* A save is answered, on the screen or after it.
SaveDone(i) == ed[i].fly.pc = "idle"
SaveSettles == \A i \in Visits : []<>SaveDone(i)

\* With a connection, a queued edit stops waiting: it is on the server, or it
\* is retired and says so.
Drained == dev.q = NoEntry \/ IsDead(dev.q)
QueueDrains == <>[]net.online => []<>Drained

\* A retired edit is put to the person at the open note.
PutToPerson(i) ==
    Open(i) /\ dev.q # NoEntry /\ IsDead(dev.q) => ed[i].m.state # "clean"
DeadIsAsked == \A i \in Visits : <>[]net.online => []<>PutToPerson(i)
=============================================================================
