------------------------------ MODULE NoteAppend ------------------------------
(***************************************************************************)
(* A voice append and an editor save on the same note.                     *)
(*                                                                         *)
(* A note is two things written one after the other: its body in S3, under *)
(* an ETag, and its index row in DynamoDB, under a version.  Worker        *)
(* deliveries (Lambda invocations, at least once each, any of which may    *)
(* die at any step) append a capture's paragraph to the body; editors save *)
(* whole drafts over it.  Every remote call of either side is one action.  *)
(*                                                                         *)
(* The body is abstracted to what the protocol tells apart: which captures *)
(* have their marker in it, whose words stand verbatim under their marker, *)
(* whose words stand in the user's own text, and which edits it contains.  *)
(* S3's ETag is a digest of the content, so the content itself plays it.   *)
(* Time is the order in which leases and stamps pass their bounds.         *)
(***************************************************************************)
EXTENDS Naturals, FiniteSets

CONSTANTS
    Captures,         \* recordings filed into the one note of this model
    Deliveries,       \* worker invocations, retries and duplicates included
    Editors,          \* devices with the note open
    None,             \* no capture
    MaxSaves,         \* save requests of one device, repeats after a death too
    MaxTaps,          \* Clean taps
    MayArchive,       \* whether the note may be put in the trash
    LeaseRunsOut,     \* whether the twenty minutes of AppendClaimLease pass
    PatienceRunsOut,  \* whether a waiter gives up AppendStampWait after its start
    BlindFaults       \* whether a body PUT may land and still report an error

ASSUME NoneAssumption == None \notin Captures
ASSUME BoundsAssumption == MaxSaves \in Nat /\ MaxTaps \in Nat
ASSUME FlagsAssumption ==
    {MayArchive, LeaseRunsOut, PatienceRunsOut, BlindFaults} \subseteq BOOLEAN

VARIABLES
    cver, status, claim, appended,                   \* the capture rows
    version, stamp, stampAge, indexed, active, tap,  \* the note row
    body,                                            \* the S3 object
    pc, cap, resumed, mem,                           \* deliveries
    epc, ed,                                         \* editors
    acked, removed                                   \* history

captureVars  == <<cver, status, claim, appended>>
noteVars     == <<version, stamp, stampAge, indexed, active, tap>>
deliveryVars == <<pc, cap, resumed, mem>>
editorVars   == <<epc, ed>>
history      == <<acked, removed>>
vars == <<captureVars, noteVars, body, deliveryVars, editorVars, history>>

EditIds == Editors \X (1 .. MaxSaves)

Body == [marked : SUBSET Captures, under : SUBSET Captures,
         typed : SUBSET Captures, edits : SUBSET EditIds]
\* What a client sees of a body: the markers are stripped.
Text == [verb : SUBSET Captures, typed : SUBSET Captures, edits : SUBSET EditIds]
\* What one read of the note row keeps.
NoteCopy == [ver : Nat, stamp : Captures \cup {None}, tap : Nat,
             indexed : SUBSET Captures, active : BOOLEAN]

EmptyBody == [marked |-> {}, under |-> {}, typed |-> {}, edits |-> {}]
StripCaptureMarkers(b) == [verb |-> b.under, typed |-> b.typed, edits |-> b.edits]
NoText == StripCaptureMarkers(EmptyBody)
NoCopy == [ver |-> 0, stamp |-> None, tap |-> 0, indexed |-> {}, active |-> TRUE]

\* What a delivery keeps from its reads, and what an editor and the save it has
\* in flight keep.
Memory == [rowVer : Nat, copy : NoteCopy, read : Body, again : BOOLEAN,
           archived : BOOLEAN, waited : BOOLEAN]
NoMemory == [rowVer |-> 0, copy |-> NoCopy, read |-> EmptyBody, again |-> FALSE,
             archived |-> FALSE, waited |-> FALSE]
Editing == [saving : {"body", "meta"}, ver : Nat, text : Text, draft : Text,
            stored : Body, row : NoteCopy, saves : 0 .. MaxSaves]
NotEditing == [saving |-> "body", ver |-> 0, text |-> NoText, draft |-> NoText,
               stored |-> EmptyBody, row |-> NoCopy, saves |-> 0]

Words(b)     == b.under \cup b.typed
TextWords(t) == t.verb \cup t.typed

\* The pcs at which a delivery has the claim, and at which it has the stamp too.
Finishing == {"refRow", "refBody", "refPut", "complete"}
Stamped == {"bodyRead", "bodyPut"} \cup Finishing
Holding == {"stampRead", "stampPut", "unstamp", "unclaim"} \cup Stamped

Holds(d, c)   == cap[d] = c /\ ~resumed[d] /\ pc[d] \in Holding
Writing(d, c) == cap[d] = c /\ ~resumed[d] /\ pc[d] \in Stamped

DeliveryPC == Holding \cup {"idle", "done", "setStatus", "claimRead", "claimPut",
                            "check", "clear", "markFailed"}
InFlight == {"etag", "row", "put", "putRow", "reread", "reput"}
EditorPC == InFlight \cup {"away", "loadBody", "editing", "closed"}

-----------------------------------------------------------------------------
(* Moving a delivery or an editor along.                                   *)

Goto(d, p) == pc' = [pc EXCEPT ![d] = p]
Recall     == UNCHANGED <<cap, resumed, mem>>

\* The invocation is over, whatever its result: its memory goes with it.
End(d) ==
    /\ Goto(d, "done")
    /\ cap' = [cap EXCEPT ![d] = None]
    /\ resumed' = [resumed EXCEPT ![d] = FALSE]
    /\ mem' = [mem EXCEPT ![d] = NoMemory]

EGoto(e, p) == epc' = [epc EXCEPT ![e] = p]

\* The save was refused as a conflict: the client fetches the server's copy.
Reload(e) ==
    /\ EGoto(e, "away")
    /\ ed' = [ed EXCEPT ![e] = [NotEditing EXCEPT !.saves = ed[e].saves]]

NoteRow == [ver |-> version, stamp |-> stamp, tap |-> tap, indexed |-> indexed,
            active |-> active]

-----------------------------------------------------------------------------
(* Mutants: the definition each is named after, as a plausible bug would    *)
(* have it.  No definition uses one; each property has one that breaks it.  *)

AppendInProgressMutant == stamp # None
PutNoteHoldsMutantVersion(n) == tap = n.tap /\ (n.stamp # None => stamp = n.stamp)
PutNoteHoldsMutantTap(n) == version = n.ver /\ (n.stamp # None => stamp = n.stamp)
ClaimableMutant(c) == ~appended[c]
AnotherAppendInFlightMutant(c) == FALSE
AnotherAppendInFlightMutantAge(c) == stamp \notin {None, c}
ClearNoteAppendMutantAny(c) ==
    stamp' = None /\ stampAge' = 0 /\ UNCHANGED <<version, indexed, active, tap>>
CarryCaptureMarkersMutant(b, t) ==
    IF StripCaptureMarkers(b).verb = t.verb THEN b
    ELSE [marked |-> b.marked, under |-> b.under \cap t.verb,
          typed |-> t.typed \cup (t.verb \ b.under), edits |-> t.edits]

-----------------------------------------------------------------------------
(* The conditional writes, and the carry of the markers.                   *)

AppendInProgress == stamp # None /\ stampAge < 2

\* The condition of a whole-row write: the version, the clean stamp, and the
\* append stamp when the copy carries one.
PutNoteHolds(n) ==
    /\ version = n.ver
    /\ tap = n.tap
    /\ n.stamp # None => stamp = n.stamp

PutNote(n) ==
    /\ PutNoteHolds(n)
    /\ version' = version + 1
    /\ stamp' = n.stamp
    /\ stampAge' = IF n.stamp = None THEN 0 ELSE stampAge
    /\ indexed' = n.indexed
    /\ tap' = n.tap
    /\ active' = n.active

\* A capture row written under the version the writer read.
PutCapture(c, seen, newStatus, newClaim) ==
    /\ cver[c] = seen
    /\ cver' = [cver EXCEPT ![c] = @ + 1]
    /\ status' = [status EXCEPT ![c] = newStatus]
    /\ claim' = [claim EXCEPT ![c] = newClaim]
    /\ UNCHANGED appended

\* The draft with the stored markers put back: beside a paragraph that stands
\* word for word, at the end of the body for any other.
CarryCaptureMarkers(b, t) ==
    IF StripCaptureMarkers(b) = t THEN b
    ELSE [marked |-> b.marked,
          under  |-> b.under \cap t.verb,
          typed  |-> t.typed \cup (t.verb \ b.under),
          edits  |-> t.edits]

-----------------------------------------------------------------------------
(* The delivery: up to the claim.                                          *)

StartDelivery(d, c) ==
    /\ pc[d] = "idle"
    /\ cap' = [cap EXCEPT ![d] = c]
    /\ mem' = [mem EXCEPT ![d].rowVer = cver[c]]
    /\ \/ status[c] = "appended" /\ Goto(d, "clear")
       \/ status[c] \in {"cleaned", "appending"} /\ active /\ Goto(d, "setStatus")
       \/ status[c] \in {"cleaned", "appending"} /\ ~active /\ Goto(d, "markFailed")
    /\ UNCHANGED <<captureVars, noteVars, body, resumed, editorVars, history>>

SetStatus(d) ==
    /\ pc[d] = "setStatus"
    /\ \/ /\ PutCapture(cap[d], mem[d].rowVer, "appending", claim[cap[d]])
          /\ Goto(d, "claimRead")
          /\ Recall
       \/ /\ cver[cap[d]] # mem[d].rowVer    \* concede: another delivery owns it
          /\ End(d)
          /\ UNCHANGED captureVars
    /\ UNCHANGED <<noteVars, body, editorVars, history>>

Claimable(c) == claim[c] = "none" \/ (claim[c] = "stale" /\ ~appended[c])

\* The claim was not taken; current is the row as it now stands.
ClaimRefused(d) ==
    LET c == cap[d] IN
    \/ /\ appended[c]                        \* an earlier attempt finished it
       /\ Goto(d, "clear")
       /\ Recall
    \/ /\ claim[c] = "none" /\ ~appended[c] /\ ~mem[d].again
       /\ Goto(d, "claimRead")
       /\ mem' = [mem EXCEPT ![d].again = TRUE]
       /\ UNCHANGED <<cap, resumed>>
    \/ /\ claim[c] = "none" /\ ~appended[c] /\ mem[d].again
       /\ End(d)                             \* errAppendClaimLost
    \/ /\ claim[c] # "none" /\ ~appended[c]  \* the token is this attempt's own
       /\ Goto(d, "check")
       /\ Recall

ClaimRead(d) ==
    /\ pc[d] = "claimRead"
    /\ \/ /\ Claimable(cap[d])
          /\ mem' = [mem EXCEPT ![d].rowVer = cver[cap[d]]]
          /\ Goto(d, "claimPut")
          /\ UNCHANGED <<cap, resumed>>
       \/ ~Claimable(cap[d]) /\ ClaimRefused(d)
    /\ UNCHANGED <<captureVars, noteVars, body, editorVars, history>>

ClaimPut(d) ==
    LET c == cap[d]
        won == Claimable(c) /\ cver[c] = mem[d].rowVer IN
    /\ pc[d] = "claimPut"
    /\ \/ /\ won
          /\ PutCapture(c, mem[d].rowVer, status[c], "held")
          /\ mem' = [mem EXCEPT ![d].rowVer = @ + 1]
          /\ Goto(d, "stampRead")
          /\ UNCHANGED <<cap, resumed>>
       \/ /\ ~won
          /\ ClaimRefused(d)
          /\ UNCHANGED captureVars
    /\ UNCHANGED <<noteVars, body, editorVars, history>>

\* The claim is this work's own and unfinished: is the paragraph written?
CheckNote(d) ==
    /\ pc[d] = "check"
    /\ \/ /\ cap[d] \in body.under
          /\ Goto(d, "refRow")
          /\ resumed' = [resumed EXCEPT ![d] = TRUE]
          /\ UNCHANGED <<cap, mem>>
       \/ cap[d] \notin body.under /\ End(d)  \* errAppendClaimHeld
    /\ UNCHANGED <<captureVars, noteVars, body, editorVars, history>>

-----------------------------------------------------------------------------
(* The delivery: stamp, body, index, completion.                           *)

AnotherAppendInFlight(c) == stamp \notin {None, c} /\ stampAge = 0

StampRead(d) ==
    /\ pc[d] = "stampRead"
    /\ \/ /\ ~active                         \* ErrNoteArchived
          /\ mem' = [mem EXCEPT ![d].archived = TRUE]
          /\ Goto(d, "unstamp")
       \/ /\ active
          /\ ~AnotherAppendInFlight(cap[d]) \/ mem[d].waited
          /\ mem' = [mem EXCEPT ![d].copy = NoteRow]
          /\ Goto(d, "stampPut")
    /\ UNCHANGED <<captureVars, noteVars, body, cap, resumed, editorVars, history>>

StampPut(d) ==
    /\ pc[d] = "stampPut"
    /\ \/ /\ version = mem[d].copy.ver
          /\ version' = version + 1
          /\ stamp' = cap[d]
          /\ stampAge' = 0
          /\ Goto(d, "bodyRead")
          /\ UNCHANGED <<indexed, active, tap>>
       \/ /\ version # mem[d].copy.ver       \* re-read, or conflicts exhausted
          /\ Goto(d, "stampRead") \/ Goto(d, "unstamp")
          /\ UNCHANGED noteVars
    /\ mem' = [mem EXCEPT ![d].copy = NoCopy]
    /\ UNCHANGED <<captureVars, body, cap, resumed, editorVars, history>>

BodyRead(d) ==
    /\ pc[d] = "bodyRead"
    /\ mem' = [mem EXCEPT ![d].read = body]
    /\ Goto(d, "bodyPut")
    /\ UNCHANGED <<captureVars, noteVars, body, cap, resumed, editorVars, history>>

\* Marker and paragraph in one PUT: a paragraph already under the marker is
\* replaced where it stands, anything else is appended.
WithParagraph(b, c) == [b EXCEPT !.marked = @ \cup {c}, !.under = @ \cup {c}]

AppendToNote(d) ==
    /\ pc[d] = "bodyPut"
    /\ \/ /\ body = mem[d].read
          /\ body' = WithParagraph(body, cap[d])
          /\ Goto(d, "refRow") \/ (BlindFaults /\ Goto(d, "unstamp"))
       \/ /\ body # mem[d].read              \* lost race: again, or five lost
          /\ Goto(d, "bodyRead") \/ Goto(d, "unstamp")
          /\ UNCHANGED body
    /\ mem' = [mem EXCEPT ![d].read = EmptyBody]
    /\ UNCHANGED <<captureVars, noteVars, cap, resumed, editorVars, history>>

RefreshReadRow(d) ==
    /\ pc[d] = "refRow"
    /\ mem' = [mem EXCEPT ![d].copy = NoteRow]
    /\ Goto(d, "refBody")
    /\ UNCHANGED <<captureVars, noteVars, body, cap, resumed, editorVars, history>>

RefreshReadBody(d) ==
    /\ pc[d] = "refBody"
    /\ mem' = [mem EXCEPT ![d].copy.indexed = Words(body)]
    /\ Goto(d, "refPut")
    /\ UNCHANGED <<captureVars, noteVars, body, cap, resumed, editorVars, history>>

RefreshPut(d) ==
    /\ pc[d] = "refPut"
    /\ \/ PutNote(mem[d].copy) /\ Goto(d, "complete")
       \/ ~PutNoteHolds(mem[d].copy) /\ Goto(d, "refRow") /\ UNCHANGED noteVars
    /\ mem' = [mem EXCEPT ![d].copy = NoCopy]
    /\ UNCHANGED <<captureVars, body, cap, resumed, editorVars, history>>

CompleteCaptureAppend(d) ==
    LET c == cap[d] IN
    /\ pc[d] = "complete"
    /\ \/ /\ claim[c] # "none" /\ ~appended[c]
          /\ cver' = [cver EXCEPT ![c] = @ + 1]
          /\ status' = [status EXCEPT ![c] = "appended"]
          /\ appended' = [appended EXCEPT ![c] = TRUE]
          /\ Goto(d, "clear")
          /\ Recall
          /\ UNCHANGED claim
       \/ /\ claim[c] # "none" /\ appended[c]
          /\ Goto(d, "clear")
          /\ Recall
          /\ UNCHANGED captureVars
       \/ /\ claim[c] = "none"               \* the token is gone: a conflict
          /\ End(d)
          /\ UNCHANGED captureVars
    /\ UNCHANGED <<noteVars, body, editorVars, history>>

\* REMOVE the stamp while it names this capture; the version stays.
ClearNoteAppend(c) ==
    /\ stamp' = IF stamp = c THEN None ELSE stamp
    /\ stampAge' = IF stamp = c THEN 0 ELSE stampAge
    /\ UNCHANGED <<version, indexed, active, tap>>

ClearStamp(d) ==
    /\ pc[d] = "clear"
    /\ ClearNoteAppend(cap[d])
    /\ End(d)
    /\ UNCHANGED <<captureVars, body, editorVars, history>>

-----------------------------------------------------------------------------
(* The delivery: handing the claim back, verdicts, faults, death.          *)

\* Both halves of the release are best effort: either may fail and the rest
\* goes on.
ReleaseStamp(d) ==
    /\ pc[d] = "unstamp"
    /\ ClearNoteAppend(cap[d]) \/ UNCHANGED noteVars
    /\ Goto(d, "unclaim")
    /\ Recall
    /\ UNCHANGED <<captureVars, body, editorVars, history>>

ReleaseClaim(d) ==
    /\ pc[d] = "unclaim"
    /\ \/ /\ PutCapture(cap[d], mem[d].rowVer, "appending", "none")
          /\ \/ /\ mem[d].archived
                /\ mem' = [mem EXCEPT ![d].rowVer = @ + 1]
                /\ Goto(d, "markFailed")
                /\ UNCHANGED <<cap, resumed>>
             \/ ~mem[d].archived /\ End(d)
       \/ /\ UNCHANGED captureVars
          /\ \/ mem[d].archived /\ Goto(d, "markFailed") /\ Recall
             \/ ~mem[d].archived /\ End(d)
    /\ UNCHANGED <<noteVars, body, editorVars, history>>

MarkFailed(d) ==
    LET c == cap[d] IN
    /\ pc[d] = "markFailed"
    /\ \/ PutCapture(c, mem[d].rowVer, "failed", claim[c])
       \/ cver[c] # mem[d].rowVer /\ UNCHANGED captureVars
    /\ End(d)
    /\ UNCHANGED <<noteVars, body, editorVars, history>>

\* A store or object call of the stamp or the body write fails outright.
Fault(d) ==
    /\ pc[d] \in {"stampRead", "stampPut", "bodyRead", "bodyPut"}
    /\ Goto(d, "unstamp")
    /\ mem' = [mem EXCEPT ![d].copy = NoCopy, ![d].read = EmptyBody]
    /\ UNCHANGED <<captureVars, noteVars, body, cap, resumed, editorVars, history>>

\* The invocation ends: a fault anywhere else, retries exhausted, a timeout, a
\* kill.
Crash(d) ==
    /\ pc[d] \notin {"idle", "done"}
    /\ End(d)
    /\ UNCHANGED <<captureVars, noteVars, body, editorVars, history>>

-----------------------------------------------------------------------------
(* The editor.                                                             *)

\* GetNoteDetail reads the row, then the body.
LoadRow(e) ==
    /\ epc[e] = "away" /\ active
    /\ ed' = [ed EXCEPT ![e].ver = version]
    /\ EGoto(e, "loadBody")
    /\ UNCHANGED <<captureVars, noteVars, body, deliveryVars, history>>

LoadBody(e) ==
    /\ epc[e] = "loadBody"
    /\ ed' = [ed EXCEPT ![e].text = StripCaptureMarkers(body)]
    /\ EGoto(e, "editing")
    /\ UNCHANGED <<captureVars, noteVars, body, deliveryVars, history>>

\* What a person may make of the text on screen: type elsewhere in it, rework
\* a recording's paragraph (or type right below it, which detaches its marker
\* the same way), or delete one.
Edited(t) ==
    {t}
    \cup {[t EXCEPT !.verb = @ \ {c}, !.typed = @ \cup {c}] : c \in t.verb}
    \cup {[t EXCEPT !.verb = @ \ {c}, !.typed = @ \ {c}] : c \in TextWords(t)}

BeginBodySave(e) ==
    /\ epc[e] = "editing" /\ ed[e].saves < MaxSaves
    /\ \E t \in Edited(ed[e].text) :
          ed' = [ed EXCEPT
                   ![e].saving = "body",
                   ![e].saves = @ + 1,
                   ![e].draft = [t EXCEPT !.edits = @ \cup {<<e, ed[e].saves + 1>>}]]
    /\ EGoto(e, "etag")
    /\ UNCHANGED <<captureVars, noteVars, body, deliveryVars, history>>

BeginMetaSave(e) ==
    /\ epc[e] = "editing" /\ ed[e].saves < MaxSaves
    /\ ed' = [ed EXCEPT ![e].saving = "meta", ![e].saves = @ + 1,
                        ![e].draft = ed[e].text]
    /\ EGoto(e, "row")
    /\ UNCHANGED <<captureVars, noteVars, body, deliveryVars, history>>

\* The ETag and the stored body first, so the version is the later witness.
SaveReadBody(e) ==
    /\ epc[e] = "etag"
    /\ ed' = [ed EXCEPT ![e].stored = body]
    /\ EGoto(e, "row")
    /\ UNCHANGED <<captureVars, noteVars, body, deliveryVars, history>>

\* A body save forgets an abandoned stamp; a metadata save carries the stamp.
SaveRow(e) == [NoteRow EXCEPT !.stamp = IF ed[e].saving = "body" THEN None ELSE @]

MustWait(e) == ed[e].saving = "body" /\ AppendInProgress

SaveReadRow(e) ==
    /\ epc[e] = "row"
    /\ \/ /\ ~active                         \* ErrNoteArchived
          /\ EGoto(e, "closed")
          /\ UNCHANGED ed
       \/ /\ active /\ MustWait(e)           \* sent again after Retry-After
          /\ ed' = [ed EXCEPT ![e].stored = EmptyBody]
          /\ EGoto(e, "etag")
       \/ active /\ ~MustWait(e) /\ version # ed[e].ver /\ Reload(e)
       \/ /\ active /\ ~MustWait(e) /\ version = ed[e].ver
          /\ ed' = [ed EXCEPT ![e].row = SaveRow(e)]
          /\ EGoto(e, IF ed[e].saving = "body" THEN "put" ELSE "putRow")
    /\ UNCHANGED <<captureVars, noteVars, body, deliveryVars, history>>

\* Mutant: the PUT without If-Match.
WriteNoteBodyMutant(e) ==
    LET carried == CarryCaptureMarkers(ed[e].stored, ed[e].draft) IN
    /\ epc[e] = "put"
    /\ body' = carried
    /\ removed' = removed \cup (TextWords(ed[e].text) \ TextWords(ed[e].draft))
    /\ ed' = [ed EXCEPT ![e].row.indexed = TextWords(ed[e].draft)]
    /\ EGoto(e, "putRow")
    /\ UNCHANGED <<captureVars, noteVars, deliveryVars, acked>>

WriteNoteBody(e) ==
    LET carried == CarryCaptureMarkers(ed[e].stored, ed[e].draft) IN
    /\ epc[e] = "put"
    /\ \/ /\ carried = ed[e].stored \/ body = ed[e].stored
          /\ body' = IF carried = ed[e].stored THEN body ELSE carried
          /\ removed' = removed \cup (TextWords(ed[e].text) \ TextWords(ed[e].draft))
          /\ ed' = [ed EXCEPT ![e].row.indexed = TextWords(ed[e].draft)]
          /\ EGoto(e, "putRow")
       \/ /\ carried # ed[e].stored /\ body # ed[e].stored  \* precondition failed
          /\ Reload(e)
          /\ UNCHANGED <<body, removed>>
    /\ UNCHANGED <<captureVars, noteVars, deliveryVars, acked>>

\* 200: the client's copy is its draft at the version the answer names.
Acknowledge(e) ==
    /\ acked' = acked \cup {x \in ed[e].draft.edits : x[1] = e}
    /\ ed' = [ed EXCEPT ![e] = [NotEditing EXCEPT !.ver = version + 1,
                                                  !.text = ed[e].draft,
                                                  !.saves = ed[e].saves]]
    /\ EGoto(e, "editing")
    /\ UNCHANGED removed

PutCarryingStamp(e) ==
    /\ epc[e] \in {"putRow", "reput"}
    /\ \/ /\ PutNote(ed[e].row)
          /\ Acknowledge(e)
       \/ /\ ~PutNoteHolds(ed[e].row) /\ epc[e] = "putRow"
          /\ EGoto(e, "reread")
          /\ UNCHANGED <<noteVars, ed, history>>
       \/ /\ ~PutNoteHolds(ed[e].row) /\ epc[e] = "reput"
          /\ Reload(e)
          /\ UNCHANGED <<noteVars, history>>
    /\ UNCHANGED <<captureVars, body, deliveryVars>>

\* The lost write is read again: the same version is a Clean tap alone, and
\* the write goes once more carrying the tap's stamp.
PutReread(e) ==
    /\ epc[e] = "reread"
    /\ \/ version # ed[e].row.ver /\ Reload(e)
       \/ /\ version = ed[e].row.ver
          /\ ed' = [ed EXCEPT ![e].row.tap = tap]
          /\ EGoto(e, "reput")
    /\ UNCHANGED <<captureVars, noteVars, body, deliveryVars, history>>

\* The request dies between two of its calls and the client repeats it.
SaveDies(e) ==
    /\ epc[e] \in {"put", "putRow", "reread", "reput"} /\ ed[e].saves < MaxSaves
    /\ ed' = [ed EXCEPT ![e].stored = EmptyBody, ![e].row = NoCopy,
                        ![e].saves = @ + 1]
    /\ EGoto(e, IF ed[e].saving = "body" THEN "etag" ELSE "row")
    /\ UNCHANGED <<captureVars, noteVars, body, deliveryVars, history>>

-----------------------------------------------------------------------------
(* The other writers of the row, and time.                                 *)

StampCleanRequest ==
    /\ active /\ tap < MaxTaps
    /\ tap' = tap + 1
    /\ UNCHANGED <<captureVars, version, stamp, stampAge, indexed, active, body,
                   deliveryVars, editorVars, history>>

ArchiveNote ==
    /\ MayArchive /\ active
    /\ active' = FALSE
    /\ version' = version + 1
    /\ UNCHANGED <<captureVars, stamp, stampAge, indexed, tap, body,
                   deliveryVars, editorVars, history>>

\* No attempt is between its claim and its last call.
NobodyAt(c) == \A d \in Deliveries :
    cap[d] = c => pc[d] \notin Stamped \cup {"check", "unstamp", "unclaim"}

\* A worker lives fifteen minutes at most and the lease is twenty, so a lease
\* runs out only on a holder that is gone, and after every ten-second wait that
\* was going on beside it.  A duplicate finishing the dead holder's append takes
\* milliseconds; that it straddles the end of the lease is left out.
ExpireClaim(c) ==
    /\ LeaseRunsOut /\ claim[c] = "held" /\ ~appended[c]
    /\ NobodyAt(c)
    /\ \A d \in Deliveries : ~Holds(d, c) /\ ~mem[d].waited
    /\ \A d \in Deliveries : cap[d] = c => pc[d] # "claimPut"
    /\ stamp = c => stampAge > 0
    /\ claim' = [claim EXCEPT ![c] = "stale"]
    /\ UNCHANGED <<cver, status, appended, noteVars, body, deliveryVars,
                   editorVars, history>>

\* AppendStampWait (ten seconds) passes: the span from stamp to completion is
\* two orders of magnitude shorter, so its holder is gone.  A waiter that began
\* right after that stamp has no patience left.
AgeStamp ==
    /\ stamp # None /\ stampAge = 0
    /\ \A d \in Deliveries : ~Writing(d, stamp)
    /\ stampAge' = 1
    /\ \E W \in SUBSET {d \in Deliveries : pc[d] = "stampRead" /\ PatienceRunsOut} :
          mem' = [d \in Deliveries |->
                     [mem[d] EXCEPT !.waited = @ \/ d \in W]]
    /\ UNCHANGED <<captureVars, version, stamp, indexed, active, tap, body, pc, cap,
                   resumed, editorVars, history>>

\* The stamp outlives AppendClaimLease; the claim it followed ran out before.
LapseStamp ==
    /\ LeaseRunsOut /\ stamp # None /\ stampAge = 1
    /\ NobodyAt(stamp)
    /\ \/ claim[stamp] # "held" \/ appended[stamp]
       \/ \E d \in Deliveries : Holds(d, stamp) /\ pc[d] \in {"stampRead", "stampPut"}
    /\ stampAge' = 2
    /\ UNCHANGED <<captureVars, version, stamp, indexed, active, tap, body,
                   deliveryVars, editorVars, history>>

-----------------------------------------------------------------------------

Init ==
    /\ cver = [c \in Captures |-> 1]
    /\ status = [c \in Captures |-> "cleaned"]
    /\ claim = [c \in Captures |-> "none"]
    /\ appended = [c \in Captures |-> FALSE]
    /\ version = 1 /\ stamp = None /\ stampAge = 0
    /\ indexed = {} /\ active = TRUE /\ tap = 0
    /\ body = EmptyBody
    /\ pc = [d \in Deliveries |-> "idle"]
    /\ cap = [d \in Deliveries |-> None]
    /\ resumed = [d \in Deliveries |-> FALSE]
    /\ mem = [d \in Deliveries |-> NoMemory]
    /\ epc = [e \in Editors |-> "away"]
    /\ ed = [e \in Editors |-> NotEditing]
    /\ acked = {} /\ removed = {}

\* What a delivery does of its own accord, a fault or a death aside.
WorkerStep(d) ==
    \/ SetStatus(d) \/ ClaimRead(d) \/ ClaimPut(d) \/ CheckNote(d)
    \/ StampRead(d) \/ StampPut(d) \/ BodyRead(d) \/ AppendToNote(d)
    \/ RefreshReadRow(d) \/ RefreshReadBody(d) \/ RefreshPut(d)
    \/ CompleteCaptureAppend(d) \/ ClearStamp(d)
    \/ ReleaseStamp(d) \/ ReleaseClaim(d) \/ MarkFailed(d)

\* What a save request does once it is sent.
SaveStep(e) ==
    \/ SaveReadBody(e) \/ SaveReadRow(e) \/ WriteNoteBody(e)
    \/ PutCarryingStamp(e) \/ PutReread(e)

EditorStep(e) ==
    \/ LoadRow(e) \/ LoadBody(e) \/ BeginBodySave(e) \/ BeginMetaSave(e)
    \/ SaveStep(e) \/ SaveDies(e)

Time == AgeStamp \/ LapseStamp \/ \E c \in Captures : ExpireClaim(c)

Next ==
    \/ \E d \in Deliveries :
          \/ \E c \in Captures : StartDelivery(d, c)
          \/ WorkerStep(d) \/ Fault(d) \/ Crash(d)
    \/ \E e \in Editors : EditorStep(e)
    \/ StampCleanRequest \/ ArchiveNote \/ Time

Spec == Init /\ [][Next]_vars

\* Code that is running goes on to its next call, and the clock does not stop.
\* Nothing makes a delivery start, a person type, a request die or a note go to
\* the trash.
FairSpec ==
    /\ Spec
    /\ \A d \in Deliveries : WF_vars(WorkerStep(d))
    /\ \A e \in Editors : WF_vars(SaveStep(e))
    /\ WF_vars(AgeStamp) /\ WF_vars(LapseStamp)
    /\ \A c \in Captures : WF_vars(ExpireClaim(c))
-----------------------------------------------------------------------------
(* What must hold.                                                         *)

\* Every variable has its type: the rows, the body, and what each delivery and
\* each editor remembers of them.
CaptureTypes ==
    /\ cver \in [Captures -> Nat]
    /\ status \in [Captures -> {"cleaned", "appending", "appended", "failed"}]
    /\ claim \in [Captures -> {"none", "held", "stale"}]
    /\ appended \in [Captures -> BOOLEAN]
NoteTypes ==
    /\ version \in Nat /\ stamp \in Captures \cup {None}
    /\ stampAge \in 0 .. 2 /\ (stamp = None => stampAge = 0)
    /\ indexed \in SUBSET Captures /\ active \in BOOLEAN /\ tap \in Nat
DeliveryTypes ==
    /\ pc \in [Deliveries -> DeliveryPC]
    /\ cap \in [Deliveries -> Captures \cup {None}]
    /\ \A d \in Deliveries : pc[d] \notin {"idle", "done"} => cap[d] \in Captures
    /\ resumed \in [Deliveries -> BOOLEAN]
    /\ mem \in [Deliveries -> Memory]
EditorTypes ==
    /\ epc \in [Editors -> EditorPC]
    /\ ed \in [Editors -> Editing]
    /\ acked \in SUBSET EditIds /\ removed \in SUBSET Captures
TypeOK == CaptureTypes /\ NoteTypes /\ body \in Body /\ DeliveryTypes /\ EditorTypes

\* The append claim is a mutex: one live delivery at a time has it for a
\* capture, and while it has it the row says so (Pipeline.append,
\* ClaimCaptureAppend, releaseAppendClaim).
OneHolder ==
    /\ \A d, x \in Deliveries, c \in Captures : Holds(d, c) /\ Holds(x, c) => d = x
    /\ \A d \in Deliveries, c \in Captures : Holds(d, c) => claim[c] = "held"

\* From the stamp to the completion of the append, the row's stamp names the
\* capture whose paragraph is being written, so every body save is told to wait
\* (stampNoteAppend, finishAppend; ClearStamp comes after the completion).
StampCoversWrite ==
    \A d \in Deliveries, c \in Captures : Writing(d, c) /\ ~appended[c] => stamp = c

\* A capture marked appended has its words in the body, unless a person who saw
\* them took them out: no save racing the append erases them (the S1 hole that
\* UpdateNote's order of reads, the stamp and the ETag close).
AppendedHasLanded == \A c \in Captures : appended[c] => c \in Words(body) \cup removed

\* A write of the body takes a capture's words out only when the writer's own
\* copy had them, or when the append is unfinished and every attempt at it has
\* its own body write still to come (UpdateNote, writeNoteBody).
SaveErasesOnlySeen ==
    [][\A c \in Words(body) \ Words(body') :
          \/ \E e \in Editors : epc[e] = "put" /\ c \in TextWords(ed[e].text)
          \/ ~appended[c] /\ \A d \in Deliveries : cap[d] = c => pc[d] \notin Finishing]_vars

\* Inside the lease, no retry, duplicate or resumed attempt leaves a capture's
\* words in the note twice, whatever the editor made of the first copy
\* (appendClaimRefused, paragraphInNote, appendToNote).
NoSecondCopy == body.under \cap body.typed = {}

\* When nothing is running, the words of every finished capture that stand in
\* the body can be found by search: the last writer of the row indexed the body
\* the last writer of the body left (RefreshNoteIndex, writeNoteBody).
AtRest ==
    /\ \A d \in Deliveries : pc[d] \in {"idle", "done"}
    /\ \A e \in Editors : epc[e] \in {"away", "editing", "closed"}
CompletedIsIndexed ==
    AtRest => \A c \in Captures : appended[c] /\ c \in Words(body) => c \in indexed

\* What a capture marked appended promises: its words are in the note, and, when
\* nothing is running, found by search.
AppendedIsThere == AppendedHasLanded /\ CompletedIsIndexed

\* No whole-row write from an older copy puts a Clean tap back to what that copy
\* saw, and none takes a note out of the trash (PutNote, putCarryingStamp).
RowNeverRevived == [][tap' >= tap /\ (active' => active)]_vars

\* An edit the API acknowledged stays in the body until a person who saw it
\* edits it away; nobody in this model does, so it stays (UpdateNote).
AckedEditsSurvive == acked \subseteq body.edits

\* Two captures are not being written into one note at once: a stamp is written
\* over only when its holder is gone (defaultAppendStampWait).
OnlyDeadStampedOver ==
    [][stamp' \notin {None, stamp} => \A d \in Deliveries : ~Writing(d, stamp)]_vars

\* Every delivery ends: waiting out another capture's stamp and losing races for
\* the row and the body are bounded (stampNoteAppend, RefreshNoteIndex).
DeliveryEnds == \A d \in Deliveries : []<>(pc[d] \in {"idle", "done"})

\* Every save is answered: the 409 that asks the client to repeat it unchanged is
\* not repeated for ever, because the stamp is cleared or outlives the lease.
SaveIsAnswered == \A e \in Editors : []<>(epc[e] \notin InFlight)
=============================================================================
