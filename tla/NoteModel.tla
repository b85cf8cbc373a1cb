----------------------------- MODULE NoteModel -----------------------------
(***************************************************************************)
(* The note editor's autosave machine: pure functions from a model to a    *)
(* model.  A draft is a set of words per field; "title" stands for every   *)
(* field that is not the body.  A recording's paragraph is one word added  *)
(* at the end of the body, another device's edit one added in the middle.  *)
(***************************************************************************)
EXTENDS Naturals

CONSTANTS Own,        \* the words a person types, in order: 1..n
          Paragraph,  \* the word a recording's append adds
          Elsewhere   \* the word another device adds

ASSUME WordsAssumption ==
    /\ Own \subseteq Nat
    /\ Paragraph \notin Own /\ Elsewhere \notin Own /\ Paragraph # Elsewhere

Words == Own \cup {Paragraph, Elsewhere}
Fields == {"title", "body"}
Drafts == [Fields -> SUBSET Words]
Blank == [f \in Fields |-> {}]
WordsOf(d) == UNION {d[f] : f \in DOMAIN d}

\* clean, dirty, saving, saved, queued, error, conflict.
SaveStates == {"clean", "dirty", "saving", "saved", "queued", "error", "conflict"}

Note(draft, version) == [draft |-> draft, ver |-> version]

\* No conflict is on the screen; a version no note has.
NoTheirs == [draft |-> Blank, ver |-> 0, adds |-> FALSE]

InitialEditor(note) ==
    [draft |-> note.draft, saved |-> note.draft, server |-> note.draft,
     ver |-> note.ver, state |-> "clean", theirs |-> NoTheirs]

\* The PATCH: a version, and only the fields that differ from the server's.
Patch(version, fields) == [ver |-> version, set |-> fields]

PatchFor(m) ==
    Patch(m.ver, [f \in {g \in Fields : m.draft[g] # m.server[g]} |-> m.draft[f]])

\* An object spread: the newer one's fields over the older one's.
Upon(new, old) ==
    [f \in DOMAIN new \cup DOMAIN old |-> IF f \in DOMAIN new THEN new[f] ELSE old[f]]

\* One PATCH over another, field by field; the newer one's version stands.
Over(old, new) == Patch(new.ver, Upon(new.set, old.set))

\* Cleaned-view settings, which this ignores, are not modelled in a draft.
SameText(a, b) == a = b

\* The body gained the recording's paragraph, at its end, and nothing else.
AddsParagraph(saved, theirs) ==
    theirs["body"] = saved["body"] \cup {Paragraph} /\ Paragraph \notin saved["body"]

ApplyEdit(m, field, words) ==
    LET draft == [m.draft EXCEPT ![field] = words]
    IN  [m EXCEPT !.draft = draft,
                  !.state = IF @ = "conflict" THEN @
                            ELSE IF draft = m.saved THEN "clean" ELSE "dirty"]

SaveStart(m) == IF m.state = "conflict" THEN m ELSE [m EXCEPT !.state = "saving"]

\* Mutant: an acknowledgement covers whatever is on the screen by now.
SaveSuccessMutant(m, sent, version) ==
    [m EXCEPT !.saved = m.draft, !.server = m.draft, !.ver = version,
              !.state = "saved", !.theirs = NoTheirs]

SaveSuccess(m, sent, version) ==
    [m EXCEPT !.saved = sent, !.server = sent, !.ver = version,
              !.state = IF m.draft = sent THEN "saved" ELSE "dirty",
              !.theirs = NoTheirs]

\* The version and the server's copy stay: the server has seen nothing.
SaveQueued(m, sent) ==
    [m EXCEPT !.saved = sent, !.state = IF m.draft = sent THEN "queued" ELSE "dirty"]

SaveError(m) == [m EXCEPT !.state = "error"]

SaveDeferred(m) == IF m.state = "saving" THEN [m EXCEPT !.state = "dirty"] ELSE m

\* Both copies are held until the person chooses.
Conflict(m, mine, note) ==
    [m EXCEPT !.draft = mine, !.state = "conflict",
              !.theirs = [draft |-> note.draft, ver |-> note.ver,
                          adds |-> AddsParagraph(m.saved, note.draft)]]

TakeTheirs(m) ==
    [InitialEditor(Note(m.theirs.draft, m.theirs.ver)) EXCEPT !.state = "saved"]

KeepMine(m) ==
    [m EXCEPT !.server = m.theirs.draft, !.ver = m.theirs.ver,
              !.state = "dirty", !.theirs = NoTheirs]

KeepBoth(m) ==
    [KeepMine(m) EXCEPT !.draft["body"] = @ \cup {Paragraph}]

Rebase(m, version) ==
    IF version <= m.ver \/ m.state = "conflict" THEN m
    ELSE [m EXCEPT !.ver = version, !.server = m.saved,
                   !.state = IF @ = "saving" THEN "dirty" ELSE @]

\* What the queue says of the note, folded into the state the screen shows.
\* held is "unread", "none", "pending" or "dead".
ReconcileQueued(m, held) ==
    CASE held = "unread" -> m.state
      [] m.state = "queued" /\ held = "none" -> "saved"
      [] m.state \in {"queued", "clean", "saved"} /\ held = "dead" -> "error"
      [] m.state \in {"clean", "saved"} /\ held = "pending" -> "queued"
      [] OTHER -> m.state

HasUnsavedWork(m) == m.state \in {"dirty", "saving", "error", "conflict"}
=============================================================================
