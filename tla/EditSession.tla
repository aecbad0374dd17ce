------------------------------- MODULE EditSession -------------------------------
(* Editing a file in the viewer (src/edit.rs, with the keys of edit mode in       *)
(* src/app.rs): the buffer, its undo and redo stacks of line-range deltas, the    *)
(* merging of single-character edits, saving with conflict detection and leaving  *)
(* edit mode.  Other processes may write the file at any time.                    *)
(*                                                                                *)
(* A line is a sequence of characters, of which every one is a grapheme of one    *)
(* byte; line terminators are not part of the lines and a file is its lines.      *)
(* Lines are counted from 1, a caret's byte from 0.  Not modelled: outdent (its   *)
(* key, Tab with Shift, is reported as another key), highlighting, word motion.   *)
EXTENDS Naturals, Sequences, SequencesExt

CONSTANTS
    Chars,       \* characters the user types
    TabChar,     \* what a line is indented with
    Pastes,      \* texts that are pasted: sequences of lines
    FileText,    \* the lines of the file at first
    OtherText,   \* what another process writes to it
    MaxUndo,     \* MAX_UNDO_STACK
    Window,      \* COALESCE_WINDOW, in ticks
    MaxSteps,    \* bound on keys
    MaxTicks,    \* bound on the clock
    MaxForeign,  \* bound on writes of other processes
    None

Text == Seq(Seq(Chars \cup {TabChar}))

ASSUME TextAssumption == {FileText, OtherText} \cup Pastes \subseteq Text \ {<<>>}
ASSUME BoundAssumption ==
    MaxUndo \in Nat \ {0} /\ {Window, MaxSteps, MaxTicks, MaxForeign} \subseteq Nat

VARIABLES
    mode,        \* "preview" or "edit"
    lines,       \* content.lines: the preview, or the edit buffer
    snapshot,    \* preview_snapshot.lines
    baseline,    \* original_bytes
    caret, selection, undo, redo, dirty, saved,     \* the edit session
    escapePending,                                  \* edit_escape_pending
    disk,        \* the file
    saving,      \* how far save is: "no", "checked", "written" (the temporary file)
    now,         \* clock
    steps, foreign,  \* counters for the bounds
    trail,       \* history: the texts that the deltas of undo and redo lead through
    strayed,     \* history: a delta was redone over lines that it does not replace
    raced        \* history: the file was written after the conflict check of a save

history == <<trail, strayed, raced>>
session == <<caret, selection, undo, redo, dirty, saved, escapePending>>
vars == <<mode, lines, snapshot, baseline, session, disk, saving, now, steps, foreign,
          history>>

Point == [line : Nat, byte : Nat]
Delta == [start : Nat, old : Text, new : Text, before : Point, after : Point,
          time : Nat, coalescible : BOOLEAN]

----------------------------------------------------------------------------------
(* Points, lines and deltas *)

At(l, b) == [line |-> l, byte |-> b]
Before(p, q) == p.line < q.line \/ (p.line = q.line /\ p.byte <= q.byte)

\* ContentSelection::normalized
SelectionStart(s) == IF Before(s.anchor, s.head) THEN s.anchor ELSE s.head
SelectionEnd(s) == IF Before(s.anchor, s.head) THEN s.head ELSE s.anchor

\* Vec::splice of n lines
Splice(text, start, n, new) ==
    SubSeq(text, 1, start - 1) \o new \o SubSeq(text, start + n, Len(text))

Apply(text, d)  == Splice(text, d.start, Len(d.old), d.new)
Revert(text, d) == Splice(text, d.start, Len(d.new), d.old)

Until(line, byte) == SubSeq(line, 1, byte)
From(line, byte)  == SubSeq(line, byte + 1, Len(line))

\* Replacing the text between two points with some lines.
ReplaceDelta(text, from, to, parts, coalescible) ==
    LET n    == Len(parts)
        head == Until(text[from.line], from.byte)
        tail == From(text[to.line], to.byte)
    IN  [start |-> from.line,
         old |-> SubSeq(text, from.line, to.line),
         new |-> [i \in 1..n |-> (IF i = 1 THEN head ELSE <<>>) \o parts[i]
                                   \o (IF i = n THEN tail ELSE <<>>)],
         before |-> caret,
         after |-> At(from.line + n - 1,
                      Len(parts[n]) + (IF n = 1 THEN from.byte ELSE 0)),
         time |-> now, coalescible |-> coalescible]

----------------------------------------------------------------------------------
(* The undo stack *)

\* Mutant: no limit.
PushUnbounded(stack, d) == Append(stack, d)

\* push_delta: at the limit the oldest delta goes.
PushDelta(stack, d) ==
    IF Len(stack) >= MaxUndo THEN Tail(Append(stack, d)) ELSE Append(stack, d)

\* Mutant: deltas of other lines are merged too.
CoalescesAnywhere(d) ==
    undo # <<>> /\ Last(undo).coalescible /\ now - Last(undo).time <= Window

\* try_coalesce: whether delta d of one line is merged with the last one.
Coalesces(d) ==
    /\ undo # <<>>
    /\ LET last == Last(undo)
       IN  /\ last.coalescible
           /\ last.start = d.start /\ Len(last.old) = 1
           /\ now - last.time <= Window
           /\ d.before = last.after

Merged(d) ==
    [undo EXCEPT ![Len(undo)].new = d.new, ![Len(undo)].after = d.after,
                 ![Len(undo)].time = now]

\* The texts that a stack leads through once an edit has led from its top to a text.
Followed(texts, stack, text) ==
    LET all == Append(SubSeq(texts, 1, Len(stack) + 1), text)
    IN  IF Len(stack) >= MaxUndo THEN Tail(all) ELSE all

----------------------------------------------------------------------------------
(* Keys of edit mode *)

Editing == mode = "edit" /\ saving = "no" /\ steps < MaxSteps

\* What every key other than Esc and the save key leaves alone.
Key ==
    /\ Editing
    /\ steps' = steps + 1
    /\ escapePending' = FALSE
    /\ UNCHANGED <<mode, snapshot, baseline, disk, saving, now, foreign, raced>>

Points == UNION {{At(l, b) : b \in 0..Len(lines[l])} : l \in 1..Len(lines)}

\* The other keys slice a line at the caret.  What they do when the caret is not in
\* the buffer (most panic) is not modelled.
TextKey == Key /\ caret \in Points

\* An edit and after_edit, of a text that the deltas of a stack have led to.
EditFrom(text, stack, texts, d) ==
    /\ lines' = Apply(text, d)
    /\ undo' = PushDelta(stack, d)
    /\ trail' = Followed(texts, stack, Apply(text, d))
    /\ caret' = d.after
    /\ dirty' = TRUE /\ saved' = FALSE
    /\ redo' = <<>>
    /\ UNCHANGED strayed

Edit(d) == EditFrom(lines, undo, trail, d)

\* An edit that may be merged with the one before it: then after_edit is not run.
SmallEdit(d) ==
    IF ~Coalesces(d) THEN Edit(d)
    ELSE /\ lines' = Apply(lines, d)
         /\ undo' = Merged(d)
         /\ caret' = d.after
         /\ trail' = [trail EXCEPT ![Len(undo) + 1] = Apply(lines, d)]
         /\ dirty' = TRUE /\ saved' = FALSE
         /\ UNCHANGED <<redo, strayed>>

DeleteSelection == ReplaceDelta(lines, SelectionStart(selection), SelectionEnd(selection), <<<<>>>>, FALSE)

\* insert_char: it replaces a selection with one delta.
InsertChar(c) ==
    /\ TextKey
    /\ IF selection # None
       THEN Edit(ReplaceDelta(lines, SelectionStart(selection), SelectionEnd(selection),
                              <<<<c>>>>, FALSE))
       ELSE SmallEdit(ReplaceDelta(lines, caret, caret, <<<<c>>>>, TRUE))
    /\ selection' = None

\* insert_newline and insert_text: a selection is deleted with a delta of its own,
\* and both deltas have the caret of before.
InsertLines(parts) ==
    LET gone == DeleteSelection
        text == Apply(lines, gone)
    IN
    /\ TextKey
    /\ IF selection = None THEN Edit(ReplaceDelta(lines, caret, caret, parts, FALSE))
       ELSE EditFrom(text, PushDelta(undo, gone), Followed(trail, undo, text),
                     ReplaceDelta(text, gone.after, gone.after, parts, FALSE))
    /\ selection' = None

InsertNewline == InsertLines(<< <<>>, <<>> >>)
Paste(parts) == InsertLines(parts)

\* backspace: the selection, the character before the caret or the line break.
Backspace ==
    LET l == caret.line  b == caret.byte IN
    /\ TextKey
    /\ \/ selection # None /\ Edit(DeleteSelection)
       \/ /\ selection = None /\ b > 0
          /\ SmallEdit(ReplaceDelta(lines, At(l, b - 1), caret, <<<<>>>>, TRUE))
       \/ /\ selection = None /\ b = 0 /\ l > 1
          /\ Edit(ReplaceDelta(lines, At(l - 1, Len(lines[l - 1])), caret, <<<<>>>>, FALSE))
    /\ selection' = None

\* delete: the selection, the character after the caret or the line break.
Delete ==
    LET l == caret.line  b == caret.byte IN
    /\ TextKey
    /\ \/ selection # None /\ Edit(DeleteSelection)
       \/ /\ selection = None /\ b < Len(lines[l])
          /\ SmallEdit(ReplaceDelta(lines, caret, At(l, b + 1), <<<<>>>>, TRUE))
       \/ /\ selection = None /\ b >= Len(lines[l]) /\ l < Len(lines)
          /\ Edit(ReplaceDelta(lines, caret, At(l + 1, 0), <<<<>>>>, FALSE))
    /\ selection' = None

\* cut_selection: nothing is cut from an empty selection.
CutSelection ==
    /\ TextKey
    /\ selection # None /\ selection.anchor # selection.head
    /\ Edit(DeleteSelection)
    /\ selection' = None

\* indent_or_outdent, indenting: the lines of the selection, which stays, or of the
\* caret, which moves with its line.
Indent ==
    LET from == IF selection = None THEN caret.line ELSE SelectionStart(selection).line
        to   == IF selection = None THEN caret.line ELSE SelectionEnd(selection).line
        old  == SubSeq(lines, from, to)
    IN
    /\ TextKey
    /\ Edit([start |-> from, old |-> old,
             new |-> [i \in 1..Len(old) |-> <<TabChar>> \o old[i]],
             before |-> caret,
             after |-> IF selection = None THEN At(caret.line, caret.byte + 1) ELSE caret,
             time |-> now, coalescible |-> FALSE])
    /\ UNCHANGED selection

\* Mutant: undoing leaves a session unmodified that was so before.
UndoneDirty == dirty

\* undo and redo mark the session modified and leave saved alone.
UndoDirty == TRUE

Undo ==
    /\ Key /\ undo # <<>>
    /\ lines' = Revert(lines, Last(undo))
    /\ caret' = Last(undo).before /\ selection' = None
    /\ undo' = Front(undo) /\ redo' = Append(redo, Last(undo))
    /\ dirty' = UndoDirty
    /\ UNCHANGED <<saved, trail, strayed>>

\* The delta that is redone next replaces what the lines are there.
RedoFits ==
    LET d == Last(redo) IN SubSeq(lines, d.start, d.start + Len(d.old) - 1) = d.old

Redo ==
    /\ Key /\ redo # <<>>
    /\ lines' = Apply(lines, Last(redo))
    /\ caret' = Last(redo).after /\ selection' = None
    /\ redo' = Front(redo) /\ undo' = Append(undo, Last(redo))
    /\ dirty' = UndoDirty
    /\ trail' = [trail EXCEPT ![Len(undo) + 2] = Apply(lines, Last(redo))]
    /\ strayed' = (strayed \/ ~RedoFits)
    /\ UNCHANGED saved

\* Arrow keys, Home, End and clicks; with Shift, or dragging, the selection grows.
MoveCaret(p, extend) ==
    /\ IF extend THEN TextKey ELSE Key
    /\ caret' = p
    /\ selection' = IF ~extend THEN None
                    ELSE [anchor |-> IF selection = None THEN caret ELSE selection.anchor,
                          head |-> p]
    /\ UNCHANGED <<lines, undo, redo, dirty, saved, trail, strayed>>

\* There is no edit session: the values are of no consequence.
NoSession(text) ==
    /\ snapshot' = text /\ baseline' = text /\ trail' = <<text>> /\ strayed' = FALSE
    /\ caret' = At(1, 0) /\ selection' = None /\ undo' = <<>> /\ redo' = <<>>
    /\ dirty' = FALSE /\ saved' = FALSE /\ escapePending' = FALSE /\ raced' = FALSE

\* Esc: a modified session asks once more, a saved one reloads the file, another
\* one restores the preview.
Escape ==
    /\ Editing
    /\ steps' = steps + 1
    /\ IF dirty /\ ~escapePending
       THEN /\ escapePending' = TRUE
            /\ UNCHANGED <<mode, lines, snapshot, baseline, caret, selection, undo, redo,
                           dirty, saved, history>>
       ELSE /\ mode' = "preview"
            /\ lines' = IF ~dirty /\ saved THEN disk ELSE snapshot
            /\ NoSession(lines')
    /\ UNCHANGED <<disk, saving, now, foreign>>

----------------------------------------------------------------------------------
(* Entering edit mode and saving *)

\* try_enter_edit_mode and EditSession::begin: the file is read again.
Begin ==
    /\ mode = "preview" /\ steps < MaxSteps
    /\ steps' = steps + 1
    /\ mode' = "edit"
    /\ lines' = disk /\ baseline' = disk /\ snapshot' = lines
    /\ caret' \in {At(l, 0) : l \in 1..Len(disk)} /\ selection' = None
    /\ undo' = <<>> /\ redo' = <<>>
    /\ dirty' = FALSE /\ saved' = FALSE /\ escapePending' = FALSE
    /\ trail' = <<disk>> /\ strayed' = FALSE /\ raced' = FALSE
    /\ UNCHANGED <<disk, saving, now, foreign>>

\* Mutant: the file is not compared with what was read.
NeverConflicts == TRUE

\* The conflict check of save.
FileUnchanged == disk = baseline

\* save runs to its end on the UI thread, other processes run beside it.
SaveChecks ==
    /\ Editing
    /\ FileUnchanged
    /\ steps' = steps + 1
    /\ saving' = "checked" /\ raced' = FALSE
    /\ escapePending' = FALSE
    /\ UNCHANGED <<mode, lines, snapshot, baseline, caret, selection, undo, redo, dirty,
                   saved, disk, now, foreign, trail, strayed>>

SaveConflicts ==
    /\ Key /\ ~FileUnchanged
    /\ UNCHANGED <<lines, caret, selection, undo, redo, dirty, saved, trail, strayed>>

SaveWritesTemporary ==
    /\ saving = "checked"
    /\ saving' = "written"
    /\ UNCHANGED <<mode, lines, snapshot, baseline, session, disk, now, steps, foreign,
                   history>>

\* The temporary file replaces the file.
SaveRenames ==
    /\ saving = "written"
    /\ disk' = lines /\ baseline' = lines
    /\ dirty' = FALSE /\ saved' = TRUE
    /\ saving' = "no"
    /\ UNCHANGED <<mode, lines, snapshot, caret, selection, undo, redo, escapePending, now,
                   steps, foreign, history>>

\* The temporary file is removed, the session is as before.
SaveFails ==
    /\ saving # "no"
    /\ saving' = "no"
    /\ UNCHANGED <<mode, lines, snapshot, baseline, session, disk, now, steps, foreign,
                   history>>

----------------------------------------------------------------------------------
(* The environment *)

Tick ==
    /\ now < MaxTicks /\ saving = "no"
    /\ now' = now + 1
    /\ UNCHANGED <<mode, lines, snapshot, baseline, session, disk, saving, steps, foreign,
                   history>>

OtherProcessWrites ==
    /\ foreign < MaxForeign
    /\ foreign' = foreign + 1
    /\ disk' = OtherText
    /\ raced' = (raced \/ saving # "no")
    /\ UNCHANGED <<mode, lines, snapshot, baseline, session, saving, now, steps, trail,
                   strayed>>

----------------------------------------------------------------------------------
Init ==
    /\ mode = "preview" /\ lines = FileText /\ disk = FileText
    /\ snapshot = FileText /\ baseline = FileText /\ trail = <<FileText>> /\ strayed = FALSE
    /\ caret = At(1, 0) /\ selection = None /\ undo = <<>> /\ redo = <<>>
    /\ dirty = FALSE /\ saved = FALSE /\ escapePending = FALSE
    /\ saving = "no" /\ now = 0 /\ steps = 0 /\ foreign = 0 /\ raced = FALSE

Next ==
    \/ \E c \in Chars : InsertChar(c)
    \/ InsertNewline
    \/ \E parts \in Pastes : Paste(parts)
    \/ Backspace \/ Delete \/ CutSelection \/ Indent
    \/ Undo \/ Redo
    \/ \E p \in Points, extend \in BOOLEAN : MoveCaret(p, extend)
    \/ Begin \/ Escape
    \/ SaveChecks \/ SaveConflicts
    \/ SaveWritesTemporary \/ SaveRenames \/ SaveFails
    \/ Tick \/ OtherProcessWrites

Spec == Init /\ [][Next]_vars

----------------------------------------------------------------------------------
(* Properties *)

\* Types, with the bound of the undo stack and a selection inside of the buffer.
TypeOK ==
    /\ mode \in {"preview", "edit"} /\ saving \in {"no", "checked", "written"}
    /\ {lines, disk, baseline, snapshot} \cup Range(trail) \subseteq Text \ {<<>>}
    /\ selection # None => {selection.anchor, selection.head} \subseteq Points
    /\ {undo, redo} \subseteq Seq(Delta)
    /\ Len(undo) + Len(redo) <= MaxUndo
    /\ {dirty, saved, escapePending, strayed, raced} \subseteq BOOLEAN

\* Undoing leads back through the texts that the edits led through, to the text that
\* was read or, at the limit of the stack, to the one that no delta is left for.
UndoLeadsBack ==
    mode = "edit" /\ ~strayed =>
        /\ lines = trail[Len(undo) + 1]
        /\ \A i \in DOMAIN undo : Revert(trail[i + 1], undo[i]) = trail[i]

\* The undo stack is bounded and leads back to what was there.
UndoIsSound == TypeOK /\ UndoLeadsBack

\* A session that is not modified, which Esc leaves at once, has the text of the
\* file as it was read or saved last.
UnmodifiedIsBaseline == mode = "edit" /\ ~dirty => lines = baseline

\* Saving only replaces a change of another process that came after the check.
SaveDetectsConflict ==
    [][SaveRenames => disk = baseline \/ raced]_vars

----------------------------------------------------------------------------------
(* What documents and comments say and the code does not keep: see the README.    *)

\* after_edit, "清空 redo 栈" (the redo stack is cleared): what can be redone is
\* the text that was undone.
RedoFitsText == mode = "edit" /\ redo # <<>> => RedoFits

\* "已保存：快照是旧的，退出后重载预览" (once saved, the snapshot is old and leaving
\* reloads the preview): while nobody else writes the file, it is shown as it is.
ExitShowsFile ==
    [][mode = "edit" /\ mode' = "preview" /\ foreign = 0 => lines' = disk]_vars

\* caret_before is "编辑前 caret" (the caret before the edit), so undoing an edit puts
\* the caret at a position of the text it brings back.
CaretInBuffer == mode = "edit" => caret \in Points
==================================================================================
