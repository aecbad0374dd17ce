--------------------------- MODULE EditSessionProofs ---------------------------
(* What holds of an edit session for every file, every keyboard input and every *)
(* writer beside it.  The first two invariants are inductive as they stand; that *)
(* undo leads back needs the counts of lines of everything that can be redone.   *)
(* Then what holds of the UI around it, for any number of tabs.                  *)
EXTENDS EditSession, AppShell, SequenceTheorems, TLAPS

----------------------------------------------------------------------------------
(* An unmodified session *)

LEMMA UnmodifiedInit == Init => UnmodifiedIsBaseline
BY DEF Init, UnmodifiedIsBaseline

\* Every key either marks the session modified or leaves the text, the flag and the
\* baseline alone; beginning and saving make text and baseline equal.
LEMMA UnmodifiedStep == UnmodifiedIsBaseline /\ [Next]_vars => UnmodifiedIsBaseline'
<1> SUFFICES ASSUME UnmodifiedIsBaseline, [Next]_vars PROVE UnmodifiedIsBaseline'
  OBVIOUS
<1> USE DEF UnmodifiedIsBaseline
<1>from. ASSUME NEW text, NEW stack, NEW texts, NEW d, EditFrom(text, stack, texts, d)
         PROVE  dirty' = TRUE
  BY <1>from DEF EditFrom
<1>edit. ASSUME NEW d, Edit(d) PROVE dirty' = TRUE
  BY <1>edit, <1>from DEF Edit
<1>small. ASSUME NEW d, SmallEdit(d) PROVE dirty' = TRUE
  BY <1>small, <1>edit DEF SmallEdit
<1>1. ASSUME NEW c \in Chars, InsertChar(c) PROVE dirty' = TRUE
  BY <1>1, <1>edit, <1>small DEF InsertChar
<1>2. ASSUME NEW parts, InsertLines(parts) PROVE dirty' = TRUE
  BY <1>2, <1>edit, <1>from DEF InsertLines
<1>3. CASE Backspace
  BY <1>3, <1>edit, <1>small DEF Backspace
<1>4. CASE Delete
  BY <1>4, <1>edit, <1>small DEF Delete
<1>5. CASE CutSelection
  BY <1>5, <1>edit DEF CutSelection
<1>6. CASE Indent
  BY <1>6, <1>edit DEF Indent
<1>7. CASE Undo \/ Redo
  BY <1>7 DEF Undo, Redo, UndoDirty
<1>8. ASSUME NEW p \in Points, NEW extend \in BOOLEAN, MoveCaret(p, extend)
      PROVE UnmodifiedIsBaseline'
  BY <1>8 DEF MoveCaret, TextKey, Key
<1>9. CASE Begin
  BY <1>9 DEF Begin
<1>10. CASE Escape
  BY <1>10 DEF Escape, NoSession
<1>11. CASE SaveChecks \/ SaveConflicts
  BY <1>11 DEF SaveChecks, SaveConflicts, Key
<1>12. CASE SaveRenames
  BY <1>12 DEF SaveRenames
<1>13. CASE SaveWritesTemporary \/ SaveFails \/ Tick \/ OtherProcessWrites
  BY <1>13 DEF SaveWritesTemporary, SaveFails, Tick, OtherProcessWrites, session
<1>14. CASE UNCHANGED vars
  BY <1>14 DEF vars, session
<1> QED
  BY <1>1, <1>2, <1>3, <1>4, <1>5, <1>6, <1>7, <1>8, <1>9, <1>10, <1>11, <1>12, <1>13,
     <1>14 DEF Next, InsertNewline, Paste

\* Esc leaves an unmodified session without asking (handle_edit_key); nothing that
\* was typed is lost by it, because the text is the one read or saved last.
THEOREM NothingTypedIsLost == Spec => []UnmodifiedIsBaseline
BY UnmodifiedInit, UnmodifiedStep, PTL DEF Spec

----------------------------------------------------------------------------------
(* Conflict detection *)

\* Between the check of a save and its end the file is the one that was checked, or
\* another process has written it since.
SaveInv == saving # "no" => disk = baseline \/ raced

LEMMA SaveInit == Init => SaveInv
BY DEF Init, SaveInv

LEMMA SaveStep == SaveInv /\ [Next]_vars => SaveInv'
<1> SUFFICES ASSUME SaveInv, [Next]_vars PROVE SaveInv'
  OBVIOUS
<1> USE DEF SaveInv
<1>1. ASSUME Key PROVE SaveInv'
  BY <1>1 DEF Key, Editing
<1>2. ASSUME NEW c \in Chars, InsertChar(c) PROVE Key
  BY <1>2 DEF InsertChar, TextKey
<1>3. ASSUME NEW parts, InsertLines(parts) PROVE Key
  BY <1>3 DEF InsertLines, TextKey
<1>4. CASE Backspace \/ Delete \/ CutSelection \/ Indent \/ Undo \/ Redo
  BY <1>1, <1>4 DEF Backspace, Delete, CutSelection, Indent, Undo, Redo, TextKey
<1>5. ASSUME NEW p \in Points, NEW extend \in BOOLEAN, MoveCaret(p, extend) PROVE Key
  BY <1>5 DEF MoveCaret, TextKey
<1>6. CASE Begin \/ Escape
  BY <1>6 DEF Begin, Escape, Editing, NoSession
<1>7. CASE SaveChecks \/ SaveConflicts
  BY <1>1, <1>7 DEF SaveChecks, SaveConflicts, FileUnchanged
<1>8. CASE SaveWritesTemporary \/ SaveRenames \/ SaveFails
  BY <1>8 DEF SaveWritesTemporary, SaveRenames, SaveFails, history
<1>9. CASE Tick \/ OtherProcessWrites
  BY <1>9 DEF Tick, OtherProcessWrites, history
<1>10. CASE UNCHANGED vars
  BY <1>10 DEF vars, history
<1> QED
  BY <1>1, <1>2, <1>3, <1>4, <1>5, <1>6, <1>7, <1>8, <1>9, <1>10
     DEF Next, InsertNewline, Paste

\* save (conflict detection, then an atomic replacement) overwrites what another
\* process wrote only if it was written between the two.
THEOREM SaveOverwritesNoConflict == Spec => SaveDetectsConflict
<1>1. SaveInv /\ [Next]_vars => [SaveRenames => disk = baseline \/ raced]_vars
  BY DEF SaveInv, SaveRenames
<1> QED
  BY <1>1, SaveInit, SaveStep, PTL DEF Spec, SaveDetectsConflict

----------------------------------------------------------------------------------
(* Spliced texts *)

\* What a spliced text is: its length and its lines.
IsSpliced(S, r, text, start, n, new) ==
    /\ r \in Seq(S)
    /\ Len(r) = Len(text) - n + Len(new)
    /\ \A i \in 1 .. Len(text) - n + Len(new) :
           r[i] = IF i < start THEN text[i]
                  ELSE IF i < start + Len(new) THEN new[i - start + 1]
                  ELSE text[i - Len(new) + n]

LEMMA Spliced ==
    ASSUME NEW S, NEW text \in Seq(S), NEW new \in Seq(S), NEW start \in Nat, 1 <= start,
           NEW n \in Nat, start - 1 + n <= Len(text)
    PROVE  IsSpliced(S, Splice(text, start, n, new), text, start, n, new)
<1> DEFINE a == SubSeq(text, 1, start - 1)
           b == SubSeq(text, start + n, Len(text))
           t == Len(text)
           m == Len(new)
<1>1. t \in Nat /\ m \in Nat /\ start - 1 + n <= t
  OBVIOUS
<1>2. \A i \in 1 .. t : text[i] \in S
  OBVIOUS
<1>3. /\ a \in Seq(S) /\ Len(a) = start - 1
      /\ \A i \in 1 .. start - 1 : a[i] = text[i]
  <2>1. \A i \in 1 .. start - 1 : text[i] \in S
    BY <1>1, <1>2
  <2> QED
    BY <2>1, SubSeqProperties
<1>4. /\ b \in Seq(S) /\ Len(b) = t - n - start + 1
      /\ \A i \in 1 .. t - n - start + 1 : b[i] = text[start + n + i - 1]
  <2>1. \A i \in start + n .. t : text[i] \in S
    BY <1>1, <1>2
  <2>2. start + n \in Int /\ t \in Int
    BY <1>1
  <2>3. /\ SubSeq(text, start + n, t) \in Seq(S)
        /\ Len(SubSeq(text, start + n, t)) = IF start + n <= t THEN t - (start + n) + 1 ELSE 0
        /\ \A i \in 1 .. t - (start + n) + 1 :
               SubSeq(text, start + n, t)[i] = text[start + n + i - 1]
    BY <2>1, <2>2, SubSeqProperties
  <2> QED
    BY SMTT(40), <1>1, <2>3
<1> DEFINE c == a \o new
           r == c \o b
<1> HIDE DEF a, b, t, m, c, r
<1>5. /\ c \in Seq(S) /\ Len(c) = start - 1 + m
      /\ \A i \in 1 .. start - 1 + m : c[i] = IF i <= start - 1 THEN a[i] ELSE new[i - start + 1]
  <2>1. /\ c \in Seq(S) /\ Len(c) = Len(a) + Len(new)
        /\ \A i \in 1 .. Len(a) + Len(new) : c[i] =
               IF i <= Len(a) THEN a[i] ELSE new[i - Len(a)]
    BY <1>3, ConcatProperties DEF c
  <2>2. \A i \in 1 .. start - 1 + m : i - (start - 1) = i - start + 1
    BY <1>1
  <2> QED
    BY <1>3, <2>1, <2>2 DEF m
<1>6. /\ r \in Seq(S) /\ Len(r) = t - n + m
      /\ \A i \in 1 .. t - n + m : r[i] =
             IF i <= start - 1 + m THEN c[i] ELSE b[i - (start - 1 + m)]
  <2>1. /\ r \in Seq(S) /\ Len(r) = Len(c) + Len(b)
        /\ \A i \in 1 .. Len(c) + Len(b) : r[i] =
               IF i <= Len(c) THEN c[i] ELSE b[i - Len(c)]
    BY <1>4, <1>5, ConcatProperties DEF r
  <2>2. Len(c) + Len(b) = t - n + m
    BY <1>1, <1>4, <1>5
  <2> QED
    BY <1>5, <2>1, <2>2
<1>7. Splice(text, start, n, new) = r
  BY DEF Splice, a, b, c, r, t
<1>8. ASSUME NEW i \in 1 .. t - n + m
      PROVE  r[i] = IF i < start THEN text[i]
                    ELSE IF i < start + m THEN new[i - start + 1]
                    ELSE text[i - m + n]
  <2>1. CASE i < start
    <3>1. r[i] = c[i] /\ c[i] = a[i] /\ a[i] = text[i]
      BY SMTT(40), <1>1, <1>3, <1>5, <1>6, <2>1
    <3> QED
      BY <2>1, <3>1
  <2>2. CASE start <= i /\ i < start + m
    <3>1. r[i] = c[i] /\ c[i] = new[i - start + 1]
      BY <1>1, <1>5, <1>6, <2>2
    <3>2. ~(i < start)
      BY <1>1, <2>2
    <3> QED
      BY <2>2, <3>1, <3>2
  <2>3. CASE start + m <= i
    <3>1. r[i] = b[i - (start - 1 + m)]
      BY <1>1, <1>6, <2>3
    <3>2. i - (start - 1 + m) \in 1 .. t - n - start + 1
      BY <1>1, <2>3
    <3>3. b[i - (start - 1 + m)] = text[start + n + (i - (start - 1 + m)) - 1]
      BY <1>4, <3>2
    <3>4. start + n + (i - (start - 1 + m)) - 1 = i - m + n
      BY <1>1
    <3>5. ~(i < start) /\ ~(i < start + m)
      BY <1>1, <2>3
    <3> QED
      BY <3>1, <3>3, <3>4, <3>5
  <2>4. i < start \/ (start <= i /\ i < start + m) \/ start + m <= i
    BY <1>1
  <2> QED
    BY <2>1, <2>2, <2>3, <2>4
<1> QED
  BY <1>6, <1>7, <1>8 DEF t, m, IsSpliced

\* Only the second of two texts spliced in at the same place is seen.
LEMMA SplicedTwice ==
    ASSUME NEW S, NEW text \in Seq(S), NEW new \in Seq(S), NEW other \in Seq(S),
           NEW start \in Nat, 1 <= start, NEW n \in Nat, start - 1 + n <= Len(text)
    PROVE  Splice(Splice(text, start, n, new), start, Len(new), other)
             = Splice(text, start, n, other)
<1> DEFINE t == Len(text)
           m == Len(new)
           o == Len(other)
           once == Splice(text, start, n, new)
           twice == Splice(once, start, m, other)
           direct == Splice(text, start, n, other)
<1>1. t \in Nat /\ m \in Nat /\ o \in Nat /\ start - 1 + n <= t
  OBVIOUS
<1>2. IsSpliced(S, once, text, start, n, new) /\ IsSpliced(S, direct, text, start, n, other)
  BY Spliced
<1> HIDE DEF once, direct
<1>3. once \in Seq(S) /\ m \in Nat /\ start - 1 + m <= Len(once)
  BY <1>1, <1>2 DEF IsSpliced
<1>4. IsSpliced(S, twice, once, start, m, other)
  <2> HIDE DEF m
  <2> QED
    BY <1>3, Spliced
<1> HIDE DEF twice
<1>5. /\ Len(once) = t - n + m
      /\ \A i \in 1 .. t - n + m : once[i] =
             IF i < start THEN text[i] ELSE IF i < start + m THEN new[i - start + 1]
             ELSE text[i - m + n]
  BY <1>2 DEF IsSpliced
<1>6. /\ direct \in Seq(S) /\ Len(direct) = t - n + o
      /\ \A i \in 1 .. t - n + o : direct[i] =
             IF i < start THEN text[i] ELSE IF i < start + o THEN other[i - start + 1]
             ELSE text[i - o + n]
  BY <1>2 DEF IsSpliced
<1>7. /\ twice \in Seq(S) /\ Len(twice) = t - n + o
      /\ \A i \in 1 .. t - n + o : twice[i] =
             IF i < start THEN once[i] ELSE IF i < start + o THEN other[i - start + 1]
             ELSE once[i - o + m]
  <2>1. /\ twice \in Seq(S) /\ Len(twice) = Len(once) - m + o
        /\ \A i \in 1 .. Len(once) - m + o : twice[i] =
               IF i < start THEN once[i] ELSE IF i < start + o THEN other[i - start + 1]
               ELSE once[i - o + m]
    BY <1>4 DEF IsSpliced
  <2>2. Len(once) - m + o = t - n + o
    BY <1>1, <1>5
  <2> QED
    BY <2>1, <2>2
<1> HIDE DEF t, m, o
<1>8. ASSUME NEW i \in 1 .. t - n + o PROVE twice[i] = direct[i]
  <2>1. CASE i < start
    <3>1. i \in 1 .. t - n + m
      BY <1>1, <2>1
    <3> QED
      BY <1>5, <1>6, <1>7, <2>1, <3>1
  <2>2. CASE ~(i < start) /\ i < start + o
    BY <1>6, <1>7, <2>2
  <2>3. CASE ~(i < start) /\ ~(i < start + o)
    <3>1. twice[i] = once[i - o + m] /\ direct[i] = text[i - o + n]
      BY <1>6, <1>7, <2>3
    <3>2. /\ i - o + m \in 1 .. t - n + m
          /\ ~(i - o + m < start) /\ ~(i - o + m < start + m)
          /\ (i - o + m) - m + n = i - o + n
      BY <1>1, <2>3
    <3> DEFINE k == i - o + m
    <3> HIDE DEF k
    <3>3. once[k] = text[k - m + n]
      BY <1>5, <3>2 DEF k
    <3> QED
      BY <3>1, <3>2, <3>3 DEF k
  <2> QED
    BY <2>1, <2>2, <2>3
<1>9. twice = direct
  BY <1>6, <1>7, <1>8, SeqEqual
<1> QED
  BY <1>9 DEF twice, once, direct, m

\* Splicing in what is there changes nothing.
LEMMA SplicedAsIs ==
    ASSUME NEW S, NEW text \in Seq(S), NEW start \in Nat, 1 <= start, NEW old \in Seq(S),
           start - 1 + Len(old) <= Len(text),
           old = SubSeq(text, start, start + Len(old) - 1)
    PROVE  Splice(text, start, Len(old), old) = text
<1> DEFINE t == Len(text)
           n == Len(old)
           s == Splice(text, start, n, old)
<1>1. t \in Nat /\ n \in Nat /\ start - 1 + n <= t
  OBVIOUS
<1>2. \A i \in 1 .. n : old[i] = text[start + i - 1]
  <2>1. \A i \in start .. start + n - 1 : text[i] \in S
    BY <1>1
  <2>2. start \in Int /\ start + n - 1 \in Int
    BY <1>1
  <2>3. \A i \in 1 .. (start + n - 1) - start + 1 :
            SubSeq(text, start, start + n - 1)[i] = text[start + i - 1]
    BY <2>1, <2>2, SubSeqProperties
  <2> QED
    BY <1>1, <2>3
<1>3. IsSpliced(S, s, text, start, n, old)
  BY Spliced
<1> HIDE DEF s
<1>4. /\ s \in Seq(S) /\ Len(s) = t
      /\ \A i \in 1 .. t : s[i] =
             IF i < start THEN text[i] ELSE IF i < start + n THEN old[i - start + 1]
             ELSE text[i - n + n]
  <2>1. t - n + n = t
    BY <1>1
  <2> QED
    BY <1>3, <2>1 DEF IsSpliced
<1> HIDE DEF t, n
<1>5. ASSUME NEW i \in 1 .. t PROVE s[i] = text[i]
  <2>1. CASE ~(i < start) /\ i < start + n
    <3>1. i - start + 1 \in 1 .. n /\ start + (i - start + 1) - 1 = i
      BY <1>1, <2>1
    <3>2. s[i] = old[i - start + 1]
      BY <1>4, <2>1
    <3> DEFINE k == i - start + 1
    <3> HIDE DEF k
    <3>3. old[k] = text[start + k - 1]
      BY <1>2, <3>1 DEF k
    <3> QED
      BY <3>1, <3>2, <3>3 DEF k
  <2>2. CASE i < start \/ ~(i < start + n)
    <3>1. i - n + n = i
      BY <1>1
    <3> QED
      BY <1>4, <2>2, <3>1
  <2> QED
    BY <2>1, <2>2
<1>6. s = text
  BY <1>4, <1>5, SeqEqual DEF t
<1> QED
  BY <1>6 DEF s, n

----------------------------------------------------------------------------------
Line == Seq(Chars \cup {TabChar})
NonEmpty == Text \ {<<>>}

\* How many lines a delta takes and gives, between a text and the next one.
Counts(s, d, t) ==
    /\ 1 <= d.start /\ 1 <= Len(d.old) /\ 1 <= Len(d.new)
    /\ d.start - 1 + Len(d.old) <= Len(s)
    /\ Len(t) = Len(s) - Len(d.old) + Len(d.new)
    /\ d.coalescible => Len(d.old) = 1 /\ Len(d.new) = 1

\* A delta that fits a text.
FitsText(text, d) ==
    /\ d \in Delta
    /\ 1 <= d.start /\ 1 <= Len(d.old) /\ 1 <= Len(d.new)
    /\ d.start - 1 + Len(d.old) <= Len(text)
    /\ d.old = SubSeq(text, d.start, d.start + Len(d.old) - 1)
    /\ d.coalescible => Len(d.old) = 1 /\ Len(d.new) = 1

LEMMA DeltaParts ==
    ASSUME NEW d \in Delta
    PROVE  /\ d.start \in Nat /\ d.old \in Text /\ d.new \in Text
           /\ Len(d.old) \in Nat /\ Len(d.new) \in Nat
           /\ d.before \in Point /\ d.after \in Point /\ d.time \in Nat
           /\ d.coalescible \in BOOLEAN
<1>1. d.old \in Text /\ d.new \in Text
  BY DEF Delta
<1>2. Len(d.old) \in Nat /\ Len(d.new) \in Nat
  BY <1>1, LenProperties DEF Text
<1> QED
  BY <1>1, <1>2 DEF Delta

LEMMA NonEmptyText == \A t : t \in NonEmpty <=> t \in Text /\ 1 <= Len(t)
<1>1. ASSUME NEW t \in Text PROVE t # <<>> <=> 1 <= Len(t)
  BY EmptySeq, <1>1 DEF Text
<1> QED
  BY <1>1 DEF NonEmpty

\* Applying a delta gives and takes the lines that it counts.
LEMMA Applied ==
    ASSUME NEW text \in Text, NEW d \in Delta, 1 <= d.start, 1 <= Len(d.new),
           d.start - 1 + Len(d.old) <= Len(text)
    PROVE  /\ Apply(text, d) \in NonEmpty
           /\ Len(Apply(text, d)) = Len(text) - Len(d.old) + Len(d.new)
<1>1. IsSpliced(Line, Apply(text, d), text, d.start, Len(d.old), d.new)
  BY DeltaParts, Spliced DEF Apply, Text, Line
<1>2. /\ Apply(text, d) \in Text
      /\ Len(Apply(text, d)) = Len(text) - Len(d.old) + Len(d.new)
  BY <1>1 DEF IsSpliced, Text, Line
<1>3. Len(text) \in Nat
  BY DEF Text
<1> QED
  BY <1>2, <1>3, DeltaParts, NonEmptyText

LEMMA Reverting ==
    ASSUME NEW text \in Text, NEW d \in Delta, 1 <= d.start, 1 <= Len(d.old),
           d.start - 1 + Len(d.new) <= Len(text)
    PROVE  /\ Revert(text, d) \in NonEmpty
           /\ Len(Revert(text, d)) = Len(text) - Len(d.new) + Len(d.old)
<1>1. IsSpliced(Line, Revert(text, d), text, d.start, Len(d.new), d.old)
  BY DeltaParts, Spliced DEF Revert, Text, Line
<1>2. /\ Revert(text, d) \in Text
      /\ Len(Revert(text, d)) = Len(text) - Len(d.new) + Len(d.old)
  BY <1>1 DEF IsSpliced, Text, Line
<1>3. Len(text) \in Nat
  BY DEF Text
<1> QED
  BY <1>2, <1>3, DeltaParts, NonEmptyText

\* Reverting a delta that fitted gives the text back.
LEMMA ApplyRevert ==
    ASSUME NEW text \in Text, NEW d, FitsText(text, d)
    PROVE  /\ Apply(text, d) \in NonEmpty
           /\ Counts(text, d, Apply(text, d))
           /\ Revert(Apply(text, d), d) = text
<1>1. d \in Delta /\ 1 <= d.start /\ 1 <= Len(d.new) /\ d.start - 1 + Len(d.old) <= Len(text)
  BY DEF FitsText
<1>2. /\ Apply(text, d) \in NonEmpty
      /\ Len(Apply(text, d)) = Len(text) - Len(d.old) + Len(d.new)
  BY <1>1, Applied
<1>3. Counts(text, d, Apply(text, d))
  BY <1>1, <1>2 DEF Counts, FitsText
<1>4. text \in Seq(Line) /\ d.new \in Seq(Line) /\ d.old \in Seq(Line) /\ Len(d.old) \in Nat
      /\ d.start \in Nat
  BY <1>1, DeltaParts DEF Text, Line
<1>5. Revert(Apply(text, d), d) = Splice(text, d.start, Len(d.old), d.old)
  BY <1>1, <1>4, SplicedTwice DEF Apply, Revert
<1>6. Splice(text, d.start, Len(d.old), d.old) = text
  BY <1>1, <1>4, SplicedAsIs DEF FitsText
<1> QED
  BY <1>2, <1>3, <1>5, <1>6

----------------------------------------------------------------------------------
(* The trail *)

\* The line counts of the texts that the stacks lead through, of which the current
\* one has as many lines as text.
Chain(texts, past, future, text) ==
    /\ past \in Seq(Delta) /\ future \in Seq(Delta)
    /\ texts \in Seq(NonEmpty) /\ text \in NonEmpty
    /\ Len(texts) = Len(past) + Len(future) + 1
    /\ Len(text) = Len(texts[Len(past) + 1])
    /\ \A i \in 1 .. Len(past) : Counts(texts[i], past[i], texts[i + 1])
    /\ \A j \in 1 .. Len(future) :
           Counts(texts[Len(texts) - j], future[j], texts[Len(texts) - j + 1])

\* Undoing leads back through the texts to the first one.
LeadsBack(texts, past, text) ==
    /\ text = texts[Len(past) + 1]
    /\ \A i \in DOMAIN past : Revert(texts[i + 1], past[i]) = texts[i]

\* An edit.
LEMMA ChainAppend ==
    ASSUME NEW texts, NEW past, NEW future, NEW text, NEW d,
           Chain(texts, past, future, text), FitsText(text, d)
    PROVE  LET all == Append(SubSeq(texts, 1, Len(past) + 1), Apply(text, d))
           IN  /\ Chain(all, Append(past, d), <<>>, Apply(text, d))
               /\ LeadsBack(texts, past, text)
                    => LeadsBack(all, Append(past, d), Apply(text, d))
<1> DEFINE n == Len(past)
           kept == SubSeq(texts, 1, n + 1)
           next == Apply(text, d)
           all == Append(kept, next)
           stack == Append(past, d)
<1>1. /\ past \in Seq(Delta) /\ texts \in Seq(NonEmpty) /\ n \in Nat
      /\ text \in Text /\ Len(text) = Len(texts[n + 1]) /\ d \in Delta
      /\ n + 1 <= Len(texts) /\ Len(texts) \in Nat
  BY DEF Chain, NonEmpty, FitsText
<1>2. next \in NonEmpty /\ Counts(text, d, next) /\ Revert(next, d) = text
  BY <1>1, ApplyRevert
<1>3. /\ kept \in Seq(NonEmpty) /\ Len(kept) = n + 1
      /\ \A i \in 1 .. n + 1 : kept[i] = texts[i]
  <2>1. \A i \in 1 .. n + 1 : texts[i] \in NonEmpty
    BY <1>1
  <2>2. /\ SubSeq(texts, 1, n + 1) \in Seq(NonEmpty)
        /\ Len(SubSeq(texts, 1, n + 1)) = IF 1 <= n + 1 THEN n + 1 - 1 + 1 ELSE 0
        /\ \A i \in 1 .. n + 1 - 1 + 1 : SubSeq(texts, 1, n + 1)[i] = texts[1 + i - 1]
    BY <1>1, <2>1, SubSeqProperties
  <2> QED
    BY <1>1, <2>2
<1> HIDE DEF kept, next
<1>4. /\ all \in Seq(NonEmpty) /\ Len(all) = n + 2 /\ all[n + 2] = next
      /\ \A i \in 1 .. n + 1 : all[i] = texts[i]
  <2>1. /\ all \in Seq(NonEmpty) /\ Len(all) = Len(kept) + 1 /\ all[Len(kept) + 1] = next
        /\ \A i \in 1 .. Len(kept) : all[i] = kept[i]
    BY <1>2, <1>3, AppendProperties
  <2> QED
    BY <1>1, <1>3, <2>1
<1>5. /\ stack \in Seq(Delta) /\ Len(stack) = n + 1 /\ stack[n + 1] = d
      /\ \A i \in 1 .. n : stack[i] = past[i]
  BY <1>1, AppendProperties
<1> HIDE DEF all, stack, n
<1>6. ASSUME NEW i \in 1 .. n + 1 PROVE Counts(all[i], stack[i], all[i + 1])
  <2>1. CASE i = n + 1
    <3>1. all[i] = texts[n + 1] /\ stack[i] = d /\ all[i + 1] = next
      BY <1>1, <1>4, <1>5, <2>1
    <3> QED
      BY <1>1, <1>2, <3>1 DEF Counts
  <2>2. CASE i \in 1 .. n
    <3>1. all[i] = texts[i] /\ stack[i] = past[i] /\ all[i + 1] = texts[i + 1]
      BY <1>1, <1>4, <1>5, <2>2
    <3> QED
      BY <2>2, <3>1 DEF Chain, n
  <2> QED
    BY <1>1, <2>1, <2>2
<1>7. Chain(all, stack, <<>>, next)
  <2>1. <<>> \in Seq(Delta) /\ Len(<<>>) = 0
    OBVIOUS
  <2>2. Len(all) = Len(stack) + 0 + 1 /\ Len(stack) + 1 = n + 2
    BY <1>1, <1>4, <1>5
  <2> QED
    BY <1>2, <1>4, <1>5, <1>6, <2>1, <2>2 DEF Chain
<1>8. ASSUME LeadsBack(texts, past, text) PROVE LeadsBack(all, stack, next)
  <2>1. text = texts[n + 1] /\ \A i \in 1 .. n : Revert(texts[i + 1], past[i]) = texts[i]
    BY <1>1, <1>8 DEF LeadsBack, n
  <2>2. ASSUME NEW i \in 1 .. n + 1 PROVE Revert(all[i + 1], stack[i]) = all[i]
    <3>1. CASE i = n + 1
      BY <1>1, <1>2, <1>4, <1>5, <2>1, <3>1
    <3>2. CASE i \in 1 .. n
      <4>1. all[i] = texts[i] /\ stack[i] = past[i] /\ all[i + 1] = texts[i + 1]
        BY <1>1, <1>4, <1>5, <3>2
      <4> QED
        BY <2>1, <3>2, <4>1
    <3> QED
      BY <1>1, <3>1, <3>2
  <2>3. DOMAIN stack = 1 .. n + 1 /\ Len(stack) + 1 = n + 2
    BY <1>1, <1>5
  <2> QED
    BY <1>4, <2>2, <2>3 DEF LeadsBack
<1> QED
  BY <1>7, <1>8 DEF all, stack, next, kept, n

\* The oldest delta goes.
LEMMA ChainTail ==
    ASSUME NEW texts, NEW past, NEW text, Chain(texts, past, <<>>, text), 1 <= Len(past)
    PROVE  /\ Chain(Tail(texts), Tail(past), <<>>, text)
           /\ Len(Tail(past)) = Len(past) - 1
           /\ LeadsBack(texts, past, text) => LeadsBack(Tail(texts), Tail(past), text)
<1> DEFINE n == Len(past)
           rest == Tail(texts)
           stack == Tail(past)
<1>1. /\ past \in Seq(Delta) /\ texts \in Seq(NonEmpty) /\ n \in Nat /\ 1 <= n
      /\ text \in NonEmpty /\ Len(text) = Len(texts[n + 1])
      /\ Len(texts) = n + 1
      /\ \A i \in 1 .. n : Counts(texts[i], past[i], texts[i + 1])
  BY EmptySeq DEF Chain
<1>2. /\ rest \in Seq(NonEmpty) /\ Len(rest) = n
      /\ \A i \in 1 .. n : rest[i] = texts[i + 1]
  <2>1. texts # <<>>
    BY <1>1, EmptySeq
  <2>2. /\ rest \in Seq(NonEmpty) /\ Len(rest) = Len(texts) - 1
        /\ \A i \in 1 .. Len(rest) : rest[i] = texts[i + 1]
    BY <1>1, <2>1, HeadTailProperties
  <2> QED
    BY <1>1, <2>2
<1>3. /\ stack \in Seq(Delta) /\ Len(stack) = n - 1
      /\ \A i \in 1 .. n - 1 : stack[i] = past[i + 1]
  <2>1. past # <<>>
    BY <1>1, EmptySeq
  <2>2. /\ stack \in Seq(Delta) /\ Len(stack) = Len(past) - 1
        /\ \A i \in 1 .. Len(stack) : stack[i] = past[i + 1]
    BY <1>1, <2>1, HeadTailProperties
  <2> QED
    BY <1>1, <2>2
<1> HIDE DEF rest, stack, n
<1>4. Chain(rest, stack, <<>>, text)
  <2>1. <<>> \in Seq(Delta) /\ Len(<<>>) = 0
    OBVIOUS
  <2>2. Len(rest) = Len(stack) + 0 + 1 /\ Len(stack) + 1 = n
    BY <1>1, <1>2, <1>3
  <2>3. ASSUME NEW i \in 1 .. n - 1 PROVE Counts(rest[i], stack[i], rest[i + 1])
    <3>1. i + 1 \in 1 .. n /\ i \in 1 .. n
      BY <1>1
    <3> QED
      BY <1>1, <1>2, <1>3, <3>1
  <2>4. rest[n] = texts[n + 1]
    BY <1>1, <1>2
  <2> QED
    BY <1>1, <1>2, <1>3, <2>1, <2>2, <2>3, <2>4 DEF Chain
<1>5. ASSUME LeadsBack(texts, past, text) PROVE LeadsBack(rest, stack, text)
  <2>1. text = texts[n + 1] /\ \A i \in 1 .. n : Revert(texts[i + 1], past[i]) = texts[i]
    BY <1>1, <1>5 DEF LeadsBack, n
  <2>2. ASSUME NEW i \in 1 .. n - 1 PROVE Revert(rest[i + 1], stack[i]) = rest[i]
    <3>1. i + 1 \in 1 .. n /\ i \in 1 .. n
      BY <1>1
    <3> QED
      BY <1>2, <1>3, <2>1, <3>1
  <2>3. DOMAIN stack = 1 .. n - 1 /\ Len(stack) + 1 = n
    BY <1>1, <1>3
  <2>4. rest[n] = texts[n + 1]
    BY <1>1, <1>2
  <2> QED
    BY <2>1, <2>2, <2>3, <2>4 DEF LeadsBack
<1> QED
  BY <1>3, <1>4, <1>5 DEF rest, stack, n

\* push_delta with its limit.
LEMMA Pushed ==
    ASSUME NEW texts, NEW past, NEW future, NEW text, NEW d,
           Chain(texts, past, future, text), FitsText(text, d), Len(past) <= MaxUndo
    PROVE  LET next == Followed(texts, past, Apply(text, d))
               stack == PushDelta(past, d)
           IN  /\ Chain(next, stack, <<>>, Apply(text, d))
               /\ Len(stack) <= MaxUndo
               /\ LeadsBack(texts, past, text) => LeadsBack(next, stack, Apply(text, d))
<1> DEFINE all == Append(SubSeq(texts, 1, Len(past) + 1), Apply(text, d))
           stack == Append(past, d)
<1>1. past \in Seq(Delta) /\ d \in Delta /\ Len(past) \in Nat
  BY DEF Chain, FitsText
<1>2. Len(stack) = Len(past) + 1
  BY <1>1, AppendProperties
<1>3. /\ Chain(all, stack, <<>>, Apply(text, d))
      /\ LeadsBack(texts, past, text) => LeadsBack(all, stack, Apply(text, d))
  BY ChainAppend
<1>4. MaxUndo \in Nat /\ 1 <= MaxUndo
  BY BoundAssumption
<1> HIDE DEF all, stack
<1>5. CASE Len(past) >= MaxUndo
  <2>1. /\ Chain(Tail(all), Tail(stack), <<>>, Apply(text, d))
        /\ Len(Tail(stack)) = Len(stack) - 1
        /\ LeadsBack(all, stack, Apply(text, d))
             => LeadsBack(Tail(all), Tail(stack), Apply(text, d))
    BY <1>1, <1>2, <1>3, ChainTail
  <2>2. Followed(texts, past, Apply(text, d)) = Tail(all) /\ PushDelta(past, d) = Tail(stack)
    BY <1>5 DEF Followed, PushDelta, all, stack
  <2> QED
    BY <1>1, <1>2, <1>3, <2>1, <2>2
<1>6. CASE ~(Len(past) >= MaxUndo)
  <2>1. Followed(texts, past, Apply(text, d)) = all /\ PushDelta(past, d) = stack
    BY <1>6 DEF Followed, PushDelta, all, stack
  <2>2. Len(stack) <= MaxUndo
    BY <1>1, <1>2, <1>4, <1>6
  <2> QED
    BY <1>3, <2>1, <2>2
<1> QED
  BY <1>5, <1>6

\* undo.
LEMMA ChainUndo ==
    ASSUME NEW texts, NEW past, NEW future, NEW text,
           Chain(texts, past, future, text), past # <<>>
    PROVE  LET d == Last(past)
           IN  /\ d \in Delta
               /\ Chain(texts, Front(past), Append(future, d), Revert(text, d))
               /\ Len(Front(past)) + Len(Append(future, d)) = Len(past) + Len(future)
               /\ LeadsBack(texts, past, text) => LeadsBack(texts, Front(past), Revert(text, d))
<1> DEFINE n == Len(past)
           f == Len(future)
           d == past[n]
           front == SubSeq(past, 1, n - 1)
           more == Append(future, d)
           back == Revert(text, d)
<1>1. /\ past \in Seq(Delta) /\ future \in Seq(Delta) /\ texts \in Seq(NonEmpty)
      /\ n \in Nat /\ f \in Nat /\ 1 <= n /\ Len(texts) = n + f + 1
      /\ text \in NonEmpty /\ Len(text) = Len(texts[n + 1])
      /\ \A i \in 1 .. n : Counts(texts[i], past[i], texts[i + 1])
      /\ \A j \in 1 .. f : Counts(texts[Len(texts) - j], future[j], texts[Len(texts) - j + 1])
  BY EmptySeq DEF Chain
<1>2. Last(past) = d /\ Front(past) = front
  BY DEF Last, Front
<1> HIDE DEF n, f
<1>3. d \in Delta /\ Counts(texts[n], d, texts[n + 1])
  BY <1>1 DEF n
<1>4. /\ front \in Seq(Delta) /\ Len(front) = n - 1
      /\ \A i \in 1 .. n - 1 : front[i] = past[i]
  <2>1. \A i \in 1 .. n - 1 : past[i] \in Delta
    BY <1>1 DEF n
  <2>2. /\ SubSeq(past, 1, n - 1) \in Seq(Delta)
        /\ Len(SubSeq(past, 1, n - 1)) = IF 1 <= n - 1 THEN (n - 1) - 1 + 1 ELSE 0
        /\ \A i \in 1 .. (n - 1) - 1 + 1 : SubSeq(past, 1, n - 1)[i] = past[1 + i - 1]
    BY <1>1, <2>1, SubSeqProperties
  <2> QED
    BY <1>1, <2>2
<1>5. /\ more \in Seq(Delta) /\ Len(more) = f + 1 /\ more[f + 1] = d
      /\ \A j \in 1 .. f : more[j] = future[j]
  BY <1>1, <1>3, AppendProperties DEF f
<1> HIDE DEF d
<1>6. back \in NonEmpty /\ Len(back) = Len(texts[n])
  <2> DEFINE s == texts[n]
  <2>1. text \in Text /\ s \in Text /\ Len(s) \in Nat
    <3>1. n \in 1 .. Len(texts)
      BY <1>1
    <3>2. s \in NonEmpty
      BY <1>1, <3>1
    <3> QED
      BY <1>1, <3>2 DEF NonEmpty, Text
  <2> HIDE DEF s
  <2>2. /\ 1 <= d.start /\ 1 <= Len(d.old) /\ d.start \in Nat
        /\ Len(d.old) \in Nat /\ Len(d.new) \in Nat
        /\ d.start - 1 + Len(d.old) <= Len(s)
        /\ Len(text) = Len(s) - Len(d.old) + Len(d.new)
    BY <1>1, <1>3, DeltaParts DEF Counts, s
  <2> DEFINE from == d.start
             gone == Len(d.old)
             came == Len(d.new)
             count == Len(s)
  <2> HIDE DEF from, gone, came, count
  <2>3. /\ from \in Nat /\ gone \in Nat /\ came \in Nat /\ count \in Nat
        /\ 1 <= from /\ from - 1 + gone <= count /\ Len(text) = count - gone + came
    BY <2>1, <2>2 DEF from, gone, came, count
  <2>4. from - 1 + came <= count - gone + came /\ (count - gone + came) - came + gone = count
    BY <2>3
  <2>5. 1 <= d.start /\ 1 <= Len(d.old) /\ d.start - 1 + Len(d.new) <= Len(text)
    BY <2>2, <2>3, <2>4 DEF from, came
  <2>6. back \in NonEmpty /\ Len(back) = Len(text) - Len(d.new) + Len(d.old)
    BY <1>3, <2>1, <2>5, Reverting
  <2>7. Len(back) = count
    BY <2>3, <2>4, <2>6 DEF gone, came
  <2> QED
    BY <2>6, <2>7 DEF count, s
<1> HIDE DEF front, more, back
<1>7. Chain(texts, front, more, back)
  <2>1. Len(texts) = Len(front) + Len(more) + 1 /\ Len(front) + 1 = n
    <3>1. n \in Nat /\ f \in Nat /\ Len(texts) = n + f + 1
      BY <1>1
    <3>2. Len(front) = n - 1 /\ Len(more) = f + 1
      BY <1>4, <1>5
    <3> QED
      BY <3>1, <3>2
  <2>2. ASSUME NEW i \in 1 .. Len(front) PROVE Counts(texts[i], front[i], texts[i + 1])
    <3>1. i \in 1 .. n /\ i \in 1 .. n - 1
      BY <1>1, <1>4
    <3> QED
      BY <1>1, <1>4, <3>1
  <2>3. ASSUME NEW j \in 1 .. Len(more)
        PROVE  Counts(texts[Len(texts) - j], more[j], texts[Len(texts) - j + 1])
    <3>1. CASE j = f + 1
      <4>1. Len(texts) - j = n /\ Len(texts) - j + 1 = n + 1
        BY <1>1, <3>1
      <4> QED
        BY <1>3, <1>5, <3>1, <4>1
    <3>2. CASE j \in 1 .. f
      BY <1>1, <1>5, <3>2
    <3> QED
      BY <1>1, <1>5, <3>1, <3>2
  <2>4. Len(back) = Len(texts[Len(front) + 1])
    BY <1>6, <2>1
  <2> QED
    BY <1>1, <1>4, <1>5, <1>6, <2>1, <2>2, <2>3, <2>4 DEF Chain
<1>8. ASSUME LeadsBack(texts, past, text) PROVE LeadsBack(texts, front, back)
  <2>1. text = texts[n + 1] /\ \A i \in 1 .. n : Revert(texts[i + 1], past[i]) = texts[i]
    <3>1. DOMAIN past = 1 .. n
      BY <1>1 DEF n
    <3> QED
      BY <1>8, <3>1 DEF LeadsBack, n
  <2>2. back = texts[n]
    BY <1>1, <2>1 DEF back, d
  <2>3. DOMAIN front = 1 .. n - 1 /\ Len(front) + 1 = n
    BY <1>1, <1>4
  <2>4. ASSUME NEW i \in 1 .. n - 1 PROVE Revert(texts[i + 1], front[i]) = texts[i]
    <3>1. i \in 1 .. n
      BY <1>1
    <3> QED
      BY <1>4, <2>1, <3>1
  <2> QED
    BY <2>2, <2>3, <2>4 DEF LeadsBack
<1>9. Len(front) + Len(more) = n + f
  BY <1>1, <1>4, <1>5
<1> QED
  BY <1>2, <1>3, <1>7, <1>8, <1>9 DEF d, more, back, n, f

\* redo, of a delta that fits the text or not.
LEMMA ChainRedo ==
    ASSUME NEW texts, NEW past, NEW future, NEW text,
           Chain(texts, past, future, text), future # <<>>
    PROVE  LET d == Last(future)
               next == [texts EXCEPT ![Len(past) + 2] = Apply(text, d)]
           IN  /\ d \in Delta
               /\ Chain(next, Append(past, d), Front(future), Apply(text, d))
               /\ Len(Append(past, d)) + Len(Front(future)) = Len(past) + Len(future)
               /\ /\ LeadsBack(texts, past, text)
                  /\ SubSeq(text, d.start, d.start + Len(d.old) - 1) = d.old
                  => LeadsBack(next, Append(past, d), Apply(text, d))
<1> DEFINE n == Len(past)
           f == Len(future)
           d == future[f]
           front == SubSeq(future, 1, f - 1)
           more == Append(past, d)
           on == Apply(text, d)
           next == [texts EXCEPT ![n + 2] = on]
<1>1. /\ past \in Seq(Delta) /\ future \in Seq(Delta) /\ texts \in Seq(NonEmpty)
      /\ n \in Nat /\ f \in Nat /\ 1 <= f /\ Len(texts) = n + f + 1
      /\ text \in NonEmpty /\ Len(text) = Len(texts[n + 1])
      /\ \A i \in 1 .. n : Counts(texts[i], past[i], texts[i + 1])
      /\ \A j \in 1 .. f : Counts(texts[Len(texts) - j], future[j], texts[Len(texts) - j + 1])
  BY EmptySeq DEF Chain
<1>2. Last(future) = d /\ Front(future) = front
  BY DEF Last, Front
<1> HIDE DEF n, f
<1>3. d \in Delta /\ Counts(texts[n + 1], d, texts[n + 2])
  <2>1. Len(texts) - f = n + 1 /\ Len(texts) - f + 1 = n + 2 /\ f \in 1 .. f
    BY <1>1
  <2> QED
    BY SMTT(40), <1>1, <2>1 DEF f
<1>4. /\ front \in Seq(Delta) /\ Len(front) = f - 1
      /\ \A i \in 1 .. f - 1 : front[i] = future[i]
  <2>1. \A i \in 1 .. f - 1 : future[i] \in Delta
    BY <1>1 DEF f
  <2>2. /\ SubSeq(future, 1, f - 1) \in Seq(Delta)
        /\ Len(SubSeq(future, 1, f - 1)) = IF 1 <= f - 1 THEN (f - 1) - 1 + 1 ELSE 0
        /\ \A i \in 1 .. (f - 1) - 1 + 1 : SubSeq(future, 1, f - 1)[i] = future[1 + i - 1]
    BY <1>1, <2>1, SubSeqProperties
  <2> QED
    BY <1>1, <2>2
<1>5. /\ more \in Seq(Delta) /\ Len(more) = n + 1 /\ more[n + 1] = d
      /\ \A j \in 1 .. n : more[j] = past[j]
  BY <1>1, <1>3, AppendProperties DEF n
<1>6. on \in NonEmpty /\ Len(on) = Len(texts[n + 2])
  <2>1. text \in Text /\ Len(text) = Len(texts[n + 1])
    BY <1>1 DEF NonEmpty
  <2>2. /\ 1 <= d.start /\ 1 <= Len(d.new)
        /\ d.start - 1 + Len(d.old) <= Len(text)
        /\ Len(texts[n + 2]) = Len(text) - Len(d.old) + Len(d.new)
    BY <1>3, <2>1 DEF Counts
  <2> QED
    BY <1>3, <2>1, <2>2, Applied
<1>7. /\ next \in Seq(NonEmpty) /\ Len(next) = n + f + 1 /\ next[n + 2] = on
      /\ \A i \in 1 .. n + f + 1 : i # n + 2 => next[i] = texts[i]
  <2>1. n + 2 \in 1 .. Len(texts)
    BY <1>1
  <2>2. /\ next \in Seq(NonEmpty) /\ Len(next) = Len(texts)
        /\ \A j \in 1 .. Len(texts) : next[j] = IF j = n + 2 THEN on ELSE texts[j]
    <3> HIDE DEF on
    <3> QED
      BY <1>1, <1>6, <2>1, ExceptSeq
  <2> QED
    BY <1>1, <2>1, <2>2
<1> HIDE DEF d, front, more, on, next
<1>8. ASSUME NEW i \in 1 .. n + f + 1 PROVE Len(next[i]) = Len(texts[i])
  BY <1>6, <1>7
<1>9. ASSUME NEW i \in 1 .. n + f, NEW e
      PROVE  Counts(texts[i], e, texts[i + 1]) <=> Counts(next[i], e, next[i + 1])
  <2>1. i \in 1 .. n + f + 1 /\ i + 1 \in 1 .. n + f + 1
    BY <1>1
  <2> QED
    BY <1>8, <2>1 DEF Counts
<1>10. Chain(next, more, front, on)
  <2>1. Len(next) = Len(more) + Len(front) + 1 /\ Len(more) + 1 = n + 2
    BY <1>1, <1>4, <1>5, <1>7
  <2>2. ASSUME NEW i \in 1 .. Len(more) PROVE Counts(next[i], more[i], next[i + 1])
    <3>1. i \in 1 .. n + f
      BY <1>1, <1>5
    <3>2. CASE i = n + 1
      <4>1. Counts(texts[i], more[i], texts[i + 1])
        BY <1>1, <1>3, <1>5, <3>2
      <4> QED
        BY <1>9, <3>1, <4>1
    <3>3. CASE i \in 1 .. n
      <4>1. Counts(texts[i], more[i], texts[i + 1])
        BY <1>1, <1>5, <3>3
      <4> QED
        BY <1>9, <3>1, <4>1
    <3> QED
      BY <1>1, <1>5, <3>2, <3>3
  <2>3. ASSUME NEW j \in 1 .. Len(front)
        PROVE  Counts(next[Len(next) - j], front[j], next[Len(next) - j + 1])
    <3> DEFINE k == Len(texts) - j
    <3>1. j \in 1 .. f /\ j \in 1 .. f - 1 /\ k \in 1 .. n + f /\ Len(next) - j = k
      BY <1>1, <1>4, <1>7
    <3>2. Counts(texts[k], front[j], texts[k + 1])
      BY <1>1, <1>4, <3>1
    <3> HIDE DEF k
    <3> QED
      BY <1>9, <3>1, <3>2
  <2>4. Len(on) = Len(next[Len(more) + 1])
    BY <1>6, <1>7, <2>1
  <2> QED
    BY <1>4, <1>5, <1>6, <1>7, <2>1, <2>2, <2>3, <2>4 DEF Chain
<1>11. ASSUME LeadsBack(texts, past, text),
              SubSeq(text, d.start, d.start + Len(d.old) - 1) = d.old
       PROVE  LeadsBack(next, more, on)
  <2>1. text = texts[n + 1] /\ \A i \in 1 .. n : Revert(texts[i + 1], past[i]) = texts[i]
    <3>1. DOMAIN past = 1 .. n
      BY <1>1 DEF n
    <3> QED
      BY <1>11, <3>1 DEF LeadsBack, n
  <2>2. FitsText(text, d)
    BY <1>1, <1>3, <1>11 DEF FitsText, Counts
  <2>3. Revert(on, d) = text
    BY <1>1, <2>2, ApplyRevert DEF on, NonEmpty
  <2>4. ASSUME NEW i \in 1 .. n + 1 PROVE Revert(next[i + 1], more[i]) = next[i]
    <3>1. CASE i = n + 1
      <4>1. next[i + 1] = on /\ more[i] = d /\ next[i] = texts[n + 1]
        BY <1>1, <1>5, <1>7, <3>1
      <4> QED
        BY <2>1, <2>3, <4>1
    <3>2. CASE i \in 1 .. n
      <4>1. next[i + 1] = texts[i + 1] /\ more[i] = past[i] /\ next[i] = texts[i]
        BY SMTT(40), <1>1, <1>5, <1>7, <3>2
      <4> QED
        BY <2>1, <3>2, <4>1
    <3> QED
      BY <1>1, <3>1, <3>2
  <2>5. DOMAIN more = 1 .. n + 1 /\ Len(more) + 1 = n + 2
    BY <1>1, <1>5
  <2> QED
    BY <1>7, <2>4, <2>5 DEF LeadsBack
<1>12. Len(more) + Len(front) = n + f
  BY <1>1, <1>4, <1>5
<1> QED
  BY <1>2, <1>3, <1>10, <1>11, <1>12 DEF d, more, on, next, n, f

\* An edit that is merged with the one before it.
LEMMA ChainMerge ==
    ASSUME NEW texts, NEW past, NEW future, NEW text, NEW d, NEW next,
           Chain(texts, past, future, text), past # <<>>,
           FitsText(text, d), Len(d.old) = 1, Len(d.new) = 1,
           Last(past).coalescible, Last(past).start = d.start,
           next \in Seq(Delta), Len(next) = Len(past),
           \A i \in 1 .. Len(past) - 1 : next[i] = past[i],
           next[Len(past)].start = Last(past).start,
           next[Len(past)].old = Last(past).old,
           next[Len(past)].new = d.new
    PROVE  LET on == Apply(text, d)
               moved == [texts EXCEPT ![Len(past) + 1] = on]
           IN  /\ Chain(moved, next, future, on)
               /\ LeadsBack(texts, past, text) => LeadsBack(moved, next, on)
<1> DEFINE n == Len(past)
           f == Len(future)
           last == past[n]
           merged == next[n]
           on == Apply(text, d)
           moved == [texts EXCEPT ![n + 1] = on]
<1>1. /\ past \in Seq(Delta) /\ future \in Seq(Delta) /\ texts \in Seq(NonEmpty)
      /\ n \in Nat /\ f \in Nat /\ 1 <= n /\ Len(texts) = n + f + 1
      /\ text \in NonEmpty /\ Len(text) = Len(texts[n + 1])
  BY EmptySeq DEF Chain
<1>2. /\ \A i \in 1 .. n : Counts(texts[i], past[i], texts[i + 1])
      /\ \A j \in 1 .. f : Counts(texts[Len(texts) - j], future[j], texts[Len(texts) - j + 1])
  BY DEF Chain
<1>3. /\ last.coalescible /\ last.start = d.start
      /\ next \in Seq(Delta) /\ Len(next) = n
      /\ \A i \in 1 .. n - 1 : next[i] = past[i]
      /\ merged.start = last.start /\ merged.old = last.old /\ merged.new = d.new
  BY DEF Last
<1> HIDE DEF n, f, on, moved, last, merged
<1>4. n \in 1 .. n /\ n \in Nat /\ f \in Nat /\ 1 <= n
  BY <1>1
<1>5. last \in Delta /\ Counts(texts[n], last, texts[n + 1])
  <2>1. past[n] \in Delta
    BY <1>1, <1>4 DEF n
  <2>2. Counts(texts[n], past[n], texts[n + 1])
    BY <1>2, <1>4
  <2> QED
    BY <2>1, <2>2 DEF last
<1>6. Len(last.old) = 1 /\ Len(last.new) = 1
  BY <1>3, <1>5 DEF Counts
<1>7. on \in NonEmpty /\ Len(on) = Len(text)
  <2>1. text \in Text /\ Len(text) \in Nat
    <3>1. text \in Text
      BY <1>1 DEF NonEmpty
    <3> QED
      BY <3>1, LenProperties DEF Text
  <2>2. on \in NonEmpty /\ Counts(text, d, on)
    BY <2>1, ApplyRevert DEF on
  <2> QED
    BY <2>1, <2>2 DEF Counts
<1>8. /\ moved \in Seq(NonEmpty) /\ Len(moved) = n + f + 1 /\ moved[n + 1] = on
      /\ \A i \in 1 .. n + f + 1 : i # n + 1 => moved[i] = texts[i]
  <2>1. n + 1 \in 1 .. Len(texts)
    BY <1>1
  <2>2. /\ moved \in Seq(NonEmpty) /\ Len(moved) = Len(texts)
        /\ \A j \in 1 .. Len(texts) : moved[j] = IF j = n + 1 THEN on ELSE texts[j]
    BY <1>1, <1>7, <2>1, ExceptSeq DEF moved
  <2> QED
    BY <1>1, <2>1, <2>2
<1>9. ASSUME NEW i \in 1 .. n + f + 1 PROVE Len(moved[i]) = Len(texts[i])
  BY <1>1, <1>7, <1>8
<1>10. ASSUME NEW i \in 1 .. n + f, NEW e
       PROVE  Counts(texts[i], e, texts[i + 1]) <=> Counts(moved[i], e, moved[i + 1])
  <2>1. i \in 1 .. n + f + 1 /\ i + 1 \in 1 .. n + f + 1
    BY <1>4
  <2> QED
    BY <1>9, <2>1 DEF Counts
<1>11. Chain(moved, next, future, on)
  <2>1. ASSUME NEW i \in 1 .. n PROVE Counts(moved[i], next[i], moved[i + 1])
    <3>1. i \in 1 .. n + f
      BY <1>4
    <3>2. CASE i = n
      <4>1. Counts(texts[n], merged, texts[n + 1])
        BY <1>3, <1>5, <1>6 DEF Counts
      <4> QED
        BY <1>10, <3>1, <3>2, <4>1 DEF merged
    <3>3. CASE i \in 1 .. n - 1
      <4>1. Counts(texts[i], next[i], texts[i + 1])
        BY <1>2, <1>3, <3>3
      <4> QED
        BY <1>10, <3>1, <4>1
    <3> QED
      BY <1>4, <3>2, <3>3
  <2>2. ASSUME NEW j \in 1 .. f
        PROVE  Counts(moved[Len(moved) - j], future[j], moved[Len(moved) - j + 1])
    <3> DEFINE k == Len(texts) - j
    <3>1. k \in 1 .. n + f /\ Len(moved) - j = k
      BY <1>1, <1>4, <1>8
    <3>2. Counts(texts[k], future[j], texts[k + 1])
      BY <1>2
    <3> HIDE DEF k
    <3> QED
      BY <1>10, <3>1, <3>2
  <2>3. Len(on) = Len(moved[Len(next) + 1]) /\ Len(moved) = Len(next) + Len(future) + 1
    BY <1>3, <1>7, <1>8 DEF f
  <2> QED
    BY <1>1, <1>3, <1>7, <1>8, <2>1, <2>2, <2>3 DEF Chain, f
<1>12. ASSUME LeadsBack(texts, past, text) PROVE LeadsBack(moved, next, on)
  <2>1. text = texts[n + 1] /\ \A i \in 1 .. n : Revert(texts[i + 1], past[i]) = texts[i]
    <3>1. DOMAIN past = 1 .. n
      BY <1>1 DEF n
    <3> QED
      BY <1>12, <3>1 DEF LeadsBack, n
  <2>2. Revert(on, merged) = texts[n]
    <3> DEFINE one == 1
               from == d.start
               came == d.new
               gone == last.old
    <3>1. /\ text \in Seq(Line) /\ came \in Seq(Line) /\ gone \in Seq(Line)
          /\ from \in Nat /\ 1 <= from /\ from - 1 + one <= Len(text) /\ one \in Nat
      BY <1>1, <1>5, DeltaParts DEF FitsText, NonEmpty, Text, Line
    <3>2. Revert(on, merged) = Splice(Splice(text, from, one, came), from, Len(came), gone)
      BY <1>3 DEF Revert, Apply, on
    <3>3. Revert(text, last) = Splice(text, from, one, gone)
      BY <1>3, <1>6 DEF Revert
    <3> HIDE DEF one, from, came, gone
    <3>4. Splice(Splice(text, from, one, came), from, Len(came), gone)
            = Splice(text, from, one, gone)
      BY <3>1, SplicedTwice
    <3>5. Revert(text, last) = texts[n]
      BY <1>4, <2>1 DEF last
    <3> QED
      BY <3>2, <3>3, <3>4, <3>5
  <2>3. ASSUME NEW i \in 1 .. n PROVE Revert(moved[i + 1], next[i]) = moved[i]
    <3>1. moved[i] = texts[i]
      BY <1>4, <1>8
    <3>2. CASE i = n
      BY <1>8, <2>2, <3>1, <3>2 DEF merged
    <3>3. CASE i \in 1 .. n - 1
      <4>1. moved[i + 1] = texts[i + 1] /\ next[i] = past[i]
        BY <1>3, <1>4, <1>8, <3>3
      <4> QED
        BY <2>1, <3>1, <4>1
    <3> QED
      BY <1>4, <3>2, <3>3
  <2>4. DOMAIN next = 1 .. n
    BY <1>3
  <2> QED
    BY <1>3, <1>8, <2>3, <2>4 DEF LeadsBack
<1> QED
  BY <1>11, <1>12 DEF on, moved, n

----------------------------------------------------------------------------------
(* The deltas that the keys make *)

\* A position in a text.
InText(text, p) == p \in Point /\ p.line \in 1 .. Len(text) /\ p.byte \in 0 .. Len(text[p.line])

LEMMA PointsAreInText ==
    ASSUME lines \in Text, NEW p
    PROVE  p \in Points <=> InText(lines, p)
<1>1. \A l \in 1 .. Len(lines) : Len(lines[l]) \in Nat
  BY DEF Text
<1>2. ASSUME p \in Points PROVE InText(lines, p)
  <2>1. PICK l \in 1 .. Len(lines) : p \in {At(l, b) : b \in 0 .. Len(lines[l])}
    BY <1>2 DEF Points
  <2>2. PICK b \in 0 .. Len(lines[l]) : p = At(l, b)
    BY <2>1
  <2>3. l \in Nat /\ b \in Nat
    BY <1>1
  <2> QED
    BY <2>2, <2>3 DEF At, Point, InText
<1>3. ASSUME InText(lines, p) PROVE p \in Points
  <2>1. p = At(p.line, p.byte)
    BY <1>3 DEF InText, At, Point
  <2> QED
    BY <1>3, <2>1 DEF InText, Points
<1> QED
  BY <1>2, <1>3

LEMMA LineParts ==
    ASSUME NEW line \in Line, NEW byte \in 0 .. Len(line)
    PROVE  /\ Until(line, byte) \in Line /\ Len(Until(line, byte)) = byte
           /\ From(line, byte) \in Line
<1>1. Len(line) \in Nat /\ \A i \in 1 .. Len(line) : line[i] \in Chars \cup {TabChar}
  BY DEF Line
<1>2. Until(line, byte) \in Line /\ Len(Until(line, byte)) = byte
  <2>1. \A i \in 1 .. byte : line[i] \in Chars \cup {TabChar}
    BY <1>1
  <2>2. /\ SubSeq(line, 1, byte) \in Seq(Chars \cup {TabChar})
        /\ Len(SubSeq(line, 1, byte)) = IF 1 <= byte THEN byte - 1 + 1 ELSE 0
    BY <2>1, SubSeqProperties
  <2> QED
    BY <2>2 DEF Until, Line
<1>3. From(line, byte) \in Line
  <2>1. \A i \in byte + 1 .. Len(line) : line[i] \in Chars \cup {TabChar}
    BY <1>1
  <2>2. byte + 1 \in Int /\ Len(line) \in Int
    BY <1>1
  <2>3. SubSeq(line, byte + 1, Len(line)) \in Seq(Chars \cup {TabChar})
    BY <2>1, <2>2, SubSeqProperties
  <2> QED
    BY <2>3 DEF From, Line
<1> QED
  BY <1>2, <1>3

LEMMA LinesJoined ==
    ASSUME NEW a \in Line, NEW b \in Line
    PROVE  a \o b \in Line /\ Len(a \o b) = Len(a) + Len(b)
BY ConcatProperties DEF Line

\* Some lines of a text.
LEMMA LinesOf ==
    ASSUME NEW text \in Text, NEW from \in 1 .. Len(text), NEW to \in from .. Len(text)
    PROVE  LET old == SubSeq(text, from, to)
           IN  /\ old \in Text /\ Len(old) = to - from + 1
               /\ from - 1 + Len(old) <= Len(text)
               /\ old = SubSeq(text, from, from + Len(old) - 1)
               /\ \A i \in 1 .. to - from + 1 : old[i] = text[from + i - 1] /\ old[i] \in Line
<1> DEFINE old == SubSeq(text, from, to)
<1>1. Len(text) \in Nat /\ from \in Nat /\ to \in Nat /\ from <= to /\ to <= Len(text)
  BY DEF Text
<1>2. \A i \in from .. to : text[i] \in Line
  BY <1>1 DEF Text, Line
<1>3. /\ old \in Seq(Line) /\ Len(old) = IF from <= to THEN to - from + 1 ELSE 0
      /\ \A i \in 1 .. to - from + 1 : old[i] = text[from + i - 1]
  BY <1>1, <1>2, SubSeqProperties
<1> HIDE DEF old
<1>4. Len(old) = to - from + 1
  BY <1>1, <1>3
<1>5. from - 1 + (to - from + 1) <= Len(text) /\ from + (to - from + 1) - 1 = to
  BY <1>1
<1>6. \A i \in 1 .. to - from + 1 : from + i - 1 \in from .. to
  BY <1>1
<1>7. old = SubSeq(text, from, from + Len(old) - 1)
  BY <1>4, <1>5 DEF old
<1> QED
  BY <1>2, <1>3, <1>4, <1>5, <1>6, <1>7 DEF old, Text, Line

\* Replacing what is between two positions.
LEMMA Replacing ==
    ASSUME caret \in Point, now \in Nat,
           NEW text \in Text, NEW from, NEW to, InText(text, from), InText(text, to),
           from.line <= to.line,
           NEW parts \in NonEmpty, NEW co \in BOOLEAN,
           co => Len(parts) = 1 /\ from.line = to.line
    PROVE  FitsText(text, ReplaceDelta(text, from, to, parts, co))
<1> DEFINE n == Len(parts)
           head == Until(text[from.line], from.byte)
           tail == From(text[to.line], to.byte)
           old == SubSeq(text, from.line, to.line)
           part(i) == (IF i = 1 THEN head ELSE <<>>) \o parts[i] \o (IF i = n THEN tail ELSE <<>>)
           new == [i \in 1 .. n |-> part(i)]
           after == At(from.line + n - 1, Len(parts[n]) + (IF n = 1 THEN from.byte ELSE 0))
           d == ReplaceDelta(text, from, to, parts, co)
<1>1. parts \in Seq(Line) /\ n \in Nat /\ 1 <= n /\ \A i \in 1 .. n : parts[i] \in Line
  <2>1. parts \in Seq(Line) /\ 1 <= n
    BY NonEmptyText DEF Text, Line
  <2> QED
    BY <2>1
<1>2. /\ from.line \in 1 .. Len(text) /\ to.line \in from.line .. Len(text)
      /\ from.line \in Nat /\ to.line \in Nat /\ from.byte \in Nat
      /\ text[from.line] \in Line /\ text[to.line] \in Line
      /\ from.byte \in 0 .. Len(text[from.line]) /\ to.byte \in 0 .. Len(text[to.line])
  BY DEF InText, Point, Text, Line
<1>3. head \in Line /\ tail \in Line /\ <<>> \in Line
  <2>1. <<>> \in Line
    BY DEF Line
  <2> QED
    BY <1>2, <2>1, LineParts
<1>4. /\ old \in Text /\ Len(old) = to.line - from.line + 1
      /\ from.line - 1 + Len(old) <= Len(text)
      /\ old = SubSeq(text, from.line, from.line + Len(old) - 1)
  BY <1>2, LinesOf
<1> HIDE DEF head, tail, old
<1>5. ASSUME NEW i \in 1 .. n PROVE part(i) \in Line
  <2> DEFINE a == IF i = 1 THEN head ELSE <<>>
             b == IF i = n THEN tail ELSE <<>>
  <2>1. a \in Line /\ b \in Line /\ parts[i] \in Line
    BY <1>1, <1>3
  <2> HIDE DEF a, b
  <2>2. a \o parts[i] \in Line
    BY <2>1, LinesJoined
  <2>3. (a \o parts[i]) \o b \in Line
    BY <2>1, <2>2, LinesJoined
  <2> QED
    BY <2>3 DEF a, b
<1> HIDE DEF part
<1>6. new \in Text /\ Len(new) = n
  <2>1. new \in [1 .. n -> Line]
    BY <1>5
  <2>2. new \in Seq(Line)
    BY <1>1, <2>1, SeqDef
  <2>3. DOMAIN new = 1 .. n
    OBVIOUS
  <2> QED
    BY <1>1, <2>2, <2>3, LenProperties DEF Text, Line
<1>7. after \in Point
  <2>1. from.line + n - 1 \in Nat
    BY <1>1, <1>2
  <2>2. n \in 1 .. n
    BY <1>1
  <2>3. Len(parts[n]) \in Nat
    BY <1>1, <2>2 DEF Line
  <2>4. Len(parts[n]) + (IF n = 1 THEN from.byte ELSE 0) \in Nat
    BY <1>2, <2>3
  <2> QED
    BY <2>1, <2>4 DEF At, Point
<1>8. d = [start |-> from.line, old |-> old, new |-> new, before |-> caret, after |-> after,
           time |-> now, coalescible |-> co]
  BY DEF ReplaceDelta, old, new, part, head, tail, after, n
<1> HIDE DEF d, n, new, after
<1>9. d \in Delta
  BY <1>2, <1>4, <1>6, <1>7, <1>8 DEF Delta
<1>10. /\ d.start = from.line /\ d.old = old /\ d.new = new /\ d.coalescible = co
  BY <1>8
<1>11. 1 <= from.line /\ 1 <= to.line - from.line + 1
       /\ (from.line = to.line => to.line - from.line + 1 = 1)
  BY <1>2
<1>12. co => Len(old) = 1 /\ Len(new) = 1
  BY <1>4, <1>6, <1>11 DEF n
<1> QED
  BY <1>1, <1>4, <1>6, <1>9, <1>10, <1>11, <1>12 DEF FitsText, d

\* Deleting leaves the caret where the deleted text began.
LEMMA Deleting ==
    ASSUME caret \in Point, now \in Nat,
           NEW text \in Text, NEW from, NEW to, InText(text, from), InText(text, to),
           from.line <= to.line
    PROVE  LET d == ReplaceDelta(text, from, to, <<<<>>>>, FALSE)
           IN  FitsText(text, d) /\ InText(Apply(text, d), d.after)
<1> DEFINE parts == << <<>> >>
           d == ReplaceDelta(text, from, to, parts, FALSE)
           next == Apply(text, d)
           head == Until(text[from.line], from.byte)
           tail == From(text[to.line], to.byte)
<1>1. parts \in NonEmpty /\ Len(parts) = 1 /\ parts[1] = <<>>
  BY DEF NonEmpty, Text
<1>2. FitsText(text, d)
  <2> HIDE DEF parts
  <2> QED
    BY <1>1, Replacing
<1>3. /\ from.line \in Nat /\ 1 <= from.line /\ from.byte \in Nat
      /\ text[from.line] \in Line /\ text[to.line] \in Line
      /\ from.byte \in 0 .. Len(text[from.line]) /\ to.byte \in 0 .. Len(text[to.line])
  BY DEF InText, Point, Text, Line
<1>4. head \in Line /\ Len(head) = from.byte /\ tail \in Line
  BY <1>3, LineParts
<1> HIDE DEF head, tail
<1>5. /\ d.start = from.line /\ Len(d.new) = 1 /\ d.new[1] = (head \o <<>>) \o tail
      /\ d.after = At(from.line, from.byte)
  <2>1. d.after = At(from.line + 1 - 1, Len(parts[1]) + from.byte)
    BY <1>1 DEF ReplaceDelta
  <2>2. d.new = [i \in 1 .. 1 |-> (IF i = 1 THEN head ELSE <<>>) \o parts[i]
                                    \o (IF i = 1 THEN tail ELSE <<>>)]
    BY <1>1 DEF ReplaceDelta, head, tail
  <2>3. from.line + 1 - 1 = from.line /\ Len(parts[1]) + from.byte = from.byte
    BY <1>1, <1>3
  <2>4. d.start = from.line
    BY DEF ReplaceDelta
  <2> HIDE DEF d, parts
  <2>5. d.new[1] = (head \o <<>>) \o tail /\ DOMAIN d.new = 1 .. 1
    <3>1. 1 \in 1 .. 1
      OBVIOUS
    <3>2. d.new[1] = (IF 1 = 1 THEN head ELSE <<>>) \o parts[1] \o (IF 1 = 1 THEN tail ELSE <<>>)
      BY <2>2, <3>1, Zenon
    <3>3. DOMAIN d.new = 1 .. 1
      BY <2>2, Zenon
    <3> QED
      BY <1>1, <3>2, <3>3, Zenon
  <2>6. Len(d.new) = 1
    <3>1. d.new \in Text
      BY <1>2, DeltaParts DEF FitsText
    <3>2. Len(d.new) \in Nat /\ DOMAIN d.new = 1 .. Len(d.new)
      BY <3>1, LenProperties DEF Text
    <3> DEFINE k == Len(d.new)
    <3> HIDE DEF k
    <3>3. k \in Nat /\ 1 .. k = 1 .. 1
      BY <2>5, <3>2 DEF k
    <3>4. 1 \in 1 .. 1 /\ (1 <= k => k \in 1 .. k)
      BY <3>3
    <3>5. 1 \in 1 .. k
      BY <3>3, <3>4
    <3>6. k \in 1 .. 1
      BY <3>3, <3>4, <3>5
    <3> QED
      BY <3>6 DEF k
  <2> QED
    BY <2>1, <2>3, <2>4, <2>5, <2>6
<1>6. (head \o <<>>) \o tail \in Line /\ from.byte <= Len((head \o <<>>) \o tail)
  <2>1. <<>> \in Line /\ Len(<<>>) = 0
    BY DEF Line
  <2>2. head \o <<>> \in Line /\ Len(head \o <<>>) = from.byte
    BY <1>3, <1>4, <2>1, LinesJoined
  <2>3. /\ (head \o <<>>) \o tail \in Line
        /\ Len((head \o <<>>) \o tail) = Len(head \o <<>>) + Len(tail)
    BY <1>4, <2>2, LinesJoined
  <2>4. Len(tail) \in Nat
    BY <1>4 DEF Line
  <2> QED
    BY <1>3, <2>2, <2>3, <2>4
<1> HIDE DEF d, parts
<1>7. /\ d \in Delta /\ d.start \in Nat /\ 1 <= d.start /\ d.new \in Seq(Line)
      /\ Len(d.old) \in Nat /\ d.start - 1 + Len(d.old) <= Len(text) /\ text \in Seq(Line)
  BY <1>2, DeltaParts DEF FitsText, Text, Line
<1>8. IsSpliced(Line, next, text, d.start, Len(d.old), d.new)
  BY <1>7, Spliced DEF Apply
<1> HIDE DEF next
<1>9. /\ next \in Seq(Line) /\ from.line \in 1 .. Len(next)
      /\ next[from.line] = d.new[1]
  <2> DEFINE gone == Len(d.old)
             count == Len(text)
             l == from.line
  <2>1. Len(d.new) = 1 /\ d.start = l /\ gone \in Nat /\ count \in Nat
    BY <1>5, <1>7
  <2>2. /\ next \in Seq(Line) /\ Len(next) = count - gone + 1
        /\ \A i \in 1 .. count - gone + 1 :
               next[i] = IF i < l THEN text[i] ELSE IF i < l + 1 THEN d.new[i - l + 1]
                         ELSE text[i - 1 + gone]
    BY <1>8, <2>1 DEF IsSpliced
  <2>3. l \in Nat /\ 1 <= l /\ l - 1 + gone <= count
    BY <1>3, <1>7, <2>1
  <2> HIDE DEF gone, count, l
  <2>4. l \in 1 .. count - gone + 1 /\ ~(l < l) /\ l < l + 1 /\ l - l + 1 = 1
    BY <2>1, <2>3
  <2>5. next[l] = d.new[l - l + 1]
    BY <2>2, <2>4
  <2> QED
    BY <2>2, <2>4, <2>5 DEF l
<1>10. /\ d.after \in Point /\ d.after.line = from.line /\ d.after.byte = from.byte
  BY <1>3, <1>5 DEF At, Point
<1>11. from.byte \in 0 .. Len(next[from.line])
  BY <1>3, <1>5, <1>6, <1>9 DEF Line
<1>12. InText(next, d.after)
  BY <1>9, <1>10, <1>11 DEF InText
<1> QED
  BY <1>2, <1>12 DEF next, d, parts

----------------------------------------------------------------------------------
(* The invariant *)

Plain ==
    /\ mode \in {"preview", "edit"} /\ saving \in {"no", "checked", "written"}
    /\ disk \in NonEmpty /\ baseline \in NonEmpty /\ snapshot \in NonEmpty
    /\ escapePending \in BOOLEAN /\ raced \in BOOLEAN /\ now \in Nat

Flags == dirty \in BOOLEAN /\ saved \in BOOLEAN /\ strayed \in BOOLEAN

Selected == selection # None => InText(lines, selection.anchor) /\ InText(lines, selection.head)

\* The stacks, within their bound, belong to the trail, and lead back along it unless
\* a delta was redone that did not fit.
Stacks ==
    /\ Chain(trail, undo, redo, lines)
    /\ Len(undo) + Len(redo) <= MaxUndo
    /\ ~strayed => LeadsBack(trail, undo, lines)

UndoInv == Plain /\ Flags /\ caret \in Point /\ Selected /\ Stacks

LEMMA UndoInvImplies == UndoInv => UndoIsSound
<1> SUFFICES ASSUME UndoInv PROVE UndoIsSound
  OBVIOUS
<1>1. lines \in NonEmpty /\ trail \in Seq(NonEmpty) /\ undo \in Seq(Delta) /\ redo \in Seq(Delta)
  BY DEF UndoInv, Stacks, Chain
<1>2. Range(trail) \subseteq NonEmpty
  BY <1>1, RangeOfSeq
<1>3. {lines, disk, baseline, snapshot} \cup Range(trail) \subseteq Text \ {<<>>}
  BY <1>1, <1>2 DEF UndoInv, Plain, NonEmpty
<1>4. selection # None => {selection.anchor, selection.head} \subseteq Points
  BY <1>1, PointsAreInText DEF UndoInv, Selected, NonEmpty
<1>5. TypeOK
  BY <1>1, <1>3, <1>4 DEF UndoInv, Plain, Flags, Stacks, TypeOK
<1>6. UndoLeadsBack
  BY DEF UndoInv, Stacks, LeadsBack, UndoLeadsBack
<1> QED
  BY <1>5, <1>6 DEF UndoIsSound

LEMMA OneText ==
    ASSUME NEW text \in NonEmpty
    PROVE  Chain(<<text>>, <<>>, <<>>, text) /\ LeadsBack(<<text>>, <<>>, text)
<1>1. /\ <<text>> \in Seq(NonEmpty) /\ Len(<<text>>) = 1 /\ <<text>>[1] = text
      /\ <<>> \in Seq(Delta) /\ Len(<<>>) = 0 /\ DOMAIN <<>> = 1 .. 0
  OBVIOUS
<1>2. 0 + 1 = 1 /\ 0 + 0 + 1 = 1
  OBVIOUS
<1>3. \A i \in 1 .. 0 : FALSE
  OBVIOUS
<1> QED
  BY <1>1, <1>2, <1>3 DEF Chain, LeadsBack

LEMMA UndoInit == Init => UndoInv
<1> SUFFICES ASSUME Init PROVE UndoInv
  OBVIOUS
<1>1. FileText \in NonEmpty
  BY TextAssumption DEF NonEmpty
<1>2. Chain(<<FileText>>, <<>>, <<>>, FileText) /\ LeadsBack(<<FileText>>, <<>>, FileText)
  BY <1>1, OneText
<1>3. Len(<<>>) + Len(<<>>) <= MaxUndo
  BY BoundAssumption
<1> QED
  BY <1>1, <1>2, <1>3 DEF Init, UndoInv, Plain, Flags, Selected, Stacks, At, Point

----------------------------------------------------------------------------------
(* Edits *)

LEMMA EditFromKeeps ==
    ASSUME NEW text, NEW stack, NEW texts, NEW future, NEW d,
           Chain(texts, stack, future, text), Len(stack) <= MaxUndo,
           ~strayed => LeadsBack(texts, stack, text),
           FitsText(text, d), EditFrom(text, stack, texts, d)
    PROVE  Stacks' /\ caret' \in Point
<1>1. /\ lines' = Apply(text, d) /\ undo' = PushDelta(stack, d) /\ redo' = <<>>
      /\ trail' = Followed(texts, stack, Apply(text, d))
      /\ caret' = d.after /\ strayed' = strayed
  BY DEF EditFrom
<1>2. /\ Chain(trail', undo', <<>>, lines') /\ Len(undo') <= MaxUndo
      /\ LeadsBack(texts, stack, text) => LeadsBack(trail', undo', lines')
  BY <1>1, Pushed
<1>3. Len(undo') \in Nat /\ Len(<<>>) = 0
  BY <1>2 DEF Chain
<1>4. Len(undo') + Len(redo') <= MaxUndo
  BY <1>1, <1>2, <1>3
<1>5. caret' \in Point
  BY <1>1, DeltaParts DEF FitsText
<1> QED
  BY <1>1, <1>2, <1>4, <1>5 DEF Stacks

LEMMA BoundKept == Stacks => Len(undo) <= MaxUndo /\ Len(undo) \in Nat /\ Len(redo) \in Nat
<1> SUFFICES ASSUME Stacks PROVE Len(undo) <= MaxUndo /\ Len(undo) \in Nat /\ Len(redo) \in Nat
  OBVIOUS
<1>1. Len(undo) \in Nat /\ Len(redo) \in Nat
  BY DEF Stacks, Chain
<1>2. Len(undo) + Len(redo) <= MaxUndo
  BY DEF Stacks
<1> QED
  BY <1>1, <1>2, BoundAssumption

LEMMA EditKeeps ==
    ASSUME Stacks, NEW d, FitsText(lines, d), Edit(d)
    PROVE  Stacks' /\ caret' \in Point
BY EditFromKeeps, BoundKept DEF Stacks, Edit

\* An edit of one line, merged with the last one or not.
LEMMA SmallEditKeeps ==
    ASSUME Stacks, now \in Nat, NEW d, FitsText(lines, d), Len(d.old) = 1, Len(d.new) = 1,
           SmallEdit(d)
    PROVE  Stacks' /\ caret' \in Point
<1>1. CASE ~Coalesces(d)
  BY <1>1, EditKeeps DEF SmallEdit
<1>2. CASE Coalesces(d)
  <2> DEFINE n == Len(undo)
             last == undo[n]
             on == Apply(lines, d)
             merged == [last EXCEPT !.new = d.new, !.after = d.after, !.time = now]
  <2>1. /\ lines' = on /\ undo' = Merged(d) /\ redo' = redo /\ strayed' = strayed
        /\ trail' = [trail EXCEPT ![Len(undo) + 1] = on] /\ caret' = d.after
    BY <1>2 DEF SmallEdit
  <2>2. undo # <<>> /\ Last(undo) = last /\ last.coalescible /\ last.start = d.start
    BY <1>2 DEF Coalesces, Last
  <2>3. undo \in Seq(Delta) /\ n \in Nat /\ n \in 1 .. n
    BY <2>2, EmptySeq DEF Stacks, Chain
  <2>4. last \in Delta
    BY <2>3
  <2>5. d \in Delta
    BY DEF FitsText
  <2>6. /\ merged \in Delta /\ merged.start = last.start /\ merged.old = last.old
        /\ merged.new = d.new
    BY <2>4, <2>5 DEF Delta
  <2>7. Merged(d) = [undo EXCEPT ![n] = merged]
    BY <2>3 DEF Merged
  <2> HIDE DEF merged, last
  <2>8. /\ Merged(d) \in Seq(Delta) /\ Len(Merged(d)) = n
        /\ \A j \in 1 .. n : Merged(d)[j] = IF j = n THEN merged ELSE undo[j]
    BY <2>3, <2>6, <2>7, ExceptSeq
  <2>9. \A j \in 1 .. n - 1 : Merged(d)[j] = undo[j]
    BY <2>3, <2>8
  <2>10. Merged(d)[n] = merged
    BY <2>3, <2>8
  <2> DEFINE next == Merged(d)
  <2> HIDE DEF next, on
  <2>11. /\ next \in Seq(Delta) /\ Len(next) = Len(undo)
         /\ \A i \in 1 .. Len(undo) - 1 : next[i] = undo[i]
         /\ next[Len(undo)].start = Last(undo).start
         /\ next[Len(undo)].old = Last(undo).old
         /\ next[Len(undo)].new = d.new
    BY <2>2, <2>6, <2>8, <2>9, <2>10 DEF next
  <2>12. Chain(trail, undo, redo, lines) /\ Last(undo).coalescible /\ Last(undo).start = d.start
    BY <2>2 DEF Stacks
  <2>13. /\ Chain([trail EXCEPT ![Len(undo) + 1] = Apply(lines, d)], next, redo, Apply(lines, d))
         /\ LeadsBack(trail, undo, lines)
              => LeadsBack([trail EXCEPT ![Len(undo) + 1] = Apply(lines, d)], next, Apply(lines, d))
    BY <2>2, <2>11, <2>12, ChainMerge
  <2>14. Len(undo') + Len(redo') <= MaxUndo
    BY <2>1, <2>8 DEF Stacks
  <2>15. caret' \in Point
    BY <2>1, <2>5, DeltaParts
  <2> QED
    BY <2>1, <2>13, <2>14, <2>15 DEF Stacks, next, on
<1> QED
  BY <1>1, <1>2

----------------------------------------------------------------------------------
(* Keys *)

LEMMA SelectionLies ==
    ASSUME Selected, selection # None
    PROVE  /\ InText(lines, SelectionStart(selection)) /\ InText(lines, SelectionEnd(selection))
           /\ SelectionStart(selection).line <= SelectionEnd(selection).line
<1> DEFINE a == selection.anchor
           h == selection.head
<1>1. InText(lines, a) /\ InText(lines, h)
  BY DEF Selected
<1>2. a.line \in Nat /\ h.line \in Nat
  BY <1>1 DEF InText, Point
<1> HIDE DEF a, h
<1>3. CASE Before(a, h)
  <2>1. SelectionStart(selection) = a /\ SelectionEnd(selection) = h
    BY <1>3 DEF SelectionStart, SelectionEnd, a, h
  <2>2. a.line <= h.line
    BY <1>2, <1>3 DEF Before
  <2> QED
    BY <1>1, <2>1, <2>2
<1>4. CASE ~Before(a, h)
  <2>1. SelectionStart(selection) = h /\ SelectionEnd(selection) = a
    BY <1>4 DEF SelectionStart, SelectionEnd, a, h
  <2>2. h.line <= a.line
    BY <1>2, <1>4 DEF Before
  <2> QED
    BY <1>1, <2>1, <2>2
<1> QED
  BY <1>3, <1>4

LEMMA Positioned ==
    ASSUME UndoInv, caret \in Points
    PROVE  lines \in Text /\ InText(lines, caret) /\ caret \in Point /\ now \in Nat
<1>1. lines \in Text
  BY DEF UndoInv, Stacks, Chain, NonEmpty
<1> QED
  BY <1>1, PointsAreInText DEF UndoInv, Plain

LEMMA OnePart ==
    ASSUME NEW line \in Line
    PROVE  <<line>> \in NonEmpty /\ Len(<<line>>) = 1
<1>1. <<line>> \in Seq(Line) /\ Len(<<line>>) = 1
  OBVIOUS
<1> DEFINE text == <<line>>
<1>2. text \in Text
  BY <1>1 DEF Text, Line
<1> HIDE DEF text
<1>3. text \in NonEmpty
  <2>1. 1 <= Len(text)
    BY <1>1 DEF text
  <2> QED
    BY <1>2, <2>1, NonEmptyText
<1> QED
  BY <1>1, <1>3 DEF text

LEMMA NoText == <<>> \in Line /\ << <<>> >> \in NonEmpty
<1>1. <<>> \in Line
  BY DEF Line
<1> DEFINE none == <<>>
<1> HIDE DEF none
<1>2. none \in Line
  BY <1>1 DEF none
<1>3. <<none>> \in NonEmpty
  BY <1>2, OnePart
<1> QED
  BY <1>1, <1>3 DEF none

LEMMA KeyKeeps == Plain /\ Key => Plain'
BY DEF Plain, Key, Editing

\* A key that makes one edit and leaves no selection.
LEMMA EditKeyKeeps ==
    ASSUME UndoInv, Key, NEW d, FitsText(lines, d), Edit(d), selection' = None
    PROVE  UndoInv'
<1>1. Stacks' /\ caret' \in Point
  BY EditKeeps DEF UndoInv
<1>2. Flags'
  BY DEF UndoInv, Flags, Edit, EditFrom
<1> QED
  BY <1>1, <1>2, KeyKeeps DEF UndoInv, Selected

LEMMA SmallEditKeyKeeps ==
    ASSUME UndoInv, Key, NEW d, FitsText(lines, d), Len(d.old) = 1, Len(d.new) = 1,
           SmallEdit(d), selection' = None
    PROVE  UndoInv'
<1>1. Stacks' /\ caret' \in Point
  BY SmallEditKeeps DEF UndoInv, Plain
<1>2. Flags'
  BY DEF UndoInv, Flags, SmallEdit, Edit, EditFrom
<1> QED
  BY <1>1, <1>2, KeyKeeps DEF UndoInv, Selected

\* Replacing text within one line by a line.
LEMMA WithinLine ==
    ASSUME UndoInv, NEW from, NEW to, InText(lines, from), InText(lines, to),
           from.line = to.line, NEW part \in Line
    PROVE  LET d == ReplaceDelta(lines, from, to, <<part>>, TRUE)
           IN  FitsText(lines, d) /\ Len(d.old) = 1 /\ Len(d.new) = 1
<1> DEFINE parts == <<part>>
           d == ReplaceDelta(lines, from, to, parts, TRUE)
<1>1. parts \in NonEmpty /\ Len(parts) = 1
  BY OnePart
<1>2. /\ lines \in Text /\ caret \in Point /\ now \in Nat /\ from.line <= to.line
      /\ TRUE \in BOOLEAN
  BY DEF UndoInv, Plain, Stacks, Chain, NonEmpty, InText, Point
<1>3. d.coalescible
  BY DEF ReplaceDelta
<1> HIDE DEF parts
<1>4. FitsText(lines, d)
  BY <1>1, <1>2, Replacing
<1> QED
  BY <1>3, <1>4 DEF FitsText, parts

\* Replacing text over several lines.
LEMMA Anywhere ==
    ASSUME UndoInv, NEW from, NEW to, InText(lines, from), InText(lines, to),
           from.line <= to.line, NEW parts \in NonEmpty
    PROVE  FitsText(lines, ReplaceDelta(lines, from, to, parts, FALSE))
<1>1. lines \in Text /\ caret \in Point /\ now \in Nat /\ FALSE \in BOOLEAN
  BY DEF UndoInv, Plain, Stacks, Chain, NonEmpty
<1> QED
  BY <1>1, Replacing

LEMMA DeleteSelectionKeeps ==
    ASSUME UndoInv, TextKey, selection # None, Edit(DeleteSelection), selection' = None
    PROVE  UndoInv'
<1> DEFINE parts == << <<>> >>
<1>1. parts \in NonEmpty
  BY NoText
<1>2. FitsText(lines, DeleteSelection)
  <2>1. Selected
    BY DEF UndoInv
  <2> HIDE DEF parts
  <2>2. FitsText(lines, ReplaceDelta(lines, SelectionStart(selection), SelectionEnd(selection),
                                     parts, FALSE))
    BY <1>1, <2>1, SelectionLies, Anywhere
  <2> QED
    BY <2>2 DEF DeleteSelection, parts
<1>3. Key
  BY DEF TextKey
<1> QED
  BY <1>2, <1>3, EditKeyKeeps

LEMMA InsertCharKeeps == ASSUME UndoInv, NEW c \in Chars, InsertChar(c) PROVE UndoInv'
<1>1. TextKey /\ Key /\ caret \in Points /\ selection' = None
  BY DEF InsertChar, TextKey
<1>2. <<c>> \in Line
  BY DEF Line
<1> DEFINE line == <<c>>
<1>3. CASE selection # None
  <2> DEFINE parts == <<line>>
             d == ReplaceDelta(lines, SelectionStart(selection), SelectionEnd(selection), parts,
                               FALSE)
  <2>1. Edit(d)
    BY <1>3 DEF InsertChar
  <2>2. parts \in NonEmpty /\ Selected
    BY <1>2, OnePart DEF UndoInv
  <2> HIDE DEF parts
  <2>3. FitsText(lines, d)
    BY <1>3, <2>2, SelectionLies, Anywhere
  <2> QED
    BY <1>1, <2>1, <2>3, EditKeyKeeps
<1>4. CASE selection = None
  <2> DEFINE d == ReplaceDelta(lines, caret, caret, <<line>>, TRUE)
  <2>1. SmallEdit(d)
    BY <1>4 DEF InsertChar
  <2> HIDE DEF line
  <2>2. FitsText(lines, d) /\ Len(d.old) = 1 /\ Len(d.new) = 1
    BY <1>1, <1>2, Positioned, WithinLine DEF line
  <2> QED
    BY <1>1, <2>1, <2>2, SmallEditKeyKeeps
<1> QED
  BY <1>3, <1>4

\* A selection is deleted first, and the lines come where it was.
LEMMA InsertLinesKeeps ==
    ASSUME UndoInv, NEW parts \in NonEmpty, InsertLines(parts)
    PROVE  UndoInv'
<1>1. TextKey /\ Key /\ caret \in Points /\ selection' = None
  BY DEF InsertLines, TextKey
<1>2. CASE selection = None
  <2>1. FitsText(lines, ReplaceDelta(lines, caret, caret, parts, FALSE))
    <3>1. InText(lines, caret) /\ caret.line <= caret.line
      BY <1>1, Positioned DEF InText, Point
    <3> QED
      BY <3>1, Anywhere
  <2>2. Edit(ReplaceDelta(lines, caret, caret, parts, FALSE))
    BY <1>2 DEF InsertLines
  <2> QED
    BY <1>1, <2>1, <2>2, EditKeyKeeps
<1>3. CASE selection # None
  <2> DEFINE gone == DeleteSelection
             text == Apply(lines, gone)
             stack == PushDelta(undo, gone)
             texts == Followed(trail, undo, text)
             d == ReplaceDelta(text, gone.after, gone.after, parts, FALSE)
  <2>1. EditFrom(text, stack, texts, d)
    BY <1>3 DEF InsertLines
  <2>2. FitsText(lines, gone) /\ InText(text, gone.after)
    <3>1. Selected
      BY DEF UndoInv
    <3> QED
      BY <1>1, <1>3, <3>1, SelectionLies, Positioned, Deleting DEF DeleteSelection
  <2>3. /\ Chain(texts, stack, <<>>, text) /\ Len(stack) <= MaxUndo
        /\ LeadsBack(trail, undo, lines) => LeadsBack(texts, stack, text)
    <3>1. Chain(trail, undo, redo, lines) /\ Len(undo) <= MaxUndo
      BY BoundKept DEF UndoInv, Stacks
    <3> HIDE DEF gone
    <3> QED
      BY <2>2, <3>1, Pushed
  <2>4. ~strayed => LeadsBack(texts, stack, text)
    BY <2>3 DEF UndoInv, Stacks
  <2>5. FitsText(text, d)
    <3>1. /\ caret \in Point /\ now \in Nat /\ text \in Text /\ FALSE \in BOOLEAN
          /\ gone.after.line <= gone.after.line
      BY <1>1, <2>2, <2>3, Positioned DEF Chain, NonEmpty, InText, Point
    <3> HIDE DEF gone, text
    <3> QED
      BY <2>2, <3>1, Replacing
  <2> HIDE DEF text, stack, texts, d, gone
  <2>6. Stacks' /\ caret' \in Point
    BY <2>1, <2>3, <2>4, <2>5, EditFromKeeps
  <2>7. Flags'
    BY <2>1 DEF UndoInv, Flags, EditFrom
  <2> QED
    BY <1>1, <2>6, <2>7, KeyKeeps DEF UndoInv, Selected
<1> QED
  BY <1>2, <1>3

LEMMA BackspaceKeeps == ASSUME UndoInv, Backspace PROVE UndoInv'
<1> DEFINE l == caret.line
           b == caret.byte
           p == At(l, b - 1)
           q == At(l - 1, Len(lines[l - 1]))
           none == <<>>
<1>1. TextKey /\ Key /\ caret \in Points /\ selection' = None
  BY DEF Backspace, TextKey
<1>2. InText(lines, caret) /\ lines \in Text /\ l \in Nat /\ b \in Nat
  BY <1>1, Positioned DEF InText, Point
<1>3. none \in Line /\ <<none>> \in NonEmpty
  BY NoText
<1>4. \/ selection # None /\ Edit(DeleteSelection)
      \/ b > 0 /\ SmallEdit(ReplaceDelta(lines, p, caret, <<none>>, TRUE))
      \/ l > 1 /\ Edit(ReplaceDelta(lines, q, caret, <<none>>, FALSE))
  BY DEF Backspace
<1> HIDE DEF none
<1>5. CASE selection # None /\ Edit(DeleteSelection)
  BY <1>1, <1>5, DeleteSelectionKeeps
<1>6. CASE b > 0 /\ SmallEdit(ReplaceDelta(lines, p, caret, <<none>>, TRUE))
  <2>1. InText(lines, p) /\ p.line = caret.line
    BY <1>2, <1>6 DEF InText, At, Point
  <2> HIDE DEF p
  <2> DEFINE d == ReplaceDelta(lines, p, caret, <<none>>, TRUE)
  <2>2. FitsText(lines, d) /\ Len(d.old) = 1 /\ Len(d.new) = 1
    BY <1>2, <1>3, <2>1, WithinLine
  <2> QED
    BY <1>1, <1>6, <2>2, SmallEditKeyKeeps
<1>7. CASE l > 1 /\ Edit(ReplaceDelta(lines, q, caret, <<none>>, FALSE))
  <2>1. l - 1 \in 1 .. Len(lines) /\ l - 1 \in Nat
    BY <1>2, <1>7 DEF InText, Text
  <2>2. Len(lines[l - 1]) \in Nat
    BY <1>2, <2>1 DEF Text
  <2>3. InText(lines, q) /\ q.line <= caret.line
    BY <1>2, <2>1, <2>2 DEF InText, At, Point
  <2> HIDE DEF q
  <2>4. FitsText(lines, ReplaceDelta(lines, q, caret, <<none>>, FALSE))
    BY <1>2, <1>3, <2>3, Anywhere
  <2> QED
    BY <1>1, <1>7, <2>4, EditKeyKeeps
<1> QED
  BY <1>4, <1>5, <1>6, <1>7

LEMMA DeleteKeeps == ASSUME UndoInv, Delete PROVE UndoInv'
<1> DEFINE l == caret.line
           b == caret.byte
           p == At(l, b + 1)
           q == At(l + 1, 0)
           none == <<>>
<1>1. TextKey /\ Key /\ caret \in Points /\ selection' = None
  BY DEF Delete, TextKey
<1>2. InText(lines, caret) /\ lines \in Text /\ l \in Nat /\ b \in Nat
  BY <1>1, Positioned DEF InText, Point
<1>3. none \in Line /\ <<none>> \in NonEmpty
  BY NoText
<1>4. \/ selection # None /\ Edit(DeleteSelection)
      \/ b < Len(lines[l]) /\ SmallEdit(ReplaceDelta(lines, caret, p, <<none>>, TRUE))
      \/ l < Len(lines) /\ Edit(ReplaceDelta(lines, caret, q, <<none>>, FALSE))
  BY DEF Delete
<1> HIDE DEF none
<1>5. CASE selection # None /\ Edit(DeleteSelection)
  BY <1>1, <1>5, DeleteSelectionKeeps
<1>6. CASE b < Len(lines[l]) /\ SmallEdit(ReplaceDelta(lines, caret, p, <<none>>, TRUE))
  <2>1. l \in 1 .. Len(lines)
    BY <1>2 DEF InText
  <2>2. Len(lines[l]) \in Nat
    BY <1>2, <2>1 DEF Text
  <2>3. InText(lines, p) /\ caret.line = p.line
    BY <1>2, <1>6, <2>1, <2>2 DEF InText, At, Point
  <2> HIDE DEF p
  <2> DEFINE d == ReplaceDelta(lines, caret, p, <<none>>, TRUE)
  <2>4. FitsText(lines, d) /\ Len(d.old) = 1 /\ Len(d.new) = 1
    BY <1>2, <1>3, <2>3, WithinLine
  <2> QED
    BY <1>1, <1>6, <2>4, SmallEditKeyKeeps
<1>7. CASE l < Len(lines) /\ Edit(ReplaceDelta(lines, caret, q, <<none>>, FALSE))
  <2>1. l + 1 \in 1 .. Len(lines) /\ l + 1 \in Nat
    BY <1>2, <1>7 DEF InText, Text
  <2>2. Len(lines[l + 1]) \in Nat
    BY <1>2, <2>1 DEF Text
  <2>3. InText(lines, q) /\ caret.line <= q.line
    BY <1>2, <2>1, <2>2 DEF InText, At, Point
  <2> HIDE DEF q
  <2>4. FitsText(lines, ReplaceDelta(lines, caret, q, <<none>>, FALSE))
    BY <1>2, <1>3, <2>3, Anywhere
  <2> QED
    BY <1>1, <1>7, <2>4, EditKeyKeeps
<1> QED
  BY <1>4, <1>5, <1>6, <1>7

LEMMA CutKeeps == ASSUME UndoInv, CutSelection PROVE UndoInv'
BY DeleteSelectionKeeps DEF CutSelection

\* Every line of the indented range grows by one character.
LEMMA IndentKeeps == ASSUME UndoInv, Indent PROVE UndoInv'
<1> DEFINE from == IF selection = None THEN caret.line ELSE SelectionStart(selection).line
           to == IF selection = None THEN caret.line ELSE SelectionEnd(selection).line
           old == SubSeq(lines, from, to)
           n == Len(old)
           new == [i \in 1 .. n |-> <<TabChar>> \o old[i]]
           after == IF selection = None THEN At(caret.line, caret.byte + 1) ELSE caret
           d == [start |-> from, old |-> old, new |-> new, before |-> caret, after |-> after,
                 time |-> now, coalescible |-> FALSE]
           next == Apply(lines, d)
<1>1. TextKey /\ Key /\ caret \in Points /\ selection' = selection /\ Edit(d)
  BY DEF Indent, TextKey
<1>2. lines \in Text /\ InText(lines, caret) /\ caret \in Point /\ now \in Nat
  BY <1>1, Positioned
<1>3. from \in 1 .. Len(lines) /\ to \in from .. Len(lines)
  <2>0. Len(lines) \in Nat
    BY <1>2 DEF Text
  <2>1. CASE selection = None
    BY <1>2, <2>0, <2>1 DEF InText, Point
  <2>2. CASE selection # None
    <3>1. /\ InText(lines, SelectionStart(selection)) /\ InText(lines, SelectionEnd(selection))
          /\ SelectionStart(selection).line <= SelectionEnd(selection).line
      BY <2>2, SelectionLies DEF UndoInv
    <3>2. from = SelectionStart(selection).line /\ to = SelectionEnd(selection).line
      BY <2>2
    <3>3. from \in 1 .. Len(lines) /\ to \in 1 .. Len(lines) /\ from <= to
      BY <3>1, <3>2 DEF InText
    <3> QED
      BY <2>0, <3>3
  <2> QED
    BY <2>1, <2>2
<1>4. after \in Point
  BY <1>2 DEF At, Point
<1> HIDE DEF from, to, after
<1>5. /\ old \in Text /\ n = to - from + 1 /\ from - 1 + n <= Len(lines)
      /\ old = SubSeq(lines, from, from + n - 1)
      /\ \A i \in 1 .. n : old[i] = lines[from + i - 1] /\ old[i] \in Line
  BY <1>2, <1>3, LinesOf
<1>6. from \in Nat /\ 1 <= from /\ n \in Nat /\ 1 <= n /\ Len(lines) \in Nat
  <2>1. Len(lines) \in Nat
    BY <1>2 DEF Text
  <2>2. from \in Nat /\ 1 <= from /\ to \in Nat /\ from <= to
    BY <1>3, <2>1
  <2>3. to - from + 1 \in Nat /\ 1 <= to - from + 1
    BY <2>2
  <2> QED
    BY <1>5, <2>1, <2>2, <2>3
<1> HIDE DEF old, n
<1>7. \A i \in 1 .. n : /\ <<TabChar>> \o old[i] \in Line
                        /\ Len(<<TabChar>> \o old[i]) = Len(lines[from + i - 1]) + 1
  <2> TAKE i \in 1 .. n
  <2> DEFINE tabs == <<TabChar>>
  <2>1. tabs \in Line /\ Len(tabs) = 1
    BY DEF Line
  <2> HIDE DEF tabs
  <2>2. tabs \o old[i] \in Line /\ Len(tabs \o old[i]) = 1 + Len(old[i])
    <3> DEFINE line == old[i]
    <3>1. line \in Line
      BY <1>5
    <3> HIDE DEF line
    <3>2. tabs \o line \in Line /\ Len(tabs \o line) = Len(tabs) + Len(line)
      BY <2>1, <3>1, LinesJoined
    <3> QED
      BY <2>1, <3>2 DEF line
  <2>3. Len(old[i]) \in Nat
    BY <1>5 DEF Line
  <2>4. Len(tabs \o old[i]) = Len(old[i]) + 1
    BY <2>2, <2>3
  <2> QED
    BY <1>5, <2>2, <2>4 DEF tabs
<1>8. /\ new \in Text /\ Len(new) = n
      /\ \A i \in 1 .. n : Len(new[i]) = Len(lines[from + i - 1]) + 1
  <2>1. new \in [1 .. n -> Line]
    BY <1>7
  <2>2. new \in Seq(Line)
    BY <1>6, <2>1, SeqDef
  <2>3. DOMAIN new = 1 .. n
    OBVIOUS
  <2>4. Len(new) = n
    BY <1>6, <2>2, <2>3, LenProperties
  <2> QED
    BY <1>7, <2>2, <2>4 DEF Text, Line
<1> HIDE DEF new
<1>9. /\ d.start = from /\ d.old = old /\ d.new = new /\ d.coalescible = FALSE /\ d \in Delta
  BY <1>2, <1>4, <1>5, <1>6, <1>8 DEF Delta
<1> HIDE DEF d
<1>10. FitsText(lines, d)
  BY <1>5, <1>6, <1>8, <1>9 DEF FitsText, n
<1>11. Stacks' /\ caret' \in Point /\ lines' = next
  BY <1>1, <1>10, EditKeeps DEF UndoInv, Edit, EditFrom
<1>12. /\ next \in Text /\ Len(next) = Len(lines)
       /\ \A l \in 1 .. Len(lines) : Len(lines[l]) <= Len(next[l])
  <2> DEFINE count == Len(lines)
  <2>1. lines \in Seq(Line) /\ new \in Seq(Line) /\ Len(new) = n /\ Len(d.old) = n /\ count \in Nat
    BY <1>2, <1>6, <1>8, <1>9 DEF Text, Line, n
  <2> HIDE DEF count
  <2>2. IsSpliced(Line, Splice(lines, from, n, new), lines, from, n, new)
    BY <1>5, <1>6, <2>1, Spliced DEF count
  <2>3. next = Splice(lines, from, n, new)
    BY <1>9, <2>1 DEF Apply
  <2> HIDE DEF next
  <2>4. count - n + n = count
    BY <1>6, <2>1
  <2>5. /\ next \in Seq(Line) /\ Len(next) = count
        /\ \A i \in 1 .. count :
               next[i] = IF i < from THEN lines[i] ELSE IF i < from + n THEN new[i - from + 1]
                         ELSE lines[i - n + n]
    BY <2>1, <2>2, <2>3, <2>4 DEF IsSpliced, count
  <2>6. ASSUME NEW l \in 1 .. count PROVE Len(lines[l]) <= Len(next[l])
    <3>1. Len(lines[l]) \in Nat
      BY <1>2, <2>6 DEF Text, count
    <3>2. CASE ~(l < from) /\ l < from + n
      <4> DEFINE k == l - from + 1
      <4>1. k \in 1 .. n /\ from + k - 1 = l
        BY <1>6, <2>1, <3>2
      <4>2. next[l] = new[k]
        BY <2>5, <3>2
      <4> HIDE DEF k
      <4>3. Len(new[k]) = Len(lines[l]) + 1
        BY <1>8, <4>1
      <4> QED
        BY <3>1, <4>2, <4>3
    <3>3. CASE l < from \/ ~(l < from + n)
      <4>1. l - n + n = l
        BY <1>6, <2>1
      <4>2. next[l] = lines[l]
        BY <2>5, <3>3, <4>1
      <4> QED
        BY <3>1, <4>2
    <3> QED
      BY <3>2, <3>3
  <2> QED
    BY <2>5, <2>6 DEF Text, Line, count
<1> HIDE DEF next
<1>13. ASSUME NEW p, InText(lines, p) PROVE InText(next, p)
  <2>1. p.line \in 1 .. Len(lines) /\ p.byte \in 0 .. Len(lines[p.line])
    BY <1>13 DEF InText
  <2>2. Len(lines[p.line]) <= Len(next[p.line])
    BY <1>12, <2>1
  <2>3. Len(lines[p.line]) \in Nat /\ Len(next[p.line]) \in Nat
    BY SMTT(40), <1>2, <1>12, <2>1 DEF Text
  <2>4. p.byte \in 0 .. Len(next[p.line])
    BY <2>1, <2>2, <2>3
  <2> QED
    BY <1>12, <1>13, <2>1, <2>4 DEF InText
<1>14. Selected'
  BY <1>1, <1>11, <1>13 DEF UndoInv, Selected
<1>15. Flags'
  BY <1>1 DEF UndoInv, Flags, Edit, EditFrom
<1> QED
  BY <1>1, <1>11, <1>14, <1>15, KeyKeeps DEF UndoInv

LEMMA UndoKeeps == ASSUME UndoInv, Undo PROVE UndoInv'
<1>1. Key /\ undo # <<>> /\ selection' = None
  BY DEF Undo
<1>2. /\ lines' = Revert(lines, Last(undo)) /\ caret' = Last(undo).before
      /\ undo' = Front(undo) /\ redo' = Append(redo, Last(undo))
      /\ trail' = trail /\ strayed' = strayed /\ dirty' = TRUE /\ saved' = saved
  BY DEF Undo, UndoDirty
<1>3. /\ Last(undo) \in Delta
      /\ Chain(trail, Front(undo), Append(redo, Last(undo)), Revert(lines, Last(undo)))
      /\ Len(Front(undo)) + Len(Append(redo, Last(undo))) = Len(undo) + Len(redo)
      /\ LeadsBack(trail, undo, lines)
           => LeadsBack(trail, Front(undo), Revert(lines, Last(undo)))
  BY <1>1, ChainUndo DEF UndoInv, Stacks
<1>4. Stacks'
  BY <1>2, <1>3 DEF UndoInv, Stacks
<1>5. caret' \in Point
  BY <1>2, <1>3, DeltaParts
<1>6. Flags'
  BY <1>2 DEF UndoInv, Flags
<1> QED
  BY <1>1, <1>4, <1>5, <1>6, KeyKeeps DEF UndoInv, Selected

\* A delta that does not fit keeps the counts of lines.
LEMMA RedoKeeps == ASSUME UndoInv, Redo PROVE UndoInv'
<1> DEFINE d == Last(redo)
           texts == [trail EXCEPT ![Len(undo) + 2] = Apply(lines, d)]
<1>1. Key /\ redo # <<>> /\ selection' = None
  BY DEF Redo
<1>2. /\ lines' = Apply(lines, d) /\ caret' = d.after
      /\ redo' = Front(redo) /\ undo' = Append(undo, d)
      /\ trail' = texts /\ dirty' = TRUE /\ saved' = saved
      /\ strayed' = (strayed \/ ~RedoFits)
  BY DEF Redo, UndoDirty
<1>3. /\ d \in Delta
      /\ Chain(texts, Append(undo, d), Front(redo), Apply(lines, d))
      /\ Len(Append(undo, d)) + Len(Front(redo)) = Len(undo) + Len(redo)
      /\ /\ LeadsBack(trail, undo, lines)
         /\ SubSeq(lines, d.start, d.start + Len(d.old) - 1) = d.old
         => LeadsBack(texts, Append(undo, d), Apply(lines, d))
  BY <1>1, ChainRedo DEF UndoInv, Stacks
<1>4. ASSUME ~strayed' PROVE LeadsBack(trail', undo', lines')
  <2>1. ~strayed /\ SubSeq(lines, d.start, d.start + Len(d.old) - 1) = d.old
    BY <1>2, <1>4 DEF RedoFits
  <2> QED
    BY <1>2, <1>3, <2>1 DEF UndoInv, Stacks
<1> HIDE DEF d, texts
<1>5. Stacks'
  BY <1>2, <1>3, <1>4 DEF UndoInv, Stacks
<1>6. caret' \in Point
  BY <1>2, <1>3, DeltaParts
<1>7. Flags'
  BY <1>2 DEF UndoInv, Flags
<1> QED
  BY <1>1, <1>5, <1>6, <1>7, KeyKeeps DEF UndoInv, Selected

LEMMA StacksUnchanged ==
    ASSUME Stacks, UNCHANGED <<lines, undo, redo, trail, strayed>>
    PROVE  Stacks'
BY DEF Stacks

LEMMA MoveKeeps ==
    ASSUME UndoInv, NEW p \in Points, NEW extend \in BOOLEAN, MoveCaret(p, extend)
    PROVE  UndoInv'
<1>1. Key /\ UNCHANGED <<lines, undo, redo, trail, strayed, dirty, saved>> /\ caret' = p
  BY DEF MoveCaret, TextKey
<1>2. lines \in Text
  BY DEF UndoInv, Stacks, Chain, NonEmpty
<1>3. InText(lines, p)
  BY <1>2, PointsAreInText
<1>4. Selected'
  <2>1. CASE ~extend
    BY <2>1 DEF MoveCaret, Selected
  <2>2. CASE extend
    <3>1. InText(lines, caret)
      BY <1>2, <2>2, PointsAreInText DEF MoveCaret, TextKey
    <3>2. selection' = [anchor |-> IF selection = None THEN caret ELSE selection.anchor,
                        head |-> p]
      BY <2>2 DEF MoveCaret
    <3> QED
      BY <1>1, <1>3, <3>1, <3>2 DEF UndoInv, Selected
  <2> QED
    BY <2>1, <2>2
<1>5. Stacks'
  BY <1>1, StacksUnchanged DEF UndoInv
<1>6. Flags' /\ caret' \in Point
  BY <1>1, <1>3 DEF UndoInv, Flags, InText
<1> QED
  BY <1>1, <1>4, <1>5, <1>6, KeyKeeps DEF UndoInv

----------------------------------------------------------------------------------
(* The session begins and ends, and is saved *)

\* A session, or the preview, of one text without edits.
LEMMA FreshStacks ==
    ASSUME lines' \in NonEmpty, trail' = <<lines'>>, undo' = <<>>, redo' = <<>>
    PROVE  Stacks'
<1>1. Chain(<<lines'>>, <<>>, <<>>, lines') /\ LeadsBack(<<lines'>>, <<>>, lines')
  BY OneText
<1>2. Len(<<>>) + Len(<<>>) <= MaxUndo
  BY BoundAssumption
<1> QED
  BY <1>1, <1>2 DEF Stacks

LEMMA BeginKeeps == ASSUME UndoInv, Begin PROVE UndoInv'
<1>1. disk \in NonEmpty /\ lines \in NonEmpty
  BY DEF UndoInv, Plain, Stacks, Chain
<1>2. Stacks'
  BY <1>1, FreshStacks DEF Begin
<1>3. caret' \in Point
  <2>1. PICK l \in 1 .. Len(disk) : caret' = At(l, 0)
    BY DEF Begin
  <2>2. Len(disk) \in Nat
    BY <1>1 DEF NonEmpty, Text
  <2> QED
    BY <2>1, <2>2 DEF At, Point
<1>4. Plain' /\ Flags' /\ Selected'
  BY <1>1 DEF UndoInv, Plain, Flags, Selected, Begin
<1> QED
  BY <1>2, <1>3, <1>4 DEF UndoInv

LEMMA EscapeKeeps == ASSUME UndoInv, Escape PROVE UndoInv'
<1>1. CASE dirty /\ ~escapePending
  <2>1. /\ UNCHANGED <<mode, lines, snapshot, baseline, caret, selection, undo, redo, dirty, saved,
                       trail, strayed, raced, disk, saving, now>>
        /\ escapePending' = TRUE
    BY <1>1 DEF Escape, history
  <2>2. Stacks'
    BY <2>1, StacksUnchanged DEF UndoInv
  <2> QED
    BY <2>1, <2>2 DEF UndoInv, Plain, Flags, Selected
<1>2. CASE ~(dirty /\ ~escapePending)
  <2>1. /\ mode' = "preview" /\ lines' = (IF ~dirty /\ saved THEN disk ELSE snapshot)
        /\ NoSession(lines') /\ UNCHANGED <<disk, saving, now>>
    BY <1>2 DEF Escape
  <2>2. lines' \in NonEmpty
    BY <2>1 DEF UndoInv, Plain
  <2>3. Stacks'
    BY <2>1, <2>2, FreshStacks DEF NoSession
  <2>4. Plain' /\ Flags' /\ Selected' /\ caret' \in Point
    BY <2>1, <2>2 DEF UndoInv, Plain, Flags, Selected, NoSession, At, Point
  <2> QED
    BY <2>3, <2>4 DEF UndoInv
<1> QED
  BY <1>1, <1>2

LEMMA SavingKeeps ==
    ASSUME UndoInv,
           SaveChecks \/ SaveConflicts \/ SaveWritesTemporary \/ SaveRenames \/ SaveFails
    PROVE  UndoInv'
<1>1. UNCHANGED <<lines, undo, redo, trail, strayed, caret, selection>>
  BY DEF SaveChecks, SaveConflicts, SaveWritesTemporary, SaveRenames, SaveFails, session, history
<1>2. Stacks'
  BY <1>1, StacksUnchanged DEF UndoInv
<1>3. lines \in NonEmpty
  BY DEF UndoInv, Stacks, Chain
<1>4. Plain' /\ Flags'
  BY <1>1, <1>3 DEF UndoInv, Plain, Flags, SaveChecks, SaveConflicts, SaveWritesTemporary,
     SaveRenames, SaveFails, Key, Editing, session, history
<1> QED
  BY <1>1, <1>2, <1>4 DEF UndoInv, Selected

LEMMA OthersKeep ==
    ASSUME UndoInv, Tick \/ OtherProcessWrites \/ UNCHANGED vars
    PROVE  UndoInv'
<1>1. UNCHANGED <<lines, undo, redo, trail, strayed, caret, selection, dirty, saved>>
  BY DEF Tick, OtherProcessWrites, session, history, vars
<1>2. Stacks'
  BY <1>1, StacksUnchanged DEF UndoInv
<1>3. OtherText \in NonEmpty
  BY TextAssumption DEF NonEmpty
<1>4. Plain'
  <2>1. CASE Tick
    BY <2>1 DEF UndoInv, Plain, Tick, session, history
  <2>2. CASE OtherProcessWrites
    BY <1>3, <2>2 DEF UndoInv, Plain, OtherProcessWrites, session
  <2>3. CASE UNCHANGED vars
    BY <2>3 DEF UndoInv, Plain, vars, session, history
  <2> QED
    BY <2>1, <2>2, <2>3
<1>5. Flags' /\ Selected'
  BY <1>1 DEF UndoInv, Flags, Selected
<1> QED
  BY <1>1, <1>2, <1>4, <1>5 DEF UndoInv

LEMMA UndoStep == UndoInv /\ [Next]_vars => UndoInv'
<1> SUFFICES ASSUME UndoInv, [Next]_vars PROVE UndoInv'
  OBVIOUS
<1>1. ASSUME NEW c \in Chars, InsertChar(c) PROVE UndoInv'
  BY <1>1, InsertCharKeeps
<1>2. ASSUME InsertNewline PROVE UndoInv'
  <2> DEFINE none == <<>>
             parts == <<none, none>>
  <2>1. none \in Line
    BY NoText
  <2> HIDE DEF none
  <2>2. parts \in Seq(Line) /\ Len(parts) = 2
    BY <2>1
  <2> HIDE DEF parts
  <2>3. parts \in NonEmpty
    <3>1. parts \in Text
      BY <2>2 DEF Text, Line
    <3>2. 1 <= Len(parts)
      BY <2>2
    <3> QED
      BY <3>1, <3>2, NonEmptyText
  <2>4. InsertLines(parts)
    BY <1>2 DEF InsertNewline, parts, none
  <2> QED
    BY <2>3, <2>4, InsertLinesKeeps
<1>3. ASSUME NEW parts \in Pastes, Paste(parts) PROVE UndoInv'
  <2>1. parts \in NonEmpty
    BY TextAssumption DEF NonEmpty
  <2> QED
    BY <1>3, <2>1, InsertLinesKeeps DEF Paste
<1>4. CASE Backspace \/ Delete \/ CutSelection \/ Indent \/ Undo \/ Redo
  BY <1>4, BackspaceKeeps, DeleteKeeps, CutKeeps, IndentKeeps, UndoKeeps, RedoKeeps
<1>5. ASSUME NEW p \in Points, NEW extend \in BOOLEAN, MoveCaret(p, extend) PROVE UndoInv'
  BY <1>5, MoveKeeps
<1>6. CASE Begin \/ Escape
  BY <1>6, BeginKeeps, EscapeKeeps
<1>7. CASE SaveChecks \/ SaveConflicts \/ SaveWritesTemporary \/ SaveRenames \/ SaveFails
  BY <1>7, SavingKeeps
<1>8. CASE Tick \/ OtherProcessWrites \/ UNCHANGED vars
  BY <1>8, OthersKeep
<1> QED
  BY <1>1, <1>2, <1>3, <1>4, <1>5, <1>6, <1>7, <1>8 DEF Next

\* For every file, every sequence of keys and every limit of the stack, undo leads back
\* through exactly the texts that the edits led through, however they were merged; the
\* stacks keep their limit and a selection stays inside the buffer.
THEOREM UndoLeadsHome == Spec => []UndoIsSound
BY UndoInit, UndoStep, UndoInvImplies, PTL DEF Spec

--------------------------------------------------------------------------------
(* The UI around the sessions: unsaved changes are not lost unannounced *)

\* What hears the keys is what the footer speaks of: the lists agree on the edit session,
\* and where nothing is up.
LEMMA FooterHears ==
    /\ OnTop("edit", KeyOrder) => OnTop("edit", FooterOrder)
    /\ OnTop("base", KeyOrder) => OnTop("base", FooterOrder) /\ ~OnTop("edit", FooterOrder)
<1>1. /\ Len(KeyOrder) = 9
      /\ KeyOrder[1] = "menu" /\ KeyOrder[2] = "palette" /\ KeyOrder[3] = "send"
      /\ KeyOrder[4] = "picker" /\ KeyOrder[5] = "context" /\ KeyOrder[6] = "find"
      /\ KeyOrder[7] = "edit" /\ KeyOrder[8] = "search" /\ KeyOrder[9] = "base"
  BY DEF KeyOrder
<1>2. /\ Len(FooterOrder) = 6
      /\ FooterOrder[1] = "send" /\ FooterOrder[2] = "picker" /\ FooterOrder[3] = "find"
      /\ FooterOrder[4] = "edit" /\ FooterOrder[5] = "search" /\ FooterOrder[6] = "base"
  BY DEF FooterOrder
<1>3. ASSUME NEW i \in 1..9 PROVE \A j \in 1..(i - 1) : j \in 1..9
  OBVIOUS
<1>4. OnTop("edit", KeyOrder) => /\ Up("edit") /\ ~Up("send") /\ ~Up("picker") /\ ~Up("find")
  BY <1>1 DEF OnTop
<1>5. OnTop("base", KeyOrder) => /\ Up("base") /\ ~Up("send") /\ ~Up("picker") /\ ~Up("find")
                                 /\ ~Up("edit") /\ ~Up("search")
  BY <1>1 DEF OnTop
<1>6. Up("edit") /\ ~Up("send") /\ ~Up("picker") /\ ~Up("find") => OnTop("edit", FooterOrder)
  <2>1. SUFFICES ASSUME Up("edit"), ~Up("send"), ~Up("picker"), ~Up("find")
                 PROVE  \A j \in 1..(4 - 1) : ~Up(FooterOrder[j])
    BY <1>2 DEF OnTop
  <2>2. \A j \in 1..(4 - 1) : j = 1 \/ j = 2 \/ j = 3
    OBVIOUS
  <2>3. QED
    BY <1>2, <2>1, <2>2
<1>7. Up("base") /\ ~Up("send") /\ ~Up("picker") /\ ~Up("find") /\ ~Up("edit") /\ ~Up("search")
        => OnTop("base", FooterOrder)
  <2>1. SUFFICES ASSUME Up("base"), ~Up("send"), ~Up("picker"), ~Up("find"), ~Up("edit"),
                        ~Up("search")
                 PROVE  \A j \in 1..(6 - 1) : ~Up(FooterOrder[j])
    BY <1>2 DEF OnTop
  <2>2. \A j \in 1..(6 - 1) : j = 1 \/ j = 2 \/ j = 3 \/ j = 4 \/ j = 5
    OBVIOUS
  <2>3. QED
    BY <1>2, <2>1, <2>2
<1>8. ~Up("edit") => ~OnTop("edit", FooterOrder)
  BY DEF OnTop
<1>9. QED
  BY <1>4, <1>5, <1>6, <1>7, <1>8

\* Sessions have one of their states: what the other facts need of the model's state.
SessionsAreTyped == editing \in [TabIds -> EditStates]

LEMMA EditedIsTyped == ASSUME NEW state PROVE Edited(state) \subseteq EditStates \ {"none"}
BY DEF Edited, EditStates, Unsaved

\* A step that leaves the sessions and the end of the program alone is of no concern.
Quiet == UNCHANGED <<editing, closed>>

LEMMA PressIsQuiet ==
    ASSUME NEW topic, NEW layer, NEW shells PROVE Press(topic, layer, shells) => Quiet
BY DEF Press, Becomes, Quiet
LEMMA ClickIsQuiet ==
    ASSUME NEW topic, NEW layer, NEW shells PROVE Click(topic, layer, shells) => Quiet
BY DEF Click, Becomes, Quiet
LEMMA ArrivalIsQuiet == ASSUME NEW shells PROVE Arrives(shells) => Quiet
BY DEF Arrives, Becomes, Quiet

\* What is left: the keys of an edit session, closing a tab, and leaving
Loud == \/ EnterEdit \/ KeyInEdit \/ PasteInEdit \/ EscapeInEdit \/ \E t : CloseOne(t)
        \/ PressToQuit("q") \/ PressToQuit("Esc") \/ CtrlC

LEMMA MostAreQuiet == ShellNext => Quiet \/ Loud
<1>1. PopupStep => Quiet
  <2>1. KeyInMenu \/ KeyInPalette \/ KeyInSend \/ KeyInPicker \/ KeyInContext \/ KeyInFind
            \/ KeyInSearch => Quiet
    BY PressIsQuiet DEF KeyInMenu, KeyInPalette, KeyInSend, KeyInPicker, KeyInContext,
                        KeyInFind, KeyInSearch
  <2>2. ClickInMenu \/ ClickInSend \/ ClickInPicker \/ ClickInContext \/ PastContext
            \/ ClickInSearch => Quiet
    BY ClickIsQuiet DEF ClickInMenu, ClickInSend, ClickInPicker, ClickInContext, PastContext,
                        ClickInSearch
  <2>3. QED
    BY <2>1, <2>2 DEF PopupStep
<1>2. EditStep => Quiet \/ Loud
  <2>1. FindInEdit \/ ClickInEdit => Quiet
    BY PressIsQuiet, ClickIsQuiet DEF FindInEdit, ClickInEdit
  <2>2. QED
    BY <2>1 DEF EditStep, Loud
<1>3. PaneStep => Quiet \/ Loud
  <2>1. KeyForTabs \/ KeyForFind \/ KeyForSearch \/ KeyForOpen \/ KeyForPanes \/ KeyForSend
            \/ KeyForTargets => Quiet
    BY PressIsQuiet DEF KeyForTabs, KeyForFind, KeyForSearch, KeyForOpen, KeyForPanes,
                        KeyForSend, KeyForTargets
  <2>2. ClickOnTabs \/ ClickOnFind \/ ClickOnSearch \/ ClickOnOpen \/ ClickOnTree
            \/ ClickOnPath \/ ClickOnText => Quiet
    BY ClickIsQuiet DEF ClickOnTabs, ClickOnFind, ClickOnSearch, ClickOnOpen, ClickOnTree,
                        ClickOnPath, ClickOnText
  <2>3. KeyToClose \/ ClickToClose => Loud
    BY DEF KeyToClose, ClickToClose, Loud
  <2>4. QED
    BY <2>1, <2>2, <2>3 DEF PaneStep
<1>4. Arrival => Quiet
  <2>1. SendSettles => Quiet
    BY DEF SendSettles, Becomes, Quiet
  <2>2. TextArrives \/ DroppedArrives \/ StageArrives => Quiet
    BY ArrivalIsQuiet DEF TextArrives, DroppedArrives, StageArrives
  <2>3. AnswerArrives \/ OpenArrives \/ OpenDelivered \/ TreeArrives => Quiet
    BY ArrivalIsQuiet DEF AnswerArrives, OpenArrives, OpenDelivered, TreeArrives
  <2>4. QED
    BY <2>1, <2>2, <2>3 DEF Arrival
<1>5. Leaving => Quiet \/ Loud
  <2>1. TimePasses \/ PollQuit => Quiet
    BY ArrivalIsQuiet DEF TimePasses, PollQuit, Quiet
  <2>2. QED
    BY <2>1 DEF Leaving, Loud
<1>6. QED
  BY <1>1, <1>2, <1>3, <1>4, <1>5 DEF ShellNext

LEMMA SessionsStayTyped == SessionsAreTyped /\ [ShellNext]_shellVars => SessionsAreTyped'
<1>1. SUFFICES ASSUME SessionsAreTyped, ShellNext, Loud PROVE SessionsAreTyped'
  BY MostAreQuiet DEF Quiet, SessionsAreTyped, shellVars
<1>2. {"none", "clean", "saved"} \subseteq EditStates
  BY DEF EditStates
<1>3. CASE EnterEdit
  BY <1>1, <1>2, <1>3 DEF EnterEdit, Session, SessionsAreTyped
<1>4. CASE KeyInEdit \/ PasteInEdit
  BY <1>1, <1>2, <1>4, EditedIsTyped DEF KeyInEdit, PasteInEdit, Session, SessionsAreTyped
<1>5. CASE EscapeInEdit
  BY <1>1, <1>2, <1>5 DEF EscapeInEdit, Session, SessionsAreTyped
<1>6. CASE \E t : CloseOne(t)
  BY <1>1, <1>2, <1>6 DEF CloseOne, SessionsAreTyped
<1>7. CASE PressToQuit("q") \/ PressToQuit("Esc") \/ CtrlC
  BY <1>1, <1>7 DEF PressToQuit, CtrlC, SessionsAreTyped
<1>8. QED
  BY <1>1, <1>3, <1>4, <1>5, <1>6, <1>7 DEF Loud

\* A session that ends with unsaved changes ends by the second Esc in the tab in front.
LEMMA SessionsEndAnnounced ==
    ASSUME SessionsAreTyped, ShellNext, NEW t \in TabIds,
           editing[t] \in Unsaved, editing'[t] = "none"
    PROVE  t = shell.front /\ Footer = "discard"
<1>1. ~Quiet
  BY DEF Quiet, Unsaved
<1>2. ~EnterEdit
  BY DEF EnterEdit, Session, SessionsAreTyped, Unsaved
<1>3. ~KeyInEdit /\ ~PasteInEdit
  BY EditedIsTyped DEF KeyInEdit, PasteInEdit, Session, SessionsAreTyped, Unsaved
<1>4. ASSUME NEW u, CloseOne(u) PROVE FALSE
  BY <1>4 DEF CloseOne, MayClose, SessionsAreTyped, Unsaved
<1>5. ~PressToQuit("q") /\ ~PressToQuit("Esc") /\ ~CtrlC
  BY DEF PressToQuit, CtrlC, Unsaved
<1>6. EscapeInEdit
  BY <1>1, <1>2, <1>3, <1>4, <1>5, MostAreQuiet DEF Loud
<1>7. t = shell.front /\ MayLeave
  BY <1>6 DEF EscapeInEdit, Session, SessionsAreTyped, Unsaved
<1>8. OnTop("edit", FooterOrder)
  BY <1>6, FooterHears DEF EscapeInEdit, InEdit, Taken
<1>9. QED
  BY <1>7, <1>8 DEF MayLeave, Footer

\* The program ends by the key that the footer says, or by Ctrl+C.
LEMMA EndIsAnnounced ==
    ASSUME ShellNext, closed' # closed PROVE Footer = "again" \/ CtrlC
<1>1. SUFFICES ASSUME NEW key \in {"q", "Esc"}, PressToQuit(key) PROVE Footer = "again"
  BY MostAreQuiet DEF Loud, Quiet, EnterEdit, KeyInEdit, InEdit, PasteInEdit, EscapeInEdit, CloseOne
<1>2. Confirmed(key)
  BY <1>1 DEF PressToQuit
<1>3. OnTop("base", FooterOrder) /\ ~OnTop("edit", FooterOrder)
  BY <1>1, FooterHears DEF PressToQuit, Taken
<1>4. QED
  BY <1>2, <1>3 DEF Confirmed, Footer

\* The footer has warned before unsaved changes go and before the program ends, for any
\* number of tabs, any limit on them and any time to confirm in.
THEOREM ChangesAreNotLostSilently == ShellSpec => LossIsAnnounced
<1>1. ShellInit => SessionsAreTyped
  BY DEF ShellInit, SessionsAreTyped, EditStates
<1>2. SessionsAreTyped /\ [ShellNext]_shellVars =>
        [/\ \A t \in TabIds : editing[t] \in Unsaved /\ editing'[t] = "none" =>
                                  t = shell.front /\ Footer = "discard"
         /\ closed' # closed => Footer = "again" \/ CtrlC]_shellVars
  BY SessionsEndAnnounced, EndIsAnnounced
<1>3. QED
  BY <1>1, <1>2, SessionsStayTyped, PTL DEF ShellSpec, LossIsAnnounced

--------------------------------------------------------------------------------
(* The UI around the sessions: its layers agree *)

\* What the state of the UI consists of
Fields == {"strip", "front", "born", "kind", "lines", "wants", "menu", "palette", "context",
           "send", "picker", "find", "search", "focus", "hidden", "quit", "again", "offer",
           "ask", "strays"}
IsShell(s) == DOMAIN s = Fields /\ DOMAIN s.lines = TabIds

\* Most of what happens below the popups opens none of them, leaves the layout and the
\* search alone, gives no tab the text of an edit and moves the focus to a pane that shows.
Moved(s, r) ==
    /\ IsShell(r)
    /\ r.hidden = s.hidden /\ r.search = s.search /\ r.strays = s.strays
    /\ (r.menu => s.menu) /\ (r.context => s.context) /\ (r.find => s.find)
    /\ \A t \in TabIds : r.lines[t] = "buffer" => s.lines[t] = "buffer"
    /\ r.focus = s.focus \/ ~Hidden(r, r.focus)

LEMMA MovedTwice ==
    ASSUME NEW s, NEW r, NEW q, Moved(s, r), Moved(r, q) PROVE Moved(s, q)
BY DEF Moved, Hidden

LEMMA MovedNot == ASSUME NEW s, IsShell(s) PROVE Moved(s, s)
BY DEF Moved

LEMMA CancelMoves == ASSUME NEW s, IsShell(s) PROVE Moved(s, Cancel(s))
BY DEF Moved, Cancel, IsShell, Fields

LEMMA ShowsMoves ==
    ASSUME NEW s, IsShell(s), NEW text, text # "buffer", NEW want
    PROVE  Moved(s, Shows(s, text, want)) /\ ~Shows(s, text, want).find
<1> DEFINE c == Cancel(s)
<1>1. Moved(s, c)
  BY CancelMoves
<1>2. IsShell(c)
  BY <1>1 DEF Moved
<1>3. Shows(s, text, want) = [c EXCEPT !.lines[s.front] = text, !.wants[s.front] = want,
                      !.find = FALSE, !.offer = "none"]
  BY DEF Shows
<1> HIDE DEF c
<1>4. Moved(c, Shows(s, text, want)) /\ ~Shows(s, text, want).find
  BY <1>2, <1>3 DEF Moved, IsShell, Fields
<1>5. QED
  BY <1>1, <1>4, MovedTwice

LEMMA PreviewMoves == ASSUME NEW s, IsShell(s), NEW r \in Preview(s) PROVE Moved(s, r)
BY ShowsMoves, MovedNot DEF Preview

LEMMA DiffMoves == ASSUME NEW s, IsShell(s), NEW r \in Diff(s) PROVE Moved(s, r)
BY ShowsMoves DEF Diff

LEMMA LoadsMove == ASSUME NEW s, IsShell(s), NEW r \in Loads(s) PROVE Moved(s, r)
BY PreviewMoves, DiffMoves DEF Loads

LEMMA PreviewsMove == ASSUME NEW s, IsShell(s), NEW r \in Previews(s) PROVE Moved(s, r)
BY ShowsMoves, MovedNot DEF Previews

LEMMA TurnMoves == ASSUME NEW s, IsShell(s), NEW t, NEW r \in Turn(s, t) PROVE Moved(s, r)
<1> DEFINE there == [s EXCEPT !.front = t]
<1>1. Moved(s, there)
  BY DEF Moved, IsShell, Fields
<1>2. IsShell(there)
  BY <1>1 DEF Moved
<1>3. r = s \/ r \in Loads(there)
  BY DEF Turn
<1> HIDE DEF there
<1>4. QED
  BY <1>1, <1>2, <1>3, MovedNot, LoadsMove, MovedTwice

LEMMA OpenTabMoves ==
    ASSUME NEW s, IsShell(s), NEW kind, kind # "search", NEW r \in OpenTab(s, kind)
    PROVE  Moved(s, r)
<1> DEFINE new == s.born + 1
           more == [s EXCEPT !.strip = Append(@, new), !.born = new, !.kind[new] = kind]
<1>1. Moved(s, more)
  BY DEF Moved, IsShell, Fields
<1>2. IsShell(more)
  BY <1>1 DEF Moved
<1>3. r = s \/ r \in Turn(more, new)
  BY DEF OpenTab
<1> HIDE DEF new, more
<1>4. QED
  BY <1>1, <1>2, <1>3, MovedNot, TurnMoves, MovedTwice

LEMMA FilesTabMoves == ASSUME NEW s, IsShell(s), NEW r \in FilesTab(s) PROVE Moved(s, r)
BY TurnMoves, OpenTabMoves DEF FilesTab

LEMMA OpenFileMoves == ASSUME NEW s, IsShell(s), NEW r \in OpenFile(s) PROVE Moved(s, r)
<1>1. PICK q \in FilesTab(s) : r \in Preview(q)
  BY DEF OpenFile
<1>2. Moved(s, q) /\ IsShell(q)
  BY <1>1, FilesTabMoves DEF Moved
<1>3. QED
  BY <1>1, <1>2, PreviewMoves, MovedTwice

LEMMA CloseTabMoves ==
    ASSUME NEW s, IsShell(s), NEW t, NEW r \in CloseTab(s, t)
    PROVE  Moved(s, r) /\ (t \in TabIds => r.lines[t] # "buffer")
<1> DEFINE left == SelectSeq(s.strip, LAMBDA u : u # t)
           gone == [s EXCEPT !.strip = left, !.lines[t] = "info", !.wants[t] = "none"]
<1>1. Moved(s, gone) /\ (t \in TabIds => gone.lines[t] # "buffer") /\ IsShell(gone)
  BY DEF Moved, IsShell, Fields
<1>2. PICK f : r = gone \/ r \in Loads([gone EXCEPT !.front = f])
  BY DEF CloseTab
<1> DEFINE there == [gone EXCEPT !.front = f]
<1> HIDE DEF gone
<1>3. Moved(gone, there) /\ IsShell(there)
  BY <1>1 DEF Moved, IsShell, Fields
<1> HIDE DEF there
<1>4. r = gone \/ r \in Loads(there)
  BY <1>2 DEF there
<1>5. Moved(gone, r)
  BY <1>1, <1>3, <1>4, MovedNot, LoadsMove, MovedTwice
<1>6. QED
  BY <1>1, <1>5, MovedTwice DEF Moved

LEMMA AskMoves == ASSUME NEW s, IsShell(s), NEW r \in Ask(s) PROVE Moved(s, r)
<1>1. Moved(s, Cancel(s)) /\ IsShell(Cancel(s))
  BY CancelMoves DEF Moved
<1>2. Moved(Cancel(s), [Cancel(s) EXCEPT !.ask = s.front])
  BY <1>1 DEF Moved, IsShell, Fields
<1>3. QED
  BY <1>1, <1>2, MovedTwice, MovedNot DEF Ask

LEMMA CommitMoves == ASSUME NEW s, IsShell(s), NEW t, NEW r \in Commit(s, t) PROVE Moved(s, r)
<1> DEFINE done == [s EXCEPT !.focus = "content", !.ask = 0, !.picker = 0,
                          !.wants[t] = IF @ \in {"stage", "dead"} THEN "none" ELSE @]
           there == [done EXCEPT !.front = t]
<1>1. Moved(s, done) /\ IsShell(done)
  BY DEF Moved, IsShell, Fields, Hidden
<1>2. r = done \/ \E q \in Loads(there) : r = [q EXCEPT !.front = s.front]
  BY DEF Commit
<1> HIDE DEF done
<1>3. Moved(done, there) /\ IsShell(there)
  BY <1>1 DEF Moved, IsShell, Fields
<1> HIDE DEF there
<1>4. ASSUME NEW q \in Loads(there) PROVE Moved(there, q) /\ Moved(q, [q EXCEPT !.front = s.front])
  <2>1. Moved(there, q) /\ IsShell(q)
    BY <1>3, LoadsMove DEF Moved
  <2>2. QED
    BY <2>1 DEF Moved, IsShell, Fields
<1>5. QED
  BY <1>1, <1>2, <1>3, <1>4, MovedTwice

LEMMA GoToMoves == ASSUME NEW s, IsShell(s), NEW t, NEW r \in GoTo(s, t) PROVE Moved(s, r)
<1>1. Moved(s, [s EXCEPT !.wants[t] = "stage", !.picker = 0])
  BY DEF Moved, IsShell, Fields
<1>2. ASSUME NEW c \in Commit(s, t) PROVE Moved(s, c) /\ IsShell(c)
  BY CommitMoves DEF Moved
<1>3. \/ r \in {s, [s EXCEPT !.wants[t] = "stage", !.picker = 0]}
      \/ \E c \in Commit(s, t) : r = c \/ r \in Loads(c)
  BY DEF GoTo
<1>4. QED
  BY <1>1, <1>2, <1>3, MovedNot, LoadsMove, MovedTwice

\* The focus goes to a pane that shows.
LEMMA FocusMoves ==
    ASSUME NEW s, IsShell(s), NEW pane, ~Hidden(s, pane)
    PROVE  Moved(s, [s EXCEPT !.focus = pane])
BY DEF Moved, IsShell, Fields, Hidden

LEMMA ContentShows == ASSUME NEW s PROVE ~Hidden(s, "content")
BY DEF Hidden

LEMMA FocusIsMoved == ASSUME NEW s, IsShell(s), NEW pane PROVE Moved(s, Focus(s, pane))
BY FocusMoves, MovedNot DEF Focus

LEMMA TreeRowMoves == ASSUME NEW s, IsShell(s), NEW r \in TreeRow(s) PROVE Moved(s, r)
<1>1. ~s.hidden
  BY DEF TreeRow
<1>2. PICK q \in Loads(s) : r = [q EXCEPT !.focus = "tree"]
  BY DEF TreeRow
<1>3. Moved(s, q) /\ IsShell(q) /\ ~Hidden(q, "tree")
  BY <1>1, LoadsMove DEF Moved, Hidden
<1>4. QED
  BY <1>2, <1>3, FocusMoves, MovedTwice

LEMMA ContextActionMoves ==
    ASSUME NEW s, IsShell(s), ~s.hidden, NEW r \in ContextAction(s) PROVE Moved(s, r)
<1>1. PICK q \in Loads(s) :
        LET l == [q EXCEPT !.focus = "tree", !.context = FALSE]
        IN  r \in {l, [l EXCEPT !.offer = "asked"]} \cup Loads(l)
  BY DEF ContextAction
<1> DEFINE l == [q EXCEPT !.focus = "tree", !.context = FALSE]
<1>2. Moved(s, q) /\ IsShell(q)
  BY LoadsMove DEF Moved
<1>3. Moved(q, l) /\ IsShell(l)
  BY <1>2 DEF Moved, IsShell, Fields, Hidden
<1>4. Moved(s, l)
  BY <1>2, <1>3, MovedTwice
<1>5. r \in {l, [l EXCEPT !.offer = "asked"]} \cup Loads(l)
  BY <1>1
<1> HIDE DEF l
<1>6. Moved(l, [l EXCEPT !.offer = "asked"])
  BY <1>3 DEF Moved, IsShell, Fields
<1>7. QED
  BY <1>3, <1>4, <1>5, <1>6, LoadsMove, MovedTwice

LEMMA ScrollMoves == ASSUME NEW s, IsShell(s), NEW r \in Scroll(s) PROVE Moved(s, r)
<1>1. Moved(s, [s EXCEPT !.focus = "content"])
  BY FocusMoves, ContentShows
<1>2. QED
  BY <1>1, PreviewsMove, MovedNot, TreeRowMoves, LoadsMove DEF Scroll

LEMMA CalmMoves == ASSUME NEW s, IsShell(s) PROVE Moved(s, Calm(s))
BY DEF Moved, Calm, IsShell, Fields

--------------------------------------------------------------------------------

\* What holds of the UI in every state; sessions are the edit sessions of its tabs.  A
\* search covers no find bar and no context menu, a context menu comes with a tree and
\* without the menu of tabs, and what closing a search restores is as it should be.
Sound(s, sessions) ==
    /\ IsShell(s)
    /\ s.search.open => /\ ~s.context /\ ~s.find
                        /\ "focus" \in s.strays \/ ~Hidden(s, s.search.focus)
                        /\ s.search.lines = "buffer" => "buffer" \in s.strays
    /\ s.context => ~s.menu /\ ~s.hidden
    /\ "focus" \in s.strays \/ ~Hidden(s, s.focus)
    /\ \A t \in TabIds :
          s.lines[t] = "buffer" => sessions[t] # "none" \/ "buffer" \in s.strays

LEMMA SoundIfMoved ==
    ASSUME NEW s, NEW e, NEW r, Sound(s, e), Moved(s, r) PROVE Sound(r, e)
<1>1. /\ IsShell(r) /\ r.hidden = s.hidden /\ r.search = s.search /\ r.strays = s.strays
      /\ (r.menu => s.menu) /\ (r.context => s.context) /\ (r.find => s.find)
  BY DEF Moved
<1>2. "focus" \in r.strays \/ ~Hidden(r, r.focus)
  BY DEF Moved, Sound, Hidden
<1>3. \A t \in TabIds : r.lines[t] = "buffer" => e[t] # "none" \/ "buffer" \in r.strays
  BY DEF Moved, Sound
<1>4. QED
  BY <1>1, <1>2, <1>3 DEF Sound, Hidden

\* A search is opened where nothing hears the keys before it.
LEMMA OpenSearchIsSound ==
    ASSUME NEW s, NEW e, Sound(s, e), ~s.context, NEW r \in OpenSearch(s) PROVE Sound(r, e)
<1>1. IsShell(s)
  BY DEF Sound
<1>2. CASE s.search.open
  BY <1>1, <1>2, PreviewsMove, SoundIfMoved DEF OpenSearch
<1>3. CASE ~s.search.open
  <2> DEFINE c == Cancel(s)
             o == [c EXCEPT
             !.offer = "none", !.find = FALSE,
             !.search = [open |-> TRUE, focus |-> s.focus, lines |-> s.lines[s.front],
                         loading |-> s.wants[s.front] # "none"],
             !.strays = IF s.lines[s.front] = "buffer" THEN @ \cup {"buffer"} ELSE @]
  <2>1. Moved(s, c) /\ IsShell(c) /\ Sound(c, e) /\ c.strays = s.strays /\ c.hidden = s.hidden
    BY <1>1, CancelMoves, SoundIfMoved DEF Moved
  <2>2. ~c.context
    BY <2>1 DEF Moved
  <2>3. r \in Previews(o)
    BY <1>3 DEF OpenSearch
  <2>4. "focus" \in c.strays \/ ~Hidden(c, s.focus)
    BY <2>1 DEF Sound, Hidden
  <2> HIDE DEF c
  <2>5. /\ IsShell(o) /\ o.context = c.context /\ o.menu = c.menu /\ o.hidden = c.hidden
        /\ o.focus = c.focus /\ o.lines = c.lines /\ ~o.find /\ o.search.focus = s.focus
        /\ o.search.lines = s.lines[s.front]
        /\ o.strays = IF s.lines[s.front] = "buffer" THEN c.strays \cup {"buffer"} ELSE c.strays
    BY <2>1 DEF IsShell, Fields
  <2> HIDE DEF o
  <2>6. Sound(o, e)
    BY <2>1, <2>2, <2>4, <2>5 DEF Sound, Hidden
  <2>7. QED
    BY <2>3, <2>5, <2>6, PreviewsMove, SoundIfMoved
<1>4. QED
  BY <1>2, <1>3

\* Any tab may be opened where no context menu is up, a search tab too.
LEMMA OpenAnyTabIsSound ==
    ASSUME NEW s, NEW e, Sound(s, e), ~s.context, NEW kind, NEW r \in OpenTab(s, kind)
    PROVE  Sound(r, e)
<1> DEFINE new == s.born + 1
           more == [s EXCEPT !.strip = Append(@, new), !.born = new, !.kind[new] = kind]
<1>1. Moved(s, more) /\ IsShell(more)
  BY DEF Moved, IsShell, Fields, Sound
<1>2. \/ r = s
      \/ r \in Turn(more, new)
      \/ \E q \in Turn(more, new) : r \in OpenSearch(q)
  BY DEF OpenTab
<1> HIDE DEF new, more
<1>3. ASSUME NEW q \in Turn(more, new) PROVE Moved(s, q)
  BY <1>1, <1>3, TurnMoves, MovedTwice
<1>4. ASSUME NEW q \in Turn(more, new) PROVE Sound(q, e) /\ ~q.context
  BY <1>3, <1>4, SoundIfMoved DEF Moved
<1>5. QED
  BY <1>2, <1>4, OpenSearchIsSound

\* A search that is closed restores what it covered.
LEMMA CloseSearchIsSound ==
    ASSUME NEW s, NEW e, Sound(s, e), s.search.open, NEW r \in CloseSearch(s) PROVE Sound(r, e)
<1> DEFINE shut == [s EXCEPT
            !.search = NoSearch, !.focus = s.search.focus,
            !.lines[s.front] = s.search.lines,
            !.wants = [t \in TabIds |-> IF @[t] \in {"stage", "dead"} THEN "dead" ELSE "none"]]
<1>1. r = shut \/ r \in Loads(shut)
  BY DEF CloseSearch
<1>2. /\ IsShell(shut) /\ ~shut.search.open /\ shut.context = s.context /\ shut.menu = s.menu
      /\ shut.hidden = s.hidden /\ shut.strays = s.strays /\ shut.focus = s.search.focus
      /\ \A t \in TabIds : shut.lines[t] \in {s.lines[t], s.search.lines}
  BY DEF Sound, IsShell, Fields, NoSearch
<1> HIDE DEF shut
<1>3. Sound(shut, e)
  BY <1>2 DEF Sound, Hidden
<1>4. QED
  BY <1>1, <1>2, <1>3, LoadsMove, SoundIfMoved

LEMMA SearchGoneIsSound ==
    ASSUME NEW s, NEW e, Sound(s, e) PROVE Sound([s EXCEPT !.search = NoSearch], e)
<1> DEFINE shut == [s EXCEPT !.search = NoSearch]
<1>1. /\ IsShell(shut) /\ ~shut.search.open /\ shut.context = s.context /\ shut.menu = s.menu
      /\ shut.hidden = s.hidden /\ shut.strays = s.strays /\ shut.focus = s.focus
      /\ shut.lines = s.lines
  BY DEF Sound, IsShell, Fields, NoSearch
<1> HIDE DEF shut
<1>2. Sound(shut, e)
  BY <1>1 DEF Sound, Hidden
<1>3. QED
  BY <1>2 DEF shut

LEMMA AcceptIsSound == ASSUME NEW s, NEW e, Sound(s, e), NEW r \in Accept(s) PROVE Sound(r, e)
<1> DEFINE shut == [s EXCEPT !.search = NoSearch]
<1>1. Sound(shut, e) /\ IsShell(shut) /\ shut.hidden = s.hidden
  BY SearchGoneIsSound DEF Sound, IsShell, Fields
<1>2. PICK text \in {"loading", "info"}, want \in {"text", "none"}, pane \in {"content", "tree"} :
         /\ r = s \/ r = [Shows(shut, text, want) EXCEPT !.focus = pane]
         /\ ~Hidden(s, pane)
  BY DEF Accept, Hidden
<1> HIDE DEF shut
<1> DEFINE q == Shows(shut, text, want)
<1>3. Moved(shut, q) /\ IsShell(q) /\ Sound(q, e)
  BY <1>1, ShowsMoves, SoundIfMoved DEF Moved
<1>4. ~Hidden(q, pane)
  BY <1>1, <1>2, <1>3 DEF Moved, Hidden
<1> HIDE DEF q
<1>5. Sound([q EXCEPT !.focus = pane], e)
  BY <1>3, <1>4, FocusMoves, SoundIfMoved
<1>6. QED
  BY <1>2, <1>5 DEF q

LEMMA OpenFindIsSound == ASSUME NEW s, NEW e, Sound(s, e) PROVE Sound(OpenFind(s), e)
<1> DEFINE shut == [s EXCEPT !.search = NoSearch]
           f == [shut EXCEPT !.find = TRUE, !.focus = "content"]
<1>1. Sound(shut, e) /\ ~shut.search.open
  BY SearchGoneIsSound DEF Sound, IsShell, Fields, NoSearch
<1>2. OpenFind(s) \in {s, f}
  BY DEF OpenFind
<1> HIDE DEF shut
<1>3. /\ IsShell(f) /\ f.search = shut.search /\ f.context = shut.context /\ f.menu = shut.menu
      /\ f.hidden = shut.hidden /\ f.strays = shut.strays /\ f.focus = "content"
      /\ f.lines = shut.lines
  BY <1>1 DEF Sound, IsShell, Fields
<1> HIDE DEF f
<1>4. Sound(f, e)
  BY <1>1, <1>3 DEF Sound, Hidden
<1>5. QED
  BY <1>2, <1>4

--------------------------------------------------------------------------------

\* What is up when a layer hears a key or a click, and what is not
LEMMA HeardByKeys ==
    /\ OnTop("menu", KeyOrder) => shell.menu
    /\ OnTop("context", KeyOrder) => shell.context
    /\ OnTop("find", KeyOrder) => ~shell.context /\ shell.find
    /\ OnTop("search", KeyOrder) => shell.search.open
    /\ OnTop("base", KeyOrder) => ~shell.menu /\ ~shell.context /\ ~shell.search.open
<1>1. /\ Len(KeyOrder) = 9
      /\ KeyOrder[1] = "menu" /\ KeyOrder[2] = "palette" /\ KeyOrder[3] = "send"
      /\ KeyOrder[4] = "picker" /\ KeyOrder[5] = "context" /\ KeyOrder[6] = "find"
      /\ KeyOrder[7] = "edit" /\ KeyOrder[8] = "search" /\ KeyOrder[9] = "base"
  BY DEF KeyOrder
<1>2. OnTop("find", KeyOrder) => ~Up("context")
  BY <1>1 DEF OnTop
<1>3. OnTop("base", KeyOrder) => ~Up("menu") /\ ~Up("context") /\ ~Up("search")
  BY <1>1 DEF OnTop
<1>4. QED
  BY <1>2, <1>3 DEF OnTop, Up

LEMMA HeardByClicks ==
    /\ OnTop("menu", MouseOrder) => shell.menu
    /\ OnTop("context", MouseOrder) => shell.context
    /\ OnTop("search", MouseOrder) => shell.search.open
    /\ OnTop("base", MouseOrder) => ~shell.menu /\ ~shell.context /\ ~shell.search.open
<1>1. /\ Len(MouseOrder) = 7
      /\ MouseOrder[1] = "edit" /\ MouseOrder[2] = "send" /\ MouseOrder[3] = "picker"
      /\ MouseOrder[4] = "search" /\ MouseOrder[5] = "menu" /\ MouseOrder[6] = "context"
      /\ MouseOrder[7] = "base"
  BY DEF MouseOrder
<1>2. OnTop("base", MouseOrder) => ~Up("menu") /\ ~Up("context") /\ ~Up("search")
  BY <1>1 DEF OnTop
<1>3. QED
  BY <1>2 DEF OnTop, Up

\* An event keeps what holds if every outcome of it does.
LEMMA PressIsSound ==
    ASSUME NEW topic, NEW layer, NEW shells, \A r \in shells : Sound(r, editing),
           Press(topic, layer, shells)
    PROVE  Sound(shell', editing')
<1>1. PICK r \in shells : shell' = Calm(r) /\ editing' = editing
  BY DEF Press, Becomes
<1>2. Sound(r, editing) /\ IsShell(r)
  BY <1>1 DEF Sound
<1>3. QED
  BY <1>1, <1>2, CalmMoves, SoundIfMoved

LEMMA ClickIsSound ==
    ASSUME NEW topic, NEW layer, NEW shells, \A r \in shells : Sound(r, editing),
           Click(topic, layer, shells)
    PROVE  Sound(shell', editing')
<1>1. PICK r \in shells : shell' = Calm(r) /\ editing' = editing
  BY DEF Click, Becomes
<1>2. Sound(r, editing) /\ IsShell(r)
  BY <1>1 DEF Sound
<1>3. QED
  BY <1>1, <1>2, CalmMoves, SoundIfMoved

LEMMA ArrivalIsSound ==
    ASSUME NEW shells, \A r \in shells : Sound(r, editing), Arrives(shells)
    PROVE  Sound(shell', editing')
BY DEF Arrives, Becomes

\* Opening or leaving a popup, and the like, in itself
LEMMA SmallMoves ==
    ASSUME NEW s, IsShell(s)
    PROVE  /\ Moved(s, [s EXCEPT !.menu = FALSE])
           /\ Moved(s, [s EXCEPT !.context = FALSE])
           /\ Moved(s, [s EXCEPT !.find = FALSE])
           /\ Moved(s, [s EXCEPT !.again = FALSE])
           /\ Moved(s, [s EXCEPT !.again = TRUE])
           /\ \A x : /\ Moved(s, [s EXCEPT !.palette = x])
                     /\ Moved(s, [s EXCEPT !.send = x])
                     /\ Moved(s, [s EXCEPT !.picker = x])
                     /\ Moved(s, [s EXCEPT !.offer = x])
                     /\ Moved(s, [s EXCEPT !.ask = x])
                     /\ Moved(s, [s EXCEPT !.wants = x])
BY DEF Moved, IsShell, Fields

LEMMA PopupsAreSound ==
    ASSUME Sound(shell, editing), PopupStep PROVE Sound(shell', editing')
<1>1. IsShell(shell)
  BY DEF Sound
<1>2. ASSUME NEW r, Moved(shell, r) PROVE Sound(r, editing) /\ IsShell(r)
  BY <1>2, SoundIfMoved DEF Moved
<1>3. Moved(shell, shell)
  BY <1>1, MovedNot
<1>4. CASE KeyInMenu \/ ClickInMenu
  <2> DEFINE gone == [shell EXCEPT !.menu = FALSE]
  <2>1. ~shell.context
    BY <1>4, HeardByKeys, HeardByClicks DEF KeyInMenu, ClickInMenu, Press, Click, Taken, Sound
  <2>2. Sound(gone, editing) /\ ~gone.context
    BY <1>1, <1>2, <2>1, SmallMoves DEF IsShell, Fields
  <2>3. \A r \in InMenu : r = shell \/ r = gone \/ \E k : r \in OpenTab(gone, k)
    BY DEF InMenu
  <2> HIDE DEF gone
  <2>4. \A r \in InMenu : Sound(r, editing)
    BY <2>2, <2>3, OpenAnyTabIsSound
  <2>5. QED
    BY <1>4, <2>4, PressIsSound, ClickIsSound DEF KeyInMenu, ClickInMenu
<1>5. CASE KeyInPalette
  <2> DEFINE gone == [shell EXCEPT !.palette = FALSE]
             shells == {shell, gone} \cup (UNION {Turn(gone, t) : t \in 1..shell.born})
                           \cup OpenFile(gone)
  <2>1. Moved(shell, gone) /\ IsShell(gone)
    BY <1>1, <1>2, SmallMoves
  <2>2. Press("tabs", "palette", shells)
    BY <1>5 DEF KeyInPalette
  <2> HIDE DEF gone
  <2>3. \A r \in shells : \/ r = shell \/ r = gone \/ r \in OpenFile(gone)
                          \/ \E t : r \in Turn(gone, t)
    OBVIOUS
  <2> HIDE DEF shells
  <2>4. \A r \in shells : Moved(shell, r)
    BY <1>3, <2>1, <2>3, TurnMoves, OpenFileMoves, MovedTwice
  <2>5. QED
    BY <1>2, <2>2, <2>4, PressIsSound
<1>6. CASE KeyInSend \/ ClickInSend
  <2>1. /\ Moved(shell, [shell EXCEPT !.send = "closed"])
        /\ Moved(shell, [shell EXCEPT !.send = "sending"])
    BY <1>1, SmallMoves
  <2>2. \A r \in InSend : Moved(shell, r)
    BY <1>3, <2>1 DEF InSend
  <2>3. QED
    BY <1>2, <1>6, <2>2, PressIsSound, ClickIsSound DEF KeyInSend, ClickInSend
<1>7. CASE KeyInPicker \/ ClickInPicker
  <2> DEFINE gone == [shell EXCEPT !.picker = 0]
             shells == AcceptInPicker \cup {[shell EXCEPT !.picker = 0, !.focus = "content"]}
  <2>1. Moved(shell, gone) /\ IsShell(gone)
    BY <1>1, <1>2, SmallMoves
  <2>2. Moved(gone, [gone EXCEPT !.focus = "content"])
    BY <2>1, FocusMoves, ContentShows
  <2>3. \A r \in shells :
          \/ r \in {shell, gone, [gone EXCEPT !.focus = "content"]}
          \/ \E q \in GoTo(gone, shell.picker) : r = [q EXCEPT !.picker = 0]
    BY DEF AcceptInPicker
  <2>4. Press("navigate", "picker", shells) \/ Click("navigate", "picker", AcceptInPicker)
    BY <1>7 DEF KeyInPicker, ClickInPicker
  <2>5. AcceptInPicker \subseteq shells
    OBVIOUS
  <2> HIDE DEF gone, shells
  <2>6. ASSUME NEW q \in GoTo(gone, shell.picker) PROVE Moved(shell, [q EXCEPT !.picker = 0])
    <3>1. Moved(shell, q) /\ IsShell(q)
      BY <2>1, GoToMoves, MovedTwice DEF Moved
    <3>2. QED
      BY <3>1, SmallMoves, MovedTwice
  <2>7. \A r \in shells : Moved(shell, r)
    BY <1>3, <2>1, <2>2, <2>3, <2>6, MovedTwice
  <2>8. QED
    BY <1>2, <2>4, <2>5, <2>7, PressIsSound, ClickIsSound
<1>8. CASE KeyInContext \/ ClickInContext \/ PastContext
  <2> DEFINE shells == {shell, [shell EXCEPT !.context = FALSE]} \cup ContextAction(shell)
                           \cup Loads(shell) \cup Scroll(shell)
  <2>1. ~shell.hidden
    BY <1>8, HeardByKeys, HeardByClicks
       DEF KeyInContext, ClickInContext, PastContext, Press, Click, Taken, Sound
  <2>2. \A r \in shells : Moved(shell, r)
    BY <1>1, <1>3, <2>1, SmallMoves, ContextActionMoves, LoadsMove, ScrollMoves
  <2>3. \A r \in shells : Sound(r, editing)
    BY <1>2, <2>2
  <2>4. CASE KeyInContext
    BY <2>3, <2>4, PressIsSound DEF KeyInContext
  <2>5. CASE ClickInContext
    BY <2>3, <2>5, ClickIsSound DEF ClickInContext
  <2>6. CASE PastContext
    BY <2>3, <2>6, ClickIsSound DEF PastContext
  <2>7. QED
    BY <1>8, <2>4, <2>5, <2>6
<1>9. CASE KeyInFind
  <2> DEFINE gone == [shell EXCEPT !.find = FALSE]
  <2>1. ~shell.context
    BY <1>9, HeardByKeys DEF KeyInFind, Press, Taken
  <2>2. Sound(gone, editing) /\ ~gone.context
    BY <1>1, <1>2, <2>1, SmallMoves DEF IsShell, Fields
  <2>3. Press("find", "find", {shell, gone} \cup OpenSearch(gone))
    BY <1>9 DEF KeyInFind
  <2> HIDE DEF gone
  <2>4. QED
    BY <2>2, <2>3, OpenSearchIsSound, PressIsSound
<1>10. CASE KeyInSearch \/ ClickInSearch
  <2>1. shell.search.open
    BY <1>10, HeardByKeys, HeardByClicks DEF KeyInSearch, ClickInSearch, Press, Click, Taken
  <2>2. \A r \in CloseSearch(shell) : Sound(r, editing)
    BY <2>1, CloseSearchIsSound
  <2>3. \A r \in InSearch : Sound(r, editing)
    BY <1>1, <1>2, <2>2, PreviewsMove, AcceptIsSound DEF InSearch
  <2>4. \A r \in {OpenFind(s) : s \in CloseSearch(shell)} : Sound(r, editing)
    BY <2>2, OpenFindIsSound
  <2>5. QED
    BY <1>10, <2>3, <2>4, PressIsSound, ClickIsSound DEF KeyInSearch, ClickInSearch
<1>11. QED
  BY <1>4, <1>5, <1>6, <1>7, <1>8, <1>9, <1>10 DEF PopupStep

\* Below the popups
LEMMA PanesAreSound ==
    ASSUME Sound(shell, editing), SessionsAreTyped, PaneStep PROVE Sound(shell', editing')
<1>1. IsShell(shell) /\ Moved(shell, shell)
  BY MovedNot DEF Sound
<1>2. ASSUME NEW r, Moved(shell, r) PROVE Sound(r, editing) /\ IsShell(r)
  BY <1>2, SoundIfMoved DEF Moved
<1>3. \A r \in Loads(shell) : Moved(shell, r)
  BY <1>1, LoadsMove
<1>4. ASSUME OnTop("base", KeyOrder) \/ OnTop("base", MouseOrder)
      PROVE  ~shell.menu /\ ~shell.context /\ ~shell.search.open
  BY <1>4, HeardByKeys, HeardByClicks
<1>5. ASSUME ~shell.menu, ~shell.context, ~shell.search.open
      PROVE  Sound([shell EXCEPT !.menu = TRUE], editing) /\ Sound(ToggleTree(shell), editing)
  <2> DEFINE m == [shell EXCEPT !.menu = TRUE]
             h == ToggleTree(shell)
  <2>1. /\ IsShell(m) /\ m.search = shell.search /\ m.context = shell.context
        /\ m.hidden = shell.hidden /\ m.strays = shell.strays /\ m.focus = shell.focus
        /\ m.lines = shell.lines
    BY <1>1 DEF IsShell, Fields
  <2>2. /\ IsShell(h) /\ h.search = shell.search /\ h.context = shell.context
        /\ h.hidden = ~shell.hidden /\ h.strays = shell.strays /\ h.lines = shell.lines
        /\ h.focus = IF ~shell.hidden /\ shell.focus = "tree" THEN "content" ELSE shell.focus
    BY <1>1 DEF IsShell, Fields, ToggleTree
  <2> HIDE DEF m, h
  <2>3. Sound(m, editing)
    BY <1>5, <2>1 DEF Sound, Hidden
  <2>4. Sound(h, editing)
    BY <1>5, <2>2 DEF Sound, Hidden
  <2>5. QED
    BY <2>3, <2>4 DEF m, h
<1>6. /\ Moved(shell, [shell EXCEPT !.palette = TRUE])
      /\ Moved(shell, [shell EXCEPT !.offer = "asked"])
      /\ Moved(shell, [shell EXCEPT !.send = "picking"])
      /\ Moved(shell, [shell EXCEPT !.find = FALSE])
  BY <1>1, SmallMoves
<1>7. Moved(shell, [shell EXCEPT !.focus = "content"])
  BY <1>1, FocusMoves, ContentShows
<1>8. CASE KeyForTabs \/ ClickOnTabs
  <2>1. ~shell.menu /\ ~shell.context /\ ~shell.search.open
    BY <1>4, <1>8 DEF KeyForTabs, ClickOnTabs, Press, Click, Taken
  <2> DEFINE shells == {[shell EXCEPT !.menu = TRUE], [shell EXCEPT !.palette = TRUE]}
                           \cup UNION {Turn(shell, t) : t \in Listed(shell)}
  <2>2. \A r \in shells : \/ r = [shell EXCEPT !.menu = TRUE] \/ r = [shell EXCEPT !.palette = TRUE]
                          \/ \E t : r \in Turn(shell, t)
    OBVIOUS
  <2>3. {[shell EXCEPT !.menu = TRUE]} \cup UNION {Turn(shell, t) : t \in Listed(shell)}
            \subseteq shells
    OBVIOUS
  <2>4. \/ Press("tabs", "base", shells)
        \/ Click("tabs", "base", {[shell EXCEPT !.menu = TRUE]}
                                     \cup UNION {Turn(shell, t) : t \in Listed(shell)})
    BY <1>8 DEF KeyForTabs, ClickOnTabs
  <2> HIDE DEF shells
  <2>5. \A t : \A r \in Turn(shell, t) : Moved(shell, r)
    BY <1>1, TurnMoves
  <2>6. \A r \in shells : Sound(r, editing)
    BY <1>2, <1>5, <1>6, <2>1, <2>2, <2>5
  <2>7. QED
    BY <2>3, <2>4, <2>6, PressIsSound, ClickIsSound
<1>9. CASE KeyForFind \/ ClickOnFind
  <2>1. \A r \in {OpenFind(shell)} : Sound(r, editing)
    BY OpenFindIsSound
  <2>2. \A r \in {[shell EXCEPT !.find = FALSE]} : Sound(r, editing)
    BY <1>2, <1>6
  <2>3. QED
    BY <1>9, <2>1, <2>2, PressIsSound, ClickIsSound DEF KeyForFind, ClickOnFind
<1>10. CASE KeyForSearch \/ ClickOnSearch
  <2>1. ~shell.context
    BY <1>4, <1>10 DEF KeyForSearch, ClickOnSearch, Press, Click, Taken
  <2>2. QED
    BY <1>10, <2>1, OpenSearchIsSound, PressIsSound, ClickIsSound DEF KeyForSearch, ClickOnSearch
<1>11. CASE KeyForOpen \/ ClickOnOpen
  <2> DEFINE there == [shell EXCEPT !.focus = "content"]
  <2>1. IsShell(there)
    BY <1>2, <1>7
  <2> HIDE DEF there
  <2>2. Moved(there, [there EXCEPT !.offer = "asked"])
    BY <2>1, SmallMoves
  <2>3. Moved(shell, [shell EXCEPT !.focus = "content", !.offer = "asked"])
    BY <1>7, <2>2, MovedTwice DEF there
  <2>4. QED
    BY <1>2, <1>6, <1>11, <2>3, PressIsSound, ClickIsSound DEF KeyForOpen, ClickOnOpen
<1>12. CASE KeyForPanes
  <2> DEFINE shells == {ToggleTree(shell), Focus(shell, "tree"), Focus(shell, "content")}
              \cup Preview(shell) \cup Diff(shell)
              \cup (IF shell.focus = "tree" THEN Loads(shell) ELSE {})
  <2>1. Press("tree", "base", shells)
    BY <1>12 DEF KeyForPanes
  <2>2. ~shell.menu /\ ~shell.context /\ ~shell.search.open
    BY <1>4, <2>1 DEF Press, Taken
  <2>3. \A r \in shells : r = ToggleTree(shell) \/ Moved(shell, r)
    BY <1>1, <1>3, FocusIsMoved, PreviewMoves, DiffMoves
  <2> HIDE DEF shells
  <2>4. QED
    BY <1>2, <1>5, <2>1, <2>2, <2>3, PressIsSound
<1>13. CASE KeyForSend
  BY <1>2, <1>6, <1>13, PressIsSound DEF KeyForSend
<1>14. CASE KeyForTargets
  <2>1. Moved(shell, Cancel(shell)) /\ IsShell(Cancel(shell))
    BY <1>1, <1>2, CancelMoves
  <2>2. \A r \in Ask(shell) \cup GoTo(Cancel(shell), shell.front) : Moved(shell, r)
    BY <1>1, <2>1, AskMoves, GoToMoves, MovedTwice
  <2>3. QED
    BY <1>2, <1>14, <2>2, PressIsSound DEF KeyForTargets
<1>15. CASE KeyToClose \/ ClickToClose
  <2>1. PICK t : CloseOne(t)
    BY <1>15 DEF KeyToClose, ClickToClose
  <2>2. PICK s \in CloseTab(shell, t) : shell' = Calm(s)
    BY <2>1 DEF CloseOne
  <2>3. Moved(shell, s) /\ (t \in TabIds => s.lines[t] # "buffer")
    BY <1>1, CloseTabMoves
  <2>4. Sound(s, editing)
    BY <1>2, <2>3
  <2>5. editing' = [editing EXCEPT ![t] = "none"]
    BY <2>1 DEF CloseOne
  <2>6. Sound(s, editing')
    BY <2>3, <2>4, <2>5 DEF Sound, SessionsAreTyped
  <2>7. QED
    BY <2>2, <2>6, CalmMoves, SoundIfMoved DEF Sound
<1>16. CASE ClickOnTree
  <2> DEFINE back   == [shell EXCEPT !.focus = IF shell.hidden THEN "content" ELSE "tree"]
             menus  == {[s EXCEPT !.context = TRUE] : s \in {r \in Loads(shell) : ~shell.hidden}}
             shells == {ToggleTree(shell), back} \cup TreeRow(shell) \cup Scroll(shell) \cup menus
  <2>1. Click("tree", "base", shells)
    BY <1>16 DEF ClickOnTree
  <2>2. ~shell.menu /\ ~shell.context /\ ~shell.search.open
    BY <1>4, <2>1 DEF Click, Taken
  <2>3. Moved(shell, back)
    BY <1>1, FocusMoves DEF Hidden
  <2>4. ASSUME NEW s \in Loads(shell), ~shell.hidden
        PROVE  Sound([s EXCEPT !.context = TRUE], editing)
    <3> DEFINE c == [s EXCEPT !.context = TRUE]
    <3>1. Moved(shell, s) /\ Sound(s, editing)
      BY <1>2, <1>3
    <3>2. ~s.menu /\ ~s.hidden /\ ~s.search.open
      BY <2>2, <2>4, <3>1 DEF Moved
    <3>3. /\ IsShell(c) /\ c.search = s.search /\ c.menu = s.menu
          /\ c.hidden = s.hidden /\ c.strays = s.strays /\ c.focus = s.focus
          /\ c.lines = s.lines
      BY <3>1 DEF Sound, IsShell, Fields
    <3> HIDE DEF c
    <3>4. Sound(c, editing)
      BY <3>1, <3>2, <3>3 DEF Sound, Hidden
    <3>5. QED
      BY <3>4 DEF c
  <2>5. \A r \in menus : Sound(r, editing)
    BY <2>4
  <2>6. \A r \in shells : \/ r = ToggleTree(shell) \/ r = back \/ r \in TreeRow(shell)
                          \/ r \in Scroll(shell) \/ r \in menus
    OBVIOUS
  <2> HIDE DEF shells, menus, back
  <2>7. \A r \in shells : Sound(r, editing)
    BY <1>1, <1>2, <1>5, <2>2, <2>3, <2>5, <2>6, TreeRowMoves, ScrollMoves
  <2>8. QED
    BY <2>1, <2>7, ClickIsSound
<1>17. CASE ClickOnPath
  <2>1. ASSUME NEW s \in Loads(shell)
        PROVE  Sound([s EXCEPT !.focus = "tree",
                     !.strays = IF s.hidden THEN @ \cup {"focus"} ELSE @], editing)
    <3> DEFINE c == [s EXCEPT !.focus = "tree",
                     !.strays = IF s.hidden THEN @ \cup {"focus"} ELSE @]
    <3>1. Sound(s, editing)
      BY <1>2, <1>3
    <3>2. /\ IsShell(c) /\ c.search = s.search /\ c.menu = s.menu /\ c.find = s.find
          /\ c.context = s.context /\ c.hidden = s.hidden /\ c.focus = "tree"
          /\ c.strays = IF s.hidden THEN s.strays \cup {"focus"} ELSE s.strays
          /\ c.lines = s.lines
      BY <3>1 DEF Sound, IsShell, Fields
    <3> HIDE DEF c
    <3>3. Sound(c, editing)
      BY <3>1, <3>2 DEF Sound, Hidden
    <3>4. QED
      BY <3>3 DEF c
  <2> DEFINE shells == {[s EXCEPT !.focus = "tree",
                     !.strays = IF s.hidden THEN @ \cup {"focus"} ELSE @] :
              s \in {r \in Loads(shell) : shell.lines[shell.front] # "info"}}
  <2>2. Click("tree", "base", shells)
    BY <1>17 DEF ClickOnPath
  <2>3. \A r \in shells : Sound(r, editing)
    BY <2>1
  <2> HIDE DEF shells
  <2>4. QED
    BY <2>2, <2>3, ClickIsSound
<1>18. CASE ClickOnText
  <2> DEFINE there == [shell EXCEPT !.focus = "content"]
  <2>1. Moved(shell, there) /\ IsShell(there)
    BY <1>2, <1>7
  <2>2. \/ Click("tree", "base", {there}) \/ Click("navigate", "base", Ask(there))
        \/ Click("send", "base", {[shell EXCEPT !.send = "picking"]})
    BY <1>18 DEF ClickOnText
  <2> HIDE DEF there
  <2>3. \A r \in Ask(there) : Moved(shell, r)
    BY <2>1, AskMoves, MovedTwice
  <2>4. QED
    BY <1>2, <1>6, <2>1, <2>2, <2>3, ClickIsSound
<1>19. QED
  BY <1>8, <1>9, <1>10, <1>11, <1>12, <1>13, <1>14, <1>15, <1>16, <1>17, <1>18 DEF PaneStep

\* In an edit session, whose tab may show its text
LEMMA EditsAreSound ==
    ASSUME Sound(shell, editing), SessionsAreTyped, EditStep PROVE Sound(shell', editing')
<1>1. IsShell(shell) /\ Moved(shell, shell)
  BY MovedNot DEF Sound
<1>2. ASSUME NEW r, Moved(shell, r) PROVE Sound(r, editing) /\ IsShell(r)
  BY <1>2, SoundIfMoved DEF Moved
<1>3. ASSUME NEW r, Sound(r, editing), NEW state, state # "none"
      PROVE  Sound(r, Session(state))
  BY <1>3 DEF Sound, Session, SessionsAreTyped
<1>4. ASSUME NEW r, Sound(r, editing), r.lines[shell.front] # "buffer", NEW state
      PROVE  Sound(r, Session(state))
  BY <1>4 DEF Sound, Session, SessionsAreTyped
<1>5. ASSUME NEW r, NEW e, Sound(r, e) PROVE Sound(Calm(r), e)
  BY <1>5, CalmMoves, SoundIfMoved DEF Sound
<1>6. Moved(shell, [shell EXCEPT !.again = FALSE]) /\ Moved(shell, [shell EXCEPT !.again = TRUE])
  BY <1>1, SmallMoves
<1>7. CASE EnterEdit
  <2>1. CASE shell.offer = "image"
    <3>1. /\ Sound(Shows(shell, "info", "none"), editing)
          /\ Sound(Shows(shell, "loading", "text"), editing)
      BY <1>1, <1>2, ShowsMoves
    <3>2. QED
      BY <1>5, <1>7, <2>1, <3>1 DEF EnterEdit
  <2>2. CASE shell.offer # "image"
    <3> DEFINE b == [shell EXCEPT
                   !.lines[shell.front] = "buffer", !.again = FALSE,
                   !.wants[shell.front] = IF @ \in {"stage", "dead"} THEN "dead" ELSE "none"]
    <3>1. shell' = Calm(b) /\ editing' = Session("clean")
      BY <1>7, <2>2 DEF EnterEdit
    <3>2. /\ IsShell(b) /\ b.search = shell.search /\ b.menu = shell.menu /\ b.find = shell.find
          /\ b.context = shell.context /\ b.hidden = shell.hidden /\ b.focus = shell.focus
          /\ b.strays = shell.strays
          /\ \A t \in TabIds : t # shell.front => b.lines[t] = shell.lines[t]
      BY <1>1 DEF IsShell, Fields
    <3> HIDE DEF b
    <3>3. /\ \A t \in TabIds : t # shell.front => Session("clean")[t] = editing[t]
          /\ shell.front \in TabIds => Session("clean")[shell.front] # "none"
      BY DEF Session, SessionsAreTyped
    <3>4. Sound(b, Session("clean"))
      BY <3>2, <3>3 DEF Sound, Hidden
    <3>5. QED
      BY <1>5, <3>1, <3>4
  <2>3. QED
    BY <2>1, <2>2
<1>8. CASE KeyInEdit
  <2>1. PICK state \in Edited(editing[shell.front]) \cup {"saved"} : editing' = Session(state)
    BY <1>8 DEF KeyInEdit
  <2>2. state # "none"
    BY <2>1, EditedIsTyped
  <2>3. shell' = Calm([shell EXCEPT !.again = FALSE])
    BY <1>8 DEF KeyInEdit
  <2>4. QED
    BY <1>2, <1>3, <1>5, <1>6, <2>1, <2>2, <2>3
<1>9. CASE PasteInEdit
  <2>1. PICK state \in Edited(editing[shell.front]) : editing' = Session(state)
    BY <1>9 DEF PasteInEdit
  <2>2. state # "none" /\ shell' = shell
    BY <1>9, <2>1, EditedIsTyped DEF PasteInEdit
  <2>3. QED
    BY <1>3, <2>1, <2>2
<1>10. CASE FindInEdit
  <2>1. \A r \in {OpenFind([shell EXCEPT !.again = FALSE])} : Sound(r, editing)
    BY <1>2, <1>6, OpenFindIsSound
  <2>2. QED
    BY <1>10, <2>1, PressIsSound DEF FindInEdit
<1>11. CASE ClickInEdit
  <2> DEFINE shells == {shell, [shell EXCEPT !.again = FALSE]} \cup Scroll(shell)
  <2>1. \A r \in shells : Moved(shell, r)
    BY <1>1, <1>6, ScrollMoves
  <2>2. Click("edit", "edit", shells)
    BY <1>11 DEF ClickInEdit
  <2> HIDE DEF shells
  <2>3. QED
    BY <1>2, <2>1, <2>2, ClickIsSound
<1>12. CASE EscapeInEdit
  <2> DEFINE d == Discarded(shell)
             calm == [shell EXCEPT !.again = FALSE]
  <2>1. CASE ~MayLeave
    BY <1>2, <1>5, <1>6, <1>12, <2>1 DEF EscapeInEdit
  <2>2. Moved(shell, d) /\ (shell.front \in TabIds => d.lines[shell.front] # "buffer")
    BY <1>1 DEF Discarded, Moved, IsShell, Fields
  <2>3. IsShell(calm) /\ calm.lines = shell.lines /\ calm.front = shell.front
    BY <1>1 DEF IsShell, Fields
  <2>4. Moved(calm, Shows(calm, "loading", "text"))
    BY <2>3, ShowsMoves
  <2>5. shell.front \in TabIds => Shows(calm, "loading", "text").lines[shell.front] = "loading"
    <3> DEFINE c == Cancel(calm)
    <3>1. IsShell(c)
      BY <2>3, CancelMoves DEF Moved
    <3>2. Shows(calm, "loading", "text") = [c EXCEPT !.lines[shell.front] = "loading",
              !.wants[shell.front] = "text", !.find = FALSE, !.offer = "none"]
      BY <2>3 DEF Shows
    <3> DEFINE q == Shows(calm, "loading", "text")
    <3> HIDE DEF c, q
    <3>3. q = [c EXCEPT !.lines[shell.front] = "loading",
              !.wants[shell.front] = "text", !.find = FALSE, !.offer = "none"]
      BY <3>2 DEF q
    <3>4. q.lines = [c.lines EXCEPT ![shell.front] = "loading"]
      BY <3>1, <3>3 DEF IsShell, Fields
    <3>5. QED
      BY <3>1, <3>4 DEF IsShell, q
  <2>6. /\ Moved(shell, Reloaded(shell))
        /\ shell.front \in TabIds => Reloaded(shell).lines[shell.front] # "buffer"
    <3>1. Moved(shell, Shows(calm, "loading", "text"))
      BY <1>6, <2>4, MovedTwice
    <3>2. shell.lines[shell.front] \notin Documents => calm.lines[shell.front] # "buffer"
      BY <2>3 DEF Documents
    <3> HIDE DEF calm
    <3>3. Reloaded(shell) = IF shell.lines[shell.front] \in Documents
                            THEN Shows(calm, "loading", "text") ELSE calm
      BY DEF Reloaded, calm
    <3>4. QED
      BY <1>6, <2>5, <3>1, <3>2, <3>3 DEF calm
  <2>7. PICK r \in {d, Reloaded(shell)} :
          MayLeave => shell' = Calm(r) /\ editing' = Session("none")
    BY <1>12 DEF EscapeInEdit
  <2> HIDE DEF d
  <2>8. Moved(shell, r) /\ (shell.front \in TabIds => r.lines[shell.front] # "buffer")
    BY <2>2, <2>6, <2>7
  <2>9. /\ \A t \in TabIds : t # shell.front => Session("none")[t] = editing[t]
    BY DEF Session, SessionsAreTyped
  <2>10. Sound(r, Session("none"))
    BY <1>2, <2>8, <2>9 DEF Sound
  <2>11. QED
    BY <1>5, <2>1, <2>7, <2>10
<1>13. QED
  BY <1>7, <1>8, <1>9, <1>10, <1>11, <1>12 DEF EditStep

\* What the background finished
LEMMA ArrivalsAreSound ==
    ASSUME Sound(shell, editing), Arrival PROVE Sound(shell', editing')
<1>1. IsShell(shell) /\ Moved(shell, shell)
  BY MovedNot DEF Sound
<1>2. ASSUME NEW r, Moved(shell, r) PROVE Sound(r, editing) /\ IsShell(r)
  BY <1>2, SoundIfMoved DEF Moved
<1>3. ASSUME NEW shells, \A r \in shells : Moved(shell, r), Arrives(shells)
      PROVE  Sound(shell', editing')
  BY <1>2, <1>3, ArrivalIsSound
<1>4. CASE SendSettles
  <2>1. Moved(shell, [shell EXCEPT !.send = "closed"])
    BY <1>1, SmallMoves
  <2>2. shell' = [shell EXCEPT !.send = "closed"] /\ editing' = editing
    BY <1>4 DEF SendSettles, Becomes
  <2>3. QED
    BY <1>2, <2>1, <2>2
<1>5. CASE TextArrives
  <2>1. PICK t \in TabIds :
          \E text \in {"error", "file", "diff"}, find \in {FALSE, shell.find} :
              /\ shell' = [shell EXCEPT !.lines[t] = text, !.wants[t] = "none", !.find = find]
              /\ editing' = editing
    BY <1>5 DEF TextArrives, Arrives, Becomes
  <2>2. PICK text \in {"error", "file", "diff"}, find \in {FALSE, shell.find} :
              /\ shell' = [shell EXCEPT !.lines[t] = text, !.wants[t] = "none", !.find = find]
              /\ editing' = editing
    BY <2>1
  <2>3. Moved(shell, [shell EXCEPT !.lines[t] = text, !.wants[t] = "none", !.find = find])
    BY <1>1 DEF Moved, IsShell, Fields
  <2>4. QED
    BY <1>2, <2>2, <2>3
<1>6. CASE DroppedArrives
  <2>1. PICK wants : shell' = [shell EXCEPT !.wants = wants] /\ editing' = editing
    BY <1>6 DEF DroppedArrives, Arrives, Becomes
  <2>2. QED
    BY <1>1, <1>2, <2>1, SmallMoves
<1>7. CASE StageArrives
  <2>1. PICK t \in TabIds :
          LET none == [shell EXCEPT !.wants[t] = "none"]
              there == [none EXCEPT !.lines[t] = "file", !.find = FALSE, !.offer = "none"]
          IN  Arrives({none} \cup (IF shell.wants[t] = "stage" THEN Commit(there, t) ELSE {}))
    BY <1>7 DEF StageArrives
  <2> DEFINE none == [shell EXCEPT !.wants[t] = "none"]
             there == [none EXCEPT !.lines[t] = "file", !.find = FALSE, !.offer = "none"]
             shells == {none} \cup (IF shell.wants[t] = "stage" THEN Commit(there, t) ELSE {})
  <2>2. Moved(shell, none) /\ IsShell(none)
    BY <1>1 DEF Moved, IsShell, Fields
  <2>3. Arrives(shells)
    BY <2>1
  <2> HIDE DEF none
  <2>4. Moved(none, there) /\ IsShell(there)
    BY <2>2 DEF Moved, IsShell, Fields
  <2> HIDE DEF there
  <2>5. Moved(shell, there)
    BY <2>2, <2>4, MovedTwice
  <2>6. \A r \in shells : Moved(shell, r)
    BY <2>2, <2>4, <2>5, CommitMoves, MovedTwice
  <2> HIDE DEF shells
  <2>7. QED
    BY <1>3, <2>3, <2>6
<1>8. CASE AnswerArrives
  <2> DEFINE rest == [shell EXCEPT !.ask = 0]
             shells == {rest, [rest EXCEPT !.picker = shell.ask]}
                       \cup (IF shell.ask \in Listed(shell) THEN GoTo(rest, shell.ask) ELSE {})
  <2>1. Arrives(shells)
    BY <1>8 DEF AnswerArrives
  <2>2. Moved(shell, rest) /\ IsShell(rest)
    BY <1>1, <1>2, SmallMoves
  <2> HIDE DEF rest
  <2>3. Moved(rest, [rest EXCEPT !.picker = shell.ask])
    BY <2>2, SmallMoves
  <2>4. \A r \in shells : Moved(shell, r)
    BY <2>2, <2>3, GoToMoves, MovedTwice
  <2> HIDE DEF shells
  <2>5. QED
    BY <1>3, <2>1, <2>4
<1>9. CASE OpenArrives
  <2> DEFINE q == Shows(shell, "info", "none")
             shells == {[shell EXCEPT !.offer = "none"], [q EXCEPT !.offer = "image"]}
  <2>1. Arrives(shells)
    BY <1>9 DEF OpenArrives
  <2>2. Moved(shell, [shell EXCEPT !.offer = "none"])
    BY <1>1, SmallMoves
  <2>3. Moved(shell, q) /\ IsShell(q)
    BY <1>1, <1>2, ShowsMoves
  <2> HIDE DEF q
  <2>4. Moved(shell, [q EXCEPT !.offer = "image"])
    BY <2>3, SmallMoves, MovedTwice
  <2>5. QED
    BY <1>3, <2>1, <2>2, <2>4
<1>10. CASE OpenDelivered
  <2> DEFINE shown == OpenTab(shell, "files")
                       \cup (IF shell.kind[shell.front] = "files" THEN {shell}
                             ELSE FilesTab(shell))
             shells == shown \cup (UNION {Preview(s) : s \in shown})
                           \cup {Shows(s, "loading", "text") : s \in OpenTab(shell, "files")}
  <2>1. Arrives(shells)
    BY <1>10 DEF OpenDelivered
  <2>2. \A s \in OpenTab(shell, "files") : Moved(shell, s)
    BY <1>1, OpenTabMoves
  <2>3. \A s \in shown : Moved(shell, s)
    BY <1>1, <2>2, FilesTabMoves
  <2> HIDE DEF shown
  <2>4. ASSUME NEW s, Moved(shell, s)
        PROVE  /\ \A r \in Preview(s) : Moved(shell, r)
               /\ Moved(shell, Shows(s, "loading", "text"))
    BY <1>2, <2>4, PreviewMoves, ShowsMoves, MovedTwice
  <2>5. \A r \in shells : \/ r \in shown
                          \/ \E s \in shown : r \in Preview(s)
                          \/ \E s \in OpenTab(shell, "files") : r = Shows(s, "loading", "text")
    OBVIOUS
  <2> HIDE DEF shells
  <2>6. \A r \in shells : Moved(shell, r)
    BY <2>2, <2>3, <2>4, <2>5
  <2>7. QED
    BY <1>3, <2>1, <2>6
<1>11. CASE TreeArrives
  <2> DEFINE loaded == {shell} \cup Loads(shell)
             shells == IF shell.search.open THEN UNION {Previews(s) : s \in loaded} ELSE loaded
  <2>1. Arrives(shells)
    BY <1>11 DEF TreeArrives
  <2>2. \A s \in loaded : Moved(shell, s)
    BY <1>1, LoadsMove
  <2>3. \A r \in shells : r \in loaded \/ \E s \in loaded : r \in Previews(s)
    OBVIOUS
  <2> HIDE DEF loaded, shells
  <2>4. \A r \in shells : Moved(shell, r)
    BY <1>2, <2>2, <2>3, PreviewsMove, MovedTwice
  <2>5. QED
    BY <1>3, <2>1, <2>4
<1>12. QED
  BY <1>4, <1>5, <1>6, <1>7, <1>8, <1>9, <1>10, <1>11 DEF Arrival

LEMMA LeavingIsSound ==
    ASSUME Sound(shell, editing), Leaving PROVE Sound(shell', editing')
<1>1. IsShell(shell)
  BY DEF Sound
<1>2. ASSUME NEW r, Moved(shell, r) PROVE Sound(r, editing)
  BY <1>2, SoundIfMoved
<1>3. ASSUME NEW key, PressToQuit(key) PROVE Sound(shell', editing')
  <2> DEFINE gone == [shell EXCEPT !.offer = "none"]
             asks == [shell EXCEPT !.quit = [key |-> key, until |-> hour + QuitWindow]]
  <2>1. editing' = editing /\ (\/ shell' \in Preview(gone) \/ shell' = Cancel(shell)
                               \/ shell' = Calm(shell) \/ shell' = asks)
    BY <1>3 DEF PressToQuit
  <2>2. Moved(shell, asks)
    BY <1>1 DEF Moved, IsShell, Fields
  <2>3. Moved(shell, gone)
    BY <1>1, SmallMoves
  <2> HIDE DEF gone, asks
  <2>4. Moved(shell, shell')
    <3>1. IsShell(gone)
      BY <2>3 DEF Moved
    <3>2. QED
      BY <1>1, <2>1, <2>2, <2>3, <3>1, PreviewMoves, CancelMoves, CalmMoves, MovedTwice
  <2>5. QED
    BY <1>2, <2>1, <2>4
<1>4. CASE CtrlC \/ PollQuit
  <2>1. shell' = Calm(shell) /\ editing' = editing
    BY <1>4 DEF CtrlC, PollQuit, Arrives, Becomes
  <2>2. QED
    BY <1>1, <1>2, <2>1, CalmMoves
<1>5. CASE TimePasses
  BY <1>5 DEF TimePasses
<1>6. QED
  BY <1>3, <1>4, <1>5 DEF Leaving

LEMMA FirstShellIsSound == ShellInit => Sound(shell, editing)
<1>1. SUFFICES ASSUME NEW hidden \in BOOLEAN PROVE Sound(FirstShell(hidden), editing)
  BY DEF ShellInit
<1>2. QED
  BY DEF FirstShell, Sound, IsShell, Fields, NoSearch, Hidden

\* The lists of drawing and of keys differ only where the property says so.
LEMMA SoundIsDrawn == Sound(shell, editing) => DrawnHearsKeys
<1> SUFFICES ASSUME Sound(shell, editing), NEW popup \in Popups, OnTop(popup, DrawnOrder)
             PROVE  \/ OnTop(popup, KeyOrder)
                    \/ popup = "palette" /\ Up("menu")
                    \/ popup = "picker" /\ Up("send")
                    \/ popup = "search" /\ Up("edit")
  BY DEF DrawnHearsKeys
<1>1. /\ Len(KeyOrder) = 9
      /\ KeyOrder[1] = "menu" /\ KeyOrder[2] = "palette" /\ KeyOrder[3] = "send"
      /\ KeyOrder[4] = "picker" /\ KeyOrder[5] = "context" /\ KeyOrder[6] = "find"
      /\ KeyOrder[7] = "edit" /\ KeyOrder[8] = "search" /\ KeyOrder[9] = "base"
  BY DEF KeyOrder
<1>2. /\ Len(DrawnOrder) = 7
      /\ DrawnOrder[1] = "palette" /\ DrawnOrder[2] = "menu" /\ DrawnOrder[3] = "picker"
      /\ DrawnOrder[4] = "send" /\ DrawnOrder[5] = "search" /\ DrawnOrder[6] = "context"
      /\ DrawnOrder[7] = "base"
  BY DEF DrawnOrder
<1>3. ASSUME NEW i \in 1..9, Up(KeyOrder[i]), \A j \in 1..9 : j < i => ~Up(KeyOrder[j])
      PROVE  OnTop(KeyOrder[i], KeyOrder)
  <2>1. \A j \in 1..(i - 1) : j \in 1..9 /\ j < i
    OBVIOUS
  <2>2. QED
    BY <1>1, <1>3, <2>1 DEF OnTop
<1>4. PICK i \in 1..7 : /\ DrawnOrder[i] = popup /\ Up(popup)
                        /\ \A j \in 1..(i - 1) : ~Up(DrawnOrder[j])
  BY <1>2 DEF OnTop
<1>5. Up("search") => ~Up("context") /\ ~Up("find")
  BY DEF Up, Sound
<1>6. CASE popup = "palette"
  <2>1. ~Up("menu") => OnTop(KeyOrder[2], KeyOrder)
    BY <1>1, <1>3, <1>4, <1>6
  <2>2. QED
    BY <1>1, <1>6, <2>1
<1>7. CASE popup = "menu"
  <2>1. OnTop(KeyOrder[1], KeyOrder)
    BY <1>1, <1>3, <1>4, <1>7
  <2>2. QED
    BY <1>1, <1>7, <2>1
<1>8. CASE popup = "picker"
  <2>1. ~Up("palette") /\ ~Up("menu")
    BY <1>2, <1>4, <1>8
  <2>2. ~Up("send") => OnTop(KeyOrder[4], KeyOrder)
    BY <1>1, <1>3, <1>4, <1>8, <2>1
  <2>3. QED
    BY <1>1, <1>8, <2>2
<1>9. CASE popup = "send"
  <2>1. ~Up("palette") /\ ~Up("menu") /\ ~Up("picker")
    BY <1>2, <1>4, <1>9
  <2>2. OnTop(KeyOrder[3], KeyOrder)
    BY <1>1, <1>3, <1>4, <1>9, <2>1
  <2>3. QED
    BY <1>1, <1>9, <2>2
<1>10. CASE popup = "search"
  <2>1. ~Up("palette") /\ ~Up("menu") /\ ~Up("picker") /\ ~Up("send")
    BY <1>2, <1>4, <1>10
  <2>2. ~Up("edit") => OnTop(KeyOrder[8], KeyOrder)
    BY <1>1, <1>3, <1>4, <1>5, <1>10, <2>1
  <2>3. QED
    BY <1>1, <1>10, <2>2
<1>11. CASE popup = "context"
  <2>1. ~Up("palette") /\ ~Up("menu") /\ ~Up("picker") /\ ~Up("send")
    BY <1>2, <1>4, <1>11
  <2>2. OnTop(KeyOrder[5], KeyOrder)
    BY <1>1, <1>3, <1>4, <1>11, <2>1
  <2>3. QED
    BY <1>1, <1>11, <2>2
<1>12. QED
  BY <1>6, <1>7, <1>8, <1>9, <1>10, <1>11 DEF Popups

\* The popup that is drawn on top hears the keys, no key goes to a tree that is hidden, no
\* tab shows the text of a session that is over, and the find bar is never up with the
\* search, but for what the property names, for any number of tabs and any limit on them.
THEOREM LayersAgree == ShellSpec => []ShellIsSound
<1>1. ShellInit => Sound(shell, editing) /\ SessionsAreTyped
  BY FirstShellIsSound DEF ShellInit, SessionsAreTyped, EditStates
<1>2. Sound(shell, editing) /\ SessionsAreTyped /\ [ShellNext]_shellVars
        => Sound(shell, editing)' /\ SessionsAreTyped'
  <2>1. SUFFICES ASSUME Sound(shell, editing), SessionsAreTyped, [ShellNext]_shellVars
                 PROVE  Sound(shell', editing')
    BY SessionsStayTyped
  <2>2. CASE ShellNext
    BY <2>1, <2>2, PopupsAreSound, EditsAreSound, PanesAreSound, ArrivalsAreSound,
       LeavingIsSound DEF ShellNext
  <2>3. CASE UNCHANGED shellVars
    BY <2>1, <2>3 DEF shellVars
  <2>4. QED
    BY <2>1, <2>2, <2>3
<1>3. Sound(shell, editing) => ShellIsSound
  BY SoundIsDrawn DEF ShellIsSound, Sound, FocusIsShown, BufferHasSession
<1>4. QED
  BY <1>1, <1>2, <1>3, PTL DEF ShellSpec

================================================================================
