----------------------------- MODULE SendPayload -----------------------------
(* build_payload: the message staged for an agent, within a budget of bytes.   *)
(*                                                                             *)
(* A selection is the sequence of the lengths of its lines.  A message that    *)
(* does not fit keeps lines at both ends, whole, and says how many it omits;   *)
(* what is computed here is how many of them it keeps, and how long it gets.   *)
EXTENDS Integers, Sequences, FiniteSetsExt

CONSTANTS
    MaxSend, \* MAX_SEND_BYTES
    Reserve, \* TRUNCATION_RESERVE
    Words    \* the bytes of a marker or of a suffix besides its numbers

\* How many bytes a number takes.
Digits(n) == IF n < 10 THEN 1 ELSE IF n < 100 THEN 2 ELSE IF n < 1000 THEN 3 ELSE 4

\* The lines first to last, each with what comes after it.
Cost(lines, first, last, extra) ==
    MapThenSumSet(LAMBDA i : lines[i] + extra, first .. last)

\* A message: its lines, the bytes of its annotation and of its fence; the bytes
\* of its header, 0 for the plain template; and of its gutter.
Anchored(m) == m.header > 0

\* The text that omits nothing.
Full(m) ==
    LET code == Cost(m.lines, 1, Len(m.lines), 1) - 1
    IN  IF Anchored(m)
        THEN m.header + 1 + m.note + m.fence + 1 + code + 1 + m.fence
        ELSE m.note + code

Gutter(m) == IF Anchored(m) THEN m.gutter ELSE 0

Suffix(total, omitted) == Words + Digits(total) + Digits(omitted)

\* plain_marker, code_marker: the anchored one names the file again.
Marker(m, omitted, bytes) == Words + Digits(omitted) + Digits(bytes) + m.header

\* The text that keeps the first head and the last tail lines.
Assembled(m, head, tail) ==
    LET n       == Len(m.lines)
        omitted == n - head - tail
        bytes   == Cost(m.lines, head + 1, n - tail, 1)
        marker  == Marker(m, omitted, bytes)
        Joined(k, cost) == IF k = 0 THEN 0 ELSE cost - 1
    IN  IF Anchored(m)
        THEN m.header + Suffix(n, omitted) + 1 + m.note + m.fence + 1
             + Cost(m.lines, 1, head, 1 + Gutter(m))
             + (IF omitted > 0 THEN marker + 1 ELSE 0)
             + Cost(m.lines, n - tail + 1, n, 1 + Gutter(m)) + m.fence
        ELSE m.note + Joined(head, Cost(m.lines, 1, head, 1)) + 1 + marker + 1
             + Joined(tail, Cost(m.lines, n - tail + 1, n, 1))

\* What the split may spend on lines.  Where nothing is left the code would underflow;
\* an annotation of 512 bytes at most (MAX_ANNOTATION_BYTES) keeps it from that.
Budget(m) ==
    LET left == IF Anchored(m)
                THEN MaxSend - (m.header + Suffix(Len(m.lines), Len(m.lines)) + m.note
                                + m.fence + 1 + m.fence + Reserve)
                ELSE MaxSend - m.note - Reserve
    IN  IF left < 0 THEN 0 ELSE left

\* split_head_tail: 55% of the budget for the head and the rest for the tail, a
\* line at least for each, and never all the lines.
SplitHeadTail(m) ==
    LET n     == Len(m.lines)
        extra == 1 + Gutter(m)
        front == (Budget(m) * 55) \div 100
        h == Max({k \in 0 .. n - 1 : Cost(m.lines, 1, k, extra) <= front})
        t == Max({k \in 0 .. n - 1 - h :
                     Cost(m.lines, n - k + 1, n, extra) <= Budget(m) - front})
        head == IF h = 0 THEN 1 ELSE h
    IN  IF Cost(m.lines, 1, n, extra) <= Budget(m) THEN [head |-> n, tail |-> 0]
        ELSE [head |-> head, tail |-> IF t = 0 /\ n > head THEN 1 ELSE t]

Fits(m, s) == Assembled(m, s.head, s.tail) <= MaxSend

\* Mutant: only the tail is shortened.
ShrinkTail(m, s) ==
    LET fit == {k \in 0 .. s.tail : Fits(m, [s EXCEPT !.tail = k])}
    IN  [s EXCEPT !.tail = IF fit = {} THEN 0 ELSE Max(fit)]

\* verify_budget, and the exact shrink of build_anchored: lines of the tail are
\* dropped until the message fits, and then lines of the head.
Shrink(m, s) ==
    LET tails == {k \in 0 .. s.tail : Fits(m, [s EXCEPT !.tail = k])}
        heads == {k \in 0 .. s.head : Fits(m, [head |-> k, tail |-> 0])}
    IN  IF tails # {} THEN [s EXCEPT !.tail = Max(tails)]
        ELSE [head |-> IF heads = {} THEN 0 ELSE Max(heads), tail |-> 0]

\* build_payload: how many lines it keeps, and its length.
Payload(m) ==
    LET cut == Shrink(m, SplitHeadTail(m))
    IN  IF Full(m) <= MaxSend
        THEN [head |-> Len(m.lines), tail |-> 0, truncated |-> FALSE, size |-> Full(m)]
        ELSE [head |-> cut.head, tail |-> cut.tail, truncated |-> TRUE,
              size |-> Assembled(m, cut.head, cut.tail)]

------------------------------------------------------------------------------
\* Properties of a message

\* The message keeps within the budget whenever what it always says does, and it
\* is cut exactly when it must be: then it omits a line at least, and keeps none
\* twice.
\* ("Pure and budget-exact", send_agent.rs.)
PayloadIsExact(m) ==
    LET p == Payload(m)
        n == Len(m.lines)
    IN  /\ Assembled(m, 0, 0) <= MaxSend => p.size <= MaxSend
        /\ p.truncated <=> Full(m) > MaxSend
        /\ p.head + p.tail <= n
        /\ p.truncated => p.head + p.tail < n

\* What a comment says and the code does not keep, see the README: a selection
\* that is cut keeps its head and its tail (MAX_SEND_BYTES) where both could be.
PayloadKeepsEnds(m) ==
    LET p == Payload(m)
    IN  p.truncated /\ Assembled(m, 1, 1) <= MaxSend => p.head > 0 /\ p.tail > 0
==============================================================================
