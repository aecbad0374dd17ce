------------------------------ MODULE RequestQueues ------------------------------
(* The pure operations of the UI's request bookkeeping in src/runtime.rs: the   *)
(* coalescing queues and the generation counter (RequestGeneration) that decides*)
(* whether a completion is still wanted.                                        *)
EXTENDS Naturals, Sequences

\* Mutant: the pending request at the front is replaced whatever its tab.
SubmitContentOverFront(q, r) ==
    IF q # <<>> THEN <<r>> \o Tail(q) ELSE <<r>>

\* ContentQueue::submit: a request replaces the pending one of its own tab in
\* place; otherwise it goes to the back.
SubmitContent(q, r) ==
    IF \E i \in 1..Len(q) : q[i].key = r.key
    THEN [i \in 1..Len(q) |-> IF q[i].key = r.key THEN r ELSE q[i]]
    ELSE Append(q, r)

\* DirectoryQueue::submit: a request for a directory that is already pending is
\* dropped, the pending one stands for it.
SubmitDirectory(q, r) ==
    IF \E i \in 1..Len(q) : q[i].key = r.key THEN q ELSE Append(q, r)

\* ContentQueue::cancel_pending_for_tab.  A queue holds at most one request of a
\* key (OnePendingPerKey of WorkerRuntime), so retaining the others removes one
\* position.
CancelPendingForTab(q, k) ==
    IF \E i \in 1..Len(q) : q[i].key = k
    THEN LET at == CHOOSE i \in 1..Len(q) : q[i].key = k
         IN  [i \in 1..(Len(q) - 1) |-> IF i < at THEN q[i] ELSE q[i + 1]]
    ELSE q

----------------------------------------------------------------------------------
(* RequestGeneration.  next and latest_requested are always equal (begin is the *)
(* only place that writes them), so one field stands for both.  The counters    *)
(* are u64 and begin panics instead of wrapping.                                *)

NewGeneration == [latest |-> 0, applied |-> 0, loading |-> FALSE]

\* RequestGeneration::begin
Begin(g) == [g EXCEPT !.latest = @ + 1, !.loading = TRUE]

\* RequestGeneration::invalidate: nothing requested so far will be accepted.
Invalidate(g) ==
    [latest |-> g.latest + 1, applied |-> g.latest + 1, loading |-> FALSE]

\* RequestGeneration::accept, its condition and its effect.
Accepts(g, n) == n = g.latest /\ n > g.applied
Accept(g, n)  == [g EXCEPT !.applied = n, !.loading = FALSE]
==================================================================================
