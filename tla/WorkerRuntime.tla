------------------------------ MODULE WorkerRuntime ------------------------------
(* The background I/O worker of latte-lens (src/runtime.rs): one thread that    *)
(* serves every repository refresh, directory scan, preview, diff, external     *)
(* open and agent-pane request of the terminal UI.  The two threads share one   *)
(* mutex (SharedState) and one condition variable.                              *)
(*                                                                              *)
(* A critical section is one action.  The work itself runs outside the lock, so *)
(* client calls interleave with it: WorkerStart and WorkerFinish are two        *)
(* actions with any number of client actions between them.                      *)
(*                                                                              *)
(* The condition variable is modelled by the set of blocked threads (waiters):  *)
(* notify_one removes one member, notify_all all of them.  A thread that blocks *)
(* with work to do and is never removed has lost its wake-up.                   *)
(*                                                                              *)
(* The client here is the most general one: it may make any call at any time.   *)
(* ContentTabs.tla is the client the program really has.                        *)
EXTENDS Naturals, Sequences, FiniteSets, SequencesExt, RequestQueues

CONSTANTS
    Keys,          \* what a queue coalesces on: tab ids, directory paths
    MaxRequests,   \* bound on the requests the client makes
    None           \* no request, no completion

ASSUME KeysAssumption == Keys # {}
ASSUME MaxRequestsAssumption == MaxRequests \in Nat
SlotKinds  == {"refresh", "open", "discover", "send"}
QueueKinds == {"directory", "content"}
Kinds      == SlotKinds \cup QueueKinds

Request    == [kind : Kinds, key : Keys, id : 1..MaxRequests]
Completion == [req : Request, ok : BOOLEAN]

ASSUME NoneAssumption == None \notin Request

VARIABLES
    shutdown,    \* SharedState::shutdown
    active,      \* per kind: a request of that kind is being executed
    slot,        \* per slot kind: the pending request, or None
    queue,       \* per queue kind: the pending requests, oldest first
    doneSlot,    \* per slot kind: the completion the client has not taken
    doneQueue,   \* per queue kind: the completions the client has not taken
    registry,    \* preview registry: last published, waiting in the lock, in use
    worker,      \* "idle" (at the lock), "busy" or "exited"
    job,         \* the request under execution, or None
    graph,       \* id of the refresh whose graph the worker holds, 0 for none
    client,      \* "running", "waiting", "joining" or "gone"
    waiters,     \* threads blocked on the condition variable
    issued,      \* requests made so far; the last id given out
    asked,       \* history: the queue requests that were accepted
    withdrawn,   \* history: those the client replaced or cancelled itself
    delivered    \* history: those whose completion the client has taken

shared  == <<shutdown, active, slot, queue, doneSlot, doneQueue, registry>>
history == <<asked, withdrawn, delivered>>
vars    == <<shutdown, active, slot, queue, doneSlot, doneQueue, registry,
             worker, job, graph, client, waiters, issued,
             asked, withdrawn, delivered>>

----------------------------------------------------------------------------------
(* Queues and slots *)

\* RequestSlot::complete, DirectoryQueue::complete, ContentQueue::complete.
Complete(k) == [active EXCEPT ![k] = FALSE]

\* Where a completion goes: VecDeque::push_back.
Publish(q, c) == Append(q, c)

\* Mutant: a request is started whether one is pending or not.
StartableUnchecked(k) == ~active[k]

\* RequestSlot::start_next, DirectoryQueue::start_next, ContentQueue::start_next
\* return a request when none of the kind is active and one is pending.
Pending(k) == IF k \in SlotKinds THEN slot[k] # None ELSE queue[k] # <<>>
Startable(k) == ~active[k] /\ Pending(k)
NextRequest(k) == IF k \in SlotKinds THEN slot[k] ELSE Head(queue[k])

\* RequestSlot::has_work and the has_work of the queues.
HasWork(k) == active[k] \/ Pending(k)

HasCompletion ==
    \/ \E k \in SlotKinds : doneSlot[k] # None
    \/ \E k \in QueueKinds : doneQueue[k] # <<>>

\* The wait predicate of worker_loop.
WorkerMustWait ==
    /\ ~shutdown
    /\ \A k \in Kinds : ~Pending(k)
    /\ registry.update = 0

\* The wait predicate of wait_for_completion.
ClientMustWait ==
    /\ ~shutdown
    /\ ~HasCompletion
    /\ \E k \in Kinds : HasWork(k)

\* Mutant: who waits is not told.
NotifyNobody == waiters' = waiters

\* Condvar::notify_one.
NotifyOne ==
    \/ waiters = {} /\ waiters' = {}
    \/ \E t \in waiters : waiters' = waiters \ {t}

\* Condvar::notify_all.
NotifyAll == waiters' = {}

----------------------------------------------------------------------------------
(* The client's calls *)

Init ==
    /\ shutdown = FALSE
    /\ active = [k \in Kinds |-> FALSE]
    /\ slot = [k \in SlotKinds |-> None]
    /\ queue = [k \in QueueKinds |-> <<>>]
    /\ doneSlot = [k \in SlotKinds |-> None]
    /\ doneQueue = [k \in QueueKinds |-> <<>>]
    /\ registry = [published |-> 0, update |-> 0, installed |-> 0]
    /\ worker = "idle"
    /\ job = None
    /\ graph = 0
    /\ client = "running"
    /\ waiters = {}
    /\ issued = 0
    /\ asked = {} /\ withdrawn = {} /\ delivered = {}

Issue(kind, key) == [kind |-> kind, key |-> key, id |-> issued + 1]

CanIssue == client = "running" /\ issued < MaxRequests

\* request_refresh, request_external_open, request_agent_discover and
\* request_agent_send: the slot keeps only the newest request.
RequestSlot(k, key) ==
    /\ CanIssue
    /\ issued' = issued + 1
    /\ slot' = [slot EXCEPT ![k] = Issue(k, key)]
    /\ NotifyOne
    /\ UNCHANGED <<shutdown, active, queue, doneSlot, doneQueue, registry,
                   worker, job, graph, client, asked, withdrawn, delivered>>

\* request_directory
RequestDirectory(key) ==
    LET r == Issue("directory", key)
        q == queue["directory"] IN
    /\ CanIssue
    /\ issued' = issued + 1
    /\ queue' = [queue EXCEPT !["directory"] = SubmitDirectory(q, r)]
    /\ asked' = IF \E i \in 1..Len(q) : q[i].key = key
                THEN asked ELSE asked \cup {r}
    /\ NotifyOne
    /\ UNCHANGED <<shutdown, active, slot, doneSlot, doneQueue, registry,
                   worker, job, graph, client, withdrawn, delivered>>

\* request_content
RequestContent(key) ==
    LET r == Issue("content", key) IN
    /\ CanIssue
    /\ issued' = issued + 1
    /\ queue' = [queue EXCEPT !["content"] = SubmitContent(@, r)]
    /\ asked' = asked \cup {r}
    /\ withdrawn' = withdrawn \cup
                    {a \in asked : a.kind = "content" /\ a.key = key}
    /\ NotifyOne
    /\ UNCHANGED <<shutdown, active, slot, doneSlot, doneQueue, registry,
                   worker, job, graph, client, delivered>>

\* cancel_pending_content: nobody is notified.
CancelPendingContent ==
    /\ client = "running"
    /\ queue' = [queue EXCEPT !["content"] = <<>>]
    /\ withdrawn' = withdrawn \cup {a \in asked : a.kind = "content"}
    /\ UNCHANGED <<shutdown, active, slot, doneSlot, doneQueue, registry,
                   worker, job, graph, client, waiters, issued, asked, delivered>>

\* cancel_pending_content_for_tab
CancelPendingContentForTab(key) ==
    /\ client = "running"
    /\ queue' = [queue EXCEPT !["content"] = CancelPendingForTab(@, key)]
    /\ withdrawn' = withdrawn \cup
                    {a \in asked : a.kind = "content" /\ a.key = key}
    /\ UNCHANGED <<shutdown, active, slot, doneSlot, doneQueue, registry,
                   worker, job, graph, client, waiters, issued, asked, delivered>>

\* cancel_pending_external_open
CancelPendingExternalOpen ==
    /\ client = "running"
    /\ slot' = [slot EXCEPT !["open"] = None]
    /\ UNCHANGED <<shutdown, active, queue, doneSlot, doneQueue, registry,
                   worker, job, graph, client, waiters, issued, history>>

\* update_preview_registry: the newest registry waits in the lock.
UpdatePreviewRegistry ==
    /\ CanIssue
    /\ issued' = issued + 1
    /\ registry' = [registry EXCEPT !.published = issued + 1,
                                    !.update = issued + 1]
    /\ NotifyOne
    /\ UNCHANGED <<shutdown, active, slot, queue, doneSlot, doneQueue,
                   worker, job, graph, client, history>>

\* take_completions: the refresh, directory, content and external-open results.
TakeCompletions ==
    /\ client = "running"
    /\ doneSlot' = [doneSlot EXCEPT !["refresh"] = None, !["open"] = None]
    /\ doneQueue' = [k \in QueueKinds |-> <<>>]
    /\ delivered' = delivered \cup
          UNION {{c.req : c \in ToSet(doneQueue[k])} : k \in QueueKinds}
    /\ UNCHANGED <<shutdown, active, slot, queue, registry, worker, job, graph,
                   client, waiters, issued, asked, withdrawn>>

\* take_agent_completions
TakeAgentCompletions ==
    /\ client = "running"
    /\ doneSlot' = [doneSlot EXCEPT !["discover"] = None, !["send"] = None]
    /\ UNCHANGED <<shutdown, active, slot, queue, doneQueue, registry, worker,
                   job, graph, client, waiters, issued, history>>

\* wait_for_completion: block while work is under way and nothing is finished.
WaitForCompletion ==
    /\ client = "running"
    /\ ClientMustWait
    /\ client' = "waiting"
    /\ waiters' = waiters \cup {"client"}
    /\ UNCHANGED <<shared, worker, job, graph, issued, history>>

\* The client was woken: it returns, or blocks again.
ClientWakes ==
    /\ client = "waiting" /\ "client" \notin waiters
    /\ IF ClientMustWait
       THEN waiters' = waiters \cup {"client"} /\ client' = client
       ELSE client' = "running" /\ waiters' = waiters
    /\ UNCHANGED <<shared, worker, job, graph, issued, history>>

\* Drop for WorkerRuntime, first half: everything pending is cancelled.
Drop ==
    /\ client = "running"
    /\ client' = "joining"
    /\ shutdown' = TRUE
    /\ slot' = [k \in SlotKinds |-> None]
    /\ queue' = [k \in QueueKinds |-> <<>>]
    /\ withdrawn' = asked
    /\ NotifyAll
    /\ UNCHANGED <<active, doneSlot, doneQueue, registry, worker, job, graph,
                   issued, asked, delivered>>

\* Drop, second half: join returns when the worker has returned.
Join ==
    /\ client = "joining" /\ worker = "exited"
    /\ client' = "gone"
    /\ UNCHANGED <<shared, worker, job, graph, waiters, issued, history>>

----------------------------------------------------------------------------------
(* The worker thread *)

WorkerRuns == worker = "idle" /\ "worker" \notin waiters

\* Nothing to do: block until notified.
WorkerWaits ==
    /\ WorkerRuns /\ WorkerMustWait
    /\ waiters' = waiters \cup {"worker"}
    /\ UNCHANGED <<shared, worker, job, graph, client, issued, history>>

WorkerExits ==
    /\ WorkerRuns /\ shutdown
    /\ worker' = "exited"
    /\ UNCHANGED <<shared, job, graph, client, waiters, issued, history>>

InstallNothing == registry' = registry

\* Mutant InstallNothing: the registry waits for a later turn of the loop.
\* The registry update is installed in the critical section that takes the work.
InstallRegistry ==
    registry' = IF registry.update = 0 THEN registry
                ELSE [registry EXCEPT !.installed = registry.update, !.update = 0]

\* take_next_work finds nothing: only the registry had changed.
WorkerInstalls ==
    /\ WorkerRuns /\ ~shutdown /\ ~WorkerMustWait
    /\ \A k \in Kinds : ~Startable(k)
    /\ InstallRegistry
    /\ UNCHANGED <<shutdown, active, slot, queue, doneSlot, doneQueue, worker, job,
                   graph, client, waiters, issued, history>>

\* The order in which take_next_work looks at the kinds.
Rank == [refresh |-> 1, directory |-> 2, content |-> 3,
         open |-> 4, discover |-> 5, send |-> 6]

\* take_next_work: the startable kind of highest priority.
TakeNextWork(k) ==
    /\ Startable(k)
    /\ \A j \in Kinds : Startable(j) => Rank[k] <= Rank[j]

WorkerStarts(k) ==
    /\ WorkerRuns /\ ~shutdown /\ ~WorkerMustWait
    /\ TakeNextWork(k)
    /\ InstallRegistry
    /\ worker' = "busy"
    /\ job' = NextRequest(k)
    /\ active' = [active EXCEPT ![k] = TRUE]
    /\ IF k \in SlotKinds
       THEN slot' = [slot EXCEPT ![k] = None] /\ queue' = queue
       ELSE queue' = [queue EXCEPT ![k] = Tail(@)] /\ slot' = slot
    /\ UNCHANGED <<shutdown, doneSlot, doneQueue, graph, client, waiters, issued,
                   history>>

\* The work is done, or has failed or panicked (catch_worker_error): the worker
\* takes the lock, clears the active flag and publishes the completion.  A slot
\* completion nobody has taken is overwritten.  Only a successful refresh
\* replaces the graph.
WorkerFinishes(ok) ==
    LET k == job.kind
        c == [req |-> job, ok |-> ok] IN
    /\ worker = "busy"
    /\ worker' = "idle"
    /\ job' = None
    /\ active' = Complete(k)
    /\ IF k \in SlotKinds
       THEN doneSlot' = [doneSlot EXCEPT ![k] = c] /\ doneQueue' = doneQueue
       ELSE doneQueue' = [doneQueue EXCEPT ![k] = Publish(@, c)]
            /\ doneSlot' = doneSlot
    /\ graph' = IF k = "refresh" /\ ok THEN job.id ELSE graph
    /\ NotifyAll
    /\ UNCHANGED <<shutdown, slot, queue, registry, client, issued, history>>

----------------------------------------------------------------------------------
ClientStep ==
    \/ \E k \in SlotKinds, key \in Keys : RequestSlot(k, key)
    \/ \E key \in Keys : RequestDirectory(key)
    \/ \E key \in Keys : RequestContent(key)
    \/ CancelPendingContent
    \/ \E key \in Keys : CancelPendingContentForTab(key)
    \/ CancelPendingExternalOpen
    \/ UpdatePreviewRegistry
    \/ TakeCompletions
    \/ TakeAgentCompletions
    \/ WaitForCompletion
    \/ Drop

WorkerStep ==
    \/ WorkerWaits
    \/ WorkerExits
    \/ WorkerInstalls
    \/ \E k \in Kinds : WorkerStarts(k)
    \/ \E ok \in BOOLEAN : WorkerFinishes(ok)

\* The program has ended; the state may repeat.
Ended == client = "gone" /\ UNCHANGED vars

Next == ClientStep \/ ClientWakes \/ Join \/ WorkerStep \/ Ended

Spec == Init /\ [][Next]_vars

\* The worker thread is scheduled and each piece of work returns; a woken client
\* and a returning join are scheduled too.  Nothing makes the client call.
Fairness == WF_vars(WorkerStep) /\ WF_vars(ClientWakes) /\ WF_vars(Join)

FairSpec == Spec /\ Fairness

----------------------------------------------------------------------------------
(* Type invariant *)

TypeOK ==
    /\ shutdown \in BOOLEAN
    /\ active \in [Kinds -> BOOLEAN]
    /\ slot \in [SlotKinds -> Request \cup {None}]
    /\ queue \in [QueueKinds -> Seq(Request)]
    /\ doneSlot \in [SlotKinds -> Completion \cup {None}]
    /\ doneQueue \in [QueueKinds -> Seq(Completion)]
    /\ registry \in [published : 0..MaxRequests, update : 0..MaxRequests,
                     installed : 0..MaxRequests]
    /\ worker \in {"idle", "busy", "exited"}
    /\ IF worker = "busy" THEN job \in Request ELSE job = None
    /\ graph \in 0..MaxRequests
    /\ client \in {"running", "waiting", "joining", "gone"}
    /\ waiters \subseteq {"worker", "client"}
    /\ issued \in 0..MaxRequests
    /\ asked \subseteq Request
    /\ withdrawn \subseteq Request
    /\ delivered \subseteq Request

----------------------------------------------------------------------------------
(* Safety *)

\* A worker blocked on the condition variable has nothing to do: no request, no
\* registry update and no shutdown has been posted without waking it, although
\* the cancelling calls notify nobody and every submit notifies one thread only.
NoLostWakeup == "worker" \in waiters => WorkerMustWait

\* A client blocked in wait_for_completion waits for work that is really under
\* way or queued, and no finished result is lying unread: it cannot sleep
\* through the completion it waits for.
ClientWaitsForWork == "client" \in waiters => client = "waiting" /\ ClientMustWait

\* The active flags describe the single worker thread: the flag of a kind is set
\* exactly while a request of that kind is executing.
OneActive == \A k \in Kinds : active[k] <=> (worker = "busy" /\ job.kind = k)

\* Where a queue request can be found.
Held == ToSet(queue["directory"]) \cup ToSet(queue["content"])
        \cup (IF worker = "busy" THEN {job} ELSE {})
        \cup {c.req : c \in ToSet(doneQueue["directory"])
                            \cup ToSet(doneQueue["content"])}
        \cup delivered

\* No directory or content request is dropped: it is pending, executing,
\* completed or delivered, unless the client itself replaced or cancelled it
\* for the same tab (or dropped the runtime).  Coalescing and cancelling one tab
\* never costs another tab its request.
NothingLost == asked \subseteq Held \cup withdrawn

\* Each tab has at most one pending content request, each directory at most one
\* pending scan.
OnePendingPerKey ==
    \A k \in QueueKinds : \A i, j \in 1..Len(queue[k]) :
        queue[k][i].key = queue[k][j].key => i = j

\* Results of a tab are published in the order of its requests: completed ones
\* are older than the executing one, which is older than the pending one.  The
\* generation check of the UI relies on it.
ContentInOrder ==
    LET done == doneQueue["content"]
        todo == queue["content"] IN
    /\ \A i, j \in 1..Len(done) :
          i < j /\ done[i].req.key = done[j].req.key
             => done[i].req.id < done[j].req.id
    /\ \A i \in 1..Len(done), j \in 1..Len(todo) :
          done[i].req.key = todo[j].key => done[i].req.id < todo[j].id
    /\ worker = "busy" /\ job.kind = "content" =>
          /\ \A i \in 1..Len(done) :
                done[i].req.key = job.key => done[i].req.id < job.id
          /\ \A j \in 1..Len(todo) : todo[j].key = job.key => job.id < todo[j].id

\* A content request is executed against a graph no older than the refreshes
\* asked for before it: no such refresh is still waiting.
RefreshBeforeContent ==
    worker = "busy" /\ job.kind \in {"content", "open"} /\ slot["refresh"] # None
        => job.id < slot["refresh"].id

\* No request or result is lost between the two threads, a tab's requests coalesce and
\* come back in their order, and refreshes precede previews.
RequestsKeepTheirOrder ==
    NothingLost /\ OnePendingPerKey /\ ContentInOrder /\ RefreshBeforeContent

----------------------------------------------------------------------------------
(* Action properties *)

\* A job starts with the preview registry published last.
StartsWithNewestRegistry ==
    [][worker = "idle" /\ worker' = "busy"
          => registry'.installed = registry.published]_vars

----------------------------------------------------------------------------------
(* Liveness *)

\* Dropping the runtime ends the worker thread and returns: the worker observes
\* the shutdown whether it was blocked, at the lock or executing.
DropReturns == (client = "joining") ~> (client = "gone")

\* wait_for_completion returns.
WaitReturns == (client = "waiting") ~> (client = "running")

\* All that is pending is taken up in the end, although take_next_work always
\* prefers the kinds before it: the client makes finitely many requests here.  A
\* client that refreshes for ever starves the others.
PendingServed == (\E k \in Kinds : Pending(k)) ~> (\A k \in Kinds : ~Pending(k))

\* Shutting down and waiting for a result come to an end, and what is pending is taken
\* up.
CallsComeToAnEnd == DropReturns /\ WaitReturns /\ PendingServed
==================================================================================
