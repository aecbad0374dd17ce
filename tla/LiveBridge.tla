----------------------------- MODULE LiveBridge -----------------------------
(***************************************************************************)
(* How the report of a hook reaches the viewers (agent/dispatcher.rs,      *)
(* agent/live.rs, agent/transport.rs, agent/bootstrap.rs).  Each running   *)
(* viewer binds a socket and keeps a manifest of it in a directory; a hook *)
(* process reads the directory, offers its event to every viewer it finds, *)
(* and writes the metadata store when not all of them acknowledge in time. *)
(* All viewers here have selected the workspace of the events.             *)
(***************************************************************************)
EXTENDS EventDelivery, Integers, Sequences, FiniteSets

CONSTANTS Viewers,      \* viewer processes
          Events,       \* events, each the work of one hook process
          None,
          QueueCap,     \* completions the terminal has not read yet
          Ttl,          \* RECEIVER_LEASE_TTL, in the steps of the clock
          MaxTime, MaxCrashes

Torn == -1

VARIABLES
    manifest,   \* each viewer's manifest: None, Torn while it is rewritten, its time
    viewer,     \* what each viewer is doing
    selected,   \* the viewers whose runtime has handled its SelectWorkspace
    backlog,    \* the connections a viewer has not accepted
    queue,      \* envelopes on their way to its terminal
    reduced,    \* the events its terminal took in
    now, crashes

viewerVars == <<selected, taken, queue, reduced>>
hookVars == <<hook, answer>>
vars == <<manifest, viewer, backlog, viewerVars, hookVars, now, crashes>>

Init ==
    /\ manifest = [v \in Viewers |-> None] /\ viewer = [v \in Viewers |-> "down"]
    /\ selected = {}
    /\ backlog = [v \in Viewers |-> {}] /\ queue = [v \in Viewers |-> <<>>]
    /\ taken = [v \in Viewers |-> [e \in Events |-> 0]]
    /\ reduced = [v \in Viewers |-> {}]
    /\ hook = [e \in Events |-> "new"]
    /\ answer = [e \in Events |-> [v \in Viewers |-> "unasked"]]
    /\ now = 0 /\ crashes = 0

\* A viewer whose worker polls the socket.
Polls(v) == viewer[v] = "up"
Listens(v) == viewer[v] \in {"up", "refreshing", "draining"}

-----------------------------------------------------------------------------
(* The viewer *)

\* bind_registered_live_receiver: the socket is bound before the manifest is created,
\* which is created before it is written; the worker starts after that.
Register(v) ==
    /\ viewer[v] = "down"
    /\ viewer' = [viewer EXCEPT ![v] = "refreshing"]
    /\ manifest' = [manifest EXCEPT ![v] = Torn]
    /\ UNCHANGED <<backlog, viewerVars, hookVars, now, crashes>>

\* refresh_if_due: the file is truncated and written again in place.  A manifest that
\* a hook removed is not created again.
Refresh(v) ==
    /\ Polls(v) /\ manifest[v] # None /\ manifest[v] < now
    /\ viewer' = [viewer EXCEPT ![v] = "refreshing"]
    /\ manifest' = [manifest EXCEPT ![v] = Torn]
    /\ UNCHANGED <<backlog, viewerVars, hookVars, now, crashes>>

WriteManifest(v) ==
    /\ viewer[v] = "refreshing"
    /\ viewer' = [viewer EXCEPT ![v] = "up"]
    /\ manifest' = [manifest EXCEPT ![v] = now]
    /\ UNCHANGED <<backlog, viewerVars, hookVars, now, crashes>>

\* The runtime takes up its generation; an event it accepted before belongs to none.
Select(v) ==
    /\ Polls(v) /\ v \notin selected
    /\ selected' = selected \cup {v}
    /\ UNCHANGED <<manifest, viewer, backlog, taken, queue, reduced, hookVars, now, crashes>>

\* The answer reaches a hook that still waits; it may be late even so.
Reply(e, v, outcome) ==
    \/ answer[e][v] = "waiting" /\ answer' = [answer EXCEPT ![e][v] = outcome]
    \/ UNCHANGED answer

\* receive and poll_receiver: a connection is accepted, its event validated and
\* acknowledged, and only then handed to the terminal, when there is room for it.
Receive(v, e) ==
    /\ Polls(v) /\ e \in backlog[v]
    /\ backlog' = [backlog EXCEPT ![v] = @ \ {e}]
    /\ Reply(e, v, "accepted")
    /\ taken' = [taken EXCEPT ![v][e] = @ + 1]
    /\ IF v \in selected /\ Len(queue[v]) < QueueCap
         THEN queue' = [queue EXCEPT ![v] = Append(@, e)]
         ELSE UNCHANGED queue
    /\ UNCHANGED <<manifest, viewer, selected, reduced, hook, now, crashes>>

\* The frame is not there before the receiver's deadline, or is of another version.
Refuse(v, e) ==
    /\ Polls(v) /\ e \in backlog[v]
    /\ backlog' = [backlog EXCEPT ![v] = @ \ {e}]
    /\ Reply(e, v, "failed")
    /\ UNCHANGED <<manifest, viewer, viewerVars, hook, now, crashes>>

\* The terminal takes the envelope in and asks for its metadata to be kept.
Reduce(v) ==
    /\ viewer[v] \in {"up", "refreshing"} /\ queue[v] # <<>>
    /\ queue' = [queue EXCEPT ![v] = Tail(@)]
    /\ reduced' = [reduced EXCEPT ![v] = @ \cup {Head(queue[v])}]
    /\ UNCHANGED <<manifest, viewer, selected, backlog, taken, hookVars, now, crashes>>

\* The terminal is closed: the manifest goes, connections are no longer accepted, and
\* what the terminal has not read stays unread.
BeginDraining(v) ==
    /\ Polls(v)
    /\ viewer' = [viewer EXCEPT ![v] = "draining"]
    /\ manifest' = [manifest EXCEPT ![v] = None]
    /\ UNCHANGED <<backlog, viewerVars, hookVars, now, crashes>>

Stop(v) ==
    /\ viewer[v] = "draining"
    /\ viewer' = [viewer EXCEPT ![v] = "gone"]
    /\ backlog' = [backlog EXCEPT ![v] = {}]
    /\ UNCHANGED <<manifest, viewerVars, hookVars, now, crashes>>

\* The manifest and the file of the socket stay; nobody listens.
CrashViewer(v) ==
    /\ Listens(v) /\ crashes < MaxCrashes
    /\ crashes' = crashes + 1
    /\ viewer' = [viewer EXCEPT ![v] = "crashed"]
    /\ backlog' = [backlog EXCEPT ![v] = {}]
    /\ UNCHANGED <<manifest, viewerVars, hookVars, now>>

-----------------------------------------------------------------------------
(* The hook *)

Stale(v) == now - manifest[v] > Ttl
Readable(v) == manifest[v] # None /\ manifest[v] # Torn

\* discover_matching: stale manifests are removed; one that cannot be read is skipped.
Discover(e) ==
    LET found == {v \in Viewers : Readable(v) /\ ~Stale(v)} IN
    /\ hook[e] = "new"
    /\ manifest' = [v \in Viewers |->
          IF Readable(v) /\ Stale(v) THEN None ELSE manifest[v]]
    /\ hook' = [hook EXCEPT ![e] = IF found = {} THEN "fallback" ELSE "publishing"]
    /\ answer' = [answer EXCEPT ![e] =
          [v \in Viewers |-> IF v \in found THEN "found" ELSE "unasked"]]
    /\ UNCHANGED <<viewer, backlog, viewerVars, now, crashes>>

\* One thread per viewer connects and sends the frame.
Connect(e, v) ==
    /\ answer[e][v] = "found"
    /\ IF Listens(v)
         THEN /\ backlog' = [backlog EXCEPT ![v] = @ \cup {e}]
              /\ answer' = [answer EXCEPT ![e][v] = "waiting"]
         ELSE /\ answer' = [answer EXCEPT ![e][v] = "failed"]
              /\ UNCHANGED backlog
    /\ UNCHANGED <<manifest, viewer, viewerVars, hook, now, crashes>>

\* The deadline of the hook: what was sent stays with the viewer.
Expire(e, v) ==
    /\ answer[e][v] = "waiting"
    /\ answer' = [answer EXCEPT ![e][v] = "failed"]
    /\ UNCHANGED <<manifest, viewer, backlog, viewerVars, hook, now, crashes>>

\* Mutant: one viewer that accepts is enough.
AnyAccepted(e) == \E v \in Asked(e) : answer[e][v] = "accepted"

\* RegistryLivePublisher::publish: anything less than every viewer is Partial.
AllAccepted(e) == \A v \in Asked(e) : answer[e][v] = "accepted"

\* dispatch_with_budget: LiveAccepted, or the metadata store.
Decide(e) ==
    /\ hook[e] = "publishing"
    /\ \A v \in Asked(e) : answer[e][v] \notin {"found", "waiting"}
    /\ hook' = [hook EXCEPT ![e] = IF AllAccepted(e) THEN "live" ELSE "fallback"]
    /\ UNCHANGED <<manifest, viewer, backlog, viewerVars, answer, now, crashes>>

Tick ==
    /\ now < MaxTime
    /\ now' = now + 1
    /\ UNCHANGED <<manifest, viewer, backlog, viewerVars, hookVars, crashes>>

-----------------------------------------------------------------------------
ViewerStep(v) ==
    \/ Register(v) \/ Refresh(v) \/ WriteManifest(v) \/ Select(v)
    \/ Reduce(v) \/ BeginDraining(v) \/ Stop(v) \/ CrashViewer(v)
    \/ \E e \in Events : Receive(v, e) \/ Refuse(v, e)

HookStep(e) ==
    \/ Discover(e) \/ Decide(e)
    \/ \E v \in Viewers : Connect(e, v) \/ Expire(e, v)

Next == (\E v \in Viewers : ViewerStep(v)) \/ (\E e \in Events : HookStep(e)) \/ Tick

Spec == Init /\ [][Next]_vars

-----------------------------------------------------------------------------
(* What the design says and the code does not keep: see the README *)

\* Every healthy viewer that has taken up the workspace is offered every event.
HealthyViewersHear ==
    [][\A e \in Events, v \in Viewers :
         hook[e] = "new" /\ hook'[e] # "new" /\ v \in selected /\ viewer[v] \in {"up", "refreshing"}
           => v \in Asked(e)']_vars

\* An event that was left to the viewers is in the hands of one of them, or one of
\* them has died.
AcknowledgedIsKept ==
    \A e \in Events : hook[e] = "live" =>
        \E v \in Asked(e) :
            \/ viewer[v] = "crashed"
            \/ \E i \in 1..Len(queue[v]) : queue[v][i] = e
            \/ e \in reduced[v]
=============================================================================
