------------------------------ MODULE AgentRuntime ------------------------------
(* The agent runtime (src/agent/runtime.rs) between the sources of observations  *)
(* and the reducer: a worker thread that receives the events of hooks, keeps the *)
(* streams of providers, times leases and loads metadata, and the UI thread that *)
(* reduces what it posts.  The two share nothing but two bounded channels, which *)
(* never block, and the notice of what did not fit.                              *)
(*                                                                               *)
(* Providers follow the contract of ObservationProvider: a snapshot has the      *)
(* watermark of the last event it contains, a provider that starts again has a   *)
(* new revision and says Reset before anything else.  What they miss they report *)
(* as a gap, or not at all: then only a sequence number is missing.              *)
EXTENDS AgentState, SequencesExt

CONSTANTS
    Hooks,         \* sources that push events
    Providers,     \* sources that are polled and asked for snapshots
    Capabilities,  \* authorities that the contract of a provider may come to have
    Beginnings,    \* what a provider may know at first
    Capacity,      \* of the completion queue
    RequestCapacity,
    Backlog,       \* completions that may be waiting when a timer of the worker fires
    StoreWorks,    \* whether metadata can be loaded and stored
    Lease,         \* how long the activity that a hook reports is valid
    HookEpochs,    \* versions of a hook's adapter
    MaxTime,       \* bounds on the clock, ...
    MaxHookEvents, \* the events of hooks, ...
    MaxChanges,    \* the changes at the providers, ...
    MaxEpoch,      \* their revisions, ...
    MaxPresses,    \* the refreshes that the user asks for, ...
    MaxFaults      \* what they lose, fail to answer or answer late

\* What the constants have to be; a module that instantiates this one assumes it.
Shape == /\ NoneIsNothing
         /\ IsFiniteSet(Sessions)
         /\ Lease \in Nat /\ MaxTime \in Nat
         /\ Capabilities \subseteq Authorities \cup {None}
         /\ Beginnings \subseteq [Sessions -> Values \cup {None}]
         /\ Sources = Hooks \cup Providers /\ Hooks \cap Providers = {}
         /\ Capacity \in Nat \ {0} /\ RequestCapacity \in Nat \ {0}

VARIABLES
    faults,       \* faults so far
    inbox,        \* events of hooks at the receiver, in no order
    sent,         \* how many there were
    requests,     \* from the UI thread to the worker
    notice,       \* sessions of the completions that were dropped
    worker,       \* where the worker is, see WorkerState
    active,       \* providers whose events are polled
    reconcile,    \* provider_reconcile_pending
    registered,   \* the revision and the contract each provider is registered with
    expiries,     \* the time at which each lease expires
    stored,       \* sessions in the metadata store
    clock,
    presses       \* how often the user asked for a refresh

outside == <<provider, faults, inbox, sent, stored, clock, presses>>
channels == <<requests, completions, notice>>
workerVars == <<worker, active, reconcile, registered, expiries>>
vars == <<stateVars, outside, channels, workerVars>>

\* In a revision of a provider, which lasts from one start to the next, known[n] is what
\* it knew when its sequence was n, and since is how many changes there were before.
Revision ==
    [most : Capabilities, since : Nat, known : Seq([Sessions -> Values \cup {None}])]
ProviderState == [revisions : Seq(Revision), outbox : Seq(Event)]

Epoch(p)    == Len(provider[p].revisions)
Current(p)  == provider[p].revisions[Epoch(p)]
Sequence(p) == Len(Current(p).known)
Truth(p)    == Current(p).known[Sequence(p)]

\* The time of providers, the number of changes, when the sequence was n.
TimeOf(revision, n) == revision.since + n - 1
Changes(p) == TimeOf(Current(p), Sequence(p))

Fault == faults < MaxFaults /\ faults' = faults + 1

----------------------------------------------------------------------------------
(* Messages *)

Status        == [kind |-> "Status"]
Envelope(m)   == [kind |-> "Event", body |-> m]
Loaded        == [kind |-> "MetadataLoaded", sessions |-> stored]
Expired(keys) == [kind |-> "EvidenceExpired", keys |-> keys]
Contract(p, most) == [kind |-> "ContractUpdated", source |-> p, most |-> most]

\* Posting to a full queue has no effect.
Post(q, m) == IF Len(q) < Capacity THEN Append(q, m) ELSE q

Submit(q, m) == IF Len(q) < RequestCapacity THEN Append(q, m) ELSE q

Dropped(about) ==
    IF about = {} THEN [notice EXCEPT !.unattributed = TRUE]
                  ELSE [notice EXCEPT !.sessions = @ \cup about]

\* complete_envelope: an observation that does not fit is noted as dropped.
Fits == Len(completions) < Capacity

PostEnvelope(m, about) ==
    /\ completions' = Post(completions, m)
    /\ notice' = IF Fits THEN notice ELSE Dropped(about)

UpsertId(n) == [kind |-> "Upsert", seq |-> n]

\* The id of a control event depends on its stream and its kind only.
Control(p, op) ==
    [source |-> p, epoch |-> registered[p].epoch, id |-> [kind |-> op, seq |-> 0],
     seq |-> None, op |-> op, item |-> None]

Item(s, v, most, t, until) ==
    [session |-> s, value |-> v, authority |-> most, at |-> t, until |-> until]

----------------------------------------------------------------------------------
(* Hooks and providers *)

\* A hook reports an activity; the receiver takes it at any later time.  The epoch
\* tells the versions of its adapter apart, and the receiver registers each one.
\* The clock is bounded so that it reaches the end of each lease.
HookReports(h, s, v, epoch) ==
    /\ sent < MaxHookEvents /\ clock + Lease <= MaxTime
    /\ sent' = sent + 1
    /\ inbox' = inbox \cup {[source |-> h, epoch |-> epoch, id |-> UpsertId(sent'),
                             seq |-> None, op |-> "Upsert",
                             item |-> Item(s, v, "Authoritative", clock, clock + Lease)]}
    /\ UNCHANGED <<stateVars, provider, faults, stored, clock, presses, channels, workerVars>>

Tick ==
    /\ clock < MaxTime /\ clock' = clock + 1
    /\ UNCHANGED <<stateVars, provider, faults, inbox, sent, stored, presses, channels, workerVars>>

OutsideOnly ==
    UNCHANGED <<stateVars, inbox, sent, stored, clock, presses, channels, workerVars>>

\* The activity of a session changes, or ends; the provider has an event for it.
Learned(p, s, v, outbox) ==
    LET now == [Current(p) EXCEPT !.known = Append(@, [Truth(p) EXCEPT ![s] = v])]
    IN  [revisions |-> [provider[p].revisions EXCEPT ![Epoch(p)] = now], outbox |-> outbox]

ChangeEvent(p, s, v) ==
    [source |-> p, epoch |-> Epoch(p), id |-> UpsertId(Sequence(p) + 1),
     seq |-> Sequence(p) + 1, op |-> "Upsert",
     item |-> Item(s, v, Current(p).most, Changes(p) + 1, None)]

Report(p, op) ==
    [source |-> p, epoch |-> Epoch(p), id |-> UpsertId(0), seq |-> None, op |-> op,
     item |-> None]

\* The event is queued, lost and reported as a gap, or lost without notice.
ProviderChanges(p, s, v) ==
    /\ Changes(p) < MaxChanges /\ Truth(p)[s] # v /\ Current(p).most # None
    /\ LET outbox == provider[p].outbox IN
       \/ /\ provider' = [provider EXCEPT ![p] =
                 Learned(p, s, v, Append(outbox, ChangeEvent(p, s, v)))]
          /\ UNCHANGED faults
       \/ /\ Fault
          /\ \/ provider' = [provider EXCEPT ![p] =
                    Learned(p, s, v, Append(outbox, Report(p, "Gap")))]
             \/ provider' = [provider EXCEPT ![p] = Learned(p, s, v, outbox)]
    /\ OutsideOnly

\* A provider starts again, with a contract that may permit less or more.
ProviderRestarts(p, most) ==
    /\ Epoch(p) < MaxEpoch
    /\ provider' = [provider EXCEPT ![p] =
          [revisions |-> Append(provider[p].revisions,
                            [most |-> most, since |-> Changes(p), known |-> <<Truth(p)>>]),
           outbox |-> <<Report(p, "Reset")>>]]
    /\ UNCHANGED faults
    /\ OutsideOnly

----------------------------------------------------------------------------------
(* The worker's loop *)

\* WorkerState: pc is "loop", "refresh", "snapshot", "emit" or "gap".
Idle == [pc |-> "loop", at |-> None, todo |-> {}, chunks |-> <<>>, asked |-> FALSE]

AtLoop == worker.pc = "loop"

\* refresh_providers begins: no provider is active until its snapshot was sent.
StartRefresh(asked) ==
    /\ worker' = [Idle EXCEPT !.pc = "refresh", !.todo = Providers, !.asked = asked]
    /\ active' = {}
    /\ completions' = Post(completions, Status)
    /\ UNCHANGED <<reconcile, registered, expiries, notice>>

StaysAtLoop == UNCHANGED <<worker, active, reconcile, registered>>

\* Mutant: a timer that runs is not set again.
FirstTimer(old, until) == IF old = None THEN until ELSE old

\* Timers of one key: the latest counts.
Later(old, until) == IF old = None \/ old < until THEN until ELSE old

\* handle_request
HandleRequest ==
    /\ AtLoop /\ requests # <<>>
    /\ requests' = Tail(requests)
    /\ LET r == Head(requests) IN
       \/ r.kind = "RefreshProviders" /\ StartRefresh(TRUE) /\ UNCHANGED stored
       \/ /\ r.kind = "RefreshMetadata"
          /\ completions' = IF StoreWorks THEN Post(completions, Loaded) ELSE completions
          /\ StaysAtLoop /\ UNCHANGED <<expiries, notice, stored>>
       \/ /\ r.kind = "PersistMetadata"
          /\ stored' \in {stored, IF StoreWorks THEN stored \cup {r.session} ELSE stored}
          /\ completions' = Post(completions, Status)
          /\ StaysAtLoop /\ UNCHANGED <<expiries, notice>>
       \/ /\ r.kind = "ScheduleExpiry"
          /\ expiries' = [expiries EXCEPT ![r.key] = Later(@, r.until)]
          /\ StaysAtLoop /\ UNCHANGED <<completions, notice, stored>>
    /\ UNCHANGED <<stateVars, provider, faults, inbox, sent, clock, presses>>

WorkerOnly == UNCHANGED <<stateVars, inbox, sent, stored, clock, presses, requests>>

\* poll_receiver
PollReceiver ==
    /\ AtLoop
    /\ \E e \in inbox :
          /\ inbox' = inbox \ {e}
          /\ PostEnvelope(Envelope(e), {e.item.session})
    /\ UNCHANGED <<stateVars, provider, faults, sent, stored, clock, presses, requests, workerVars>>

\* poll_providers: an event that is late or does not fit becomes a gap, which is
\* sent by EmitGap, and like every interruption it ends the polling.
Interrupted(p) == active' = active \ {p} /\ reconcile' = TRUE

PollProvider(p) ==
    /\ AtLoop /\ p \in active /\ provider[p].outbox # <<>>
    /\ provider' = [provider EXCEPT ![p].outbox = Tail(@)]
    /\ LET e == Head(provider[p].outbox)
           labelled == [e EXCEPT !.epoch = registered[p].epoch] IN
       \/ /\ e.op = "Upsert" /\ Fits
          /\ PostEnvelope(Envelope(labelled), {e.item.session})
          /\ UNCHANGED <<worker, active, reconcile, faults>>
       \/ /\ e.op = "Upsert" /\ ~Fits
          /\ PostEnvelope(Envelope(labelled), {e.item.session})
          /\ worker' = [Idle EXCEPT !.pc = "gap", !.at = p]
          /\ Interrupted(p) /\ UNCHANGED faults
       \/ /\ e.op = "Upsert" /\ Fault
          /\ worker' = [Idle EXCEPT !.pc = "gap", !.at = p]
          /\ Interrupted(p) /\ UNCHANGED <<completions, notice>>
       \/ /\ e.op = "Gap"
          /\ worker' = [Idle EXCEPT !.pc = "gap", !.at = p]
          /\ Interrupted(p) /\ UNCHANGED <<completions, notice, faults>>
       \/ /\ e.op = "Reset"
          /\ PostEnvelope(Envelope(Control(p, "Reset")), {})
          /\ Interrupted(p) /\ UNCHANGED <<worker, faults>>
    /\ UNCHANGED <<registered, expiries>>
    /\ WorkerOnly

\* Closed and Failed: nothing is sent but a status.
PollFails(p) ==
    /\ AtLoop /\ p \in active /\ Fault
    /\ Interrupted(p)
    /\ completions' = Post(completions, Status)
    /\ UNCHANGED <<provider, worker, registered, expiries, notice>>
    /\ WorkerOnly

\* emit_gap: the control event, then the status.
EmitGap ==
    /\ worker.pc = "gap"
    /\ completions' = Post(Post(completions, Envelope(Control(worker.at, "Gap"))), Status)
    /\ notice' = IF Fits THEN notice ELSE Dropped({})
    /\ worker' = Idle
    /\ UNCHANGED <<provider, faults, active, reconcile, registered, expiries>>
    /\ WorkerOnly

----------------------------------------------------------------------------------
(* refresh_providers *)

Refreshed(p) == [Idle EXCEPT !.pc = "refresh", !.todo = worker.todo \ {p},
                             !.asked = worker.asked]

\* A provider that fails or answers late is given up, with a status.
GiveUp(p) ==
    /\ worker' = Refreshed(p)
    /\ completions' = Post(completions, Status)
    /\ UNCHANGED <<registered, notice>>

RefreshOnly ==
    /\ UNCHANGED <<provider, active, reconcile, expiries>>
    /\ WorkerOnly

\* The probe registers the contract; a new revision is announced to the UI, if
\* there is room.
Probe(p) ==
    /\ worker.pc = "refresh" /\ p \in worker.todo
    /\ \/ Fault /\ GiveUp(p)
       \/ /\ worker' = [worker EXCEPT !.pc = "snapshot", !.at = p]
          /\ registered' = [registered EXCEPT ![p] =
                              [epoch |-> Epoch(p), most |-> Current(p).most]]
          /\ completions' = IF registered[p] = None \/ registered[p].epoch = Epoch(p)
                            THEN completions
                            ELSE Post(completions, Contract(p, Current(p).most))
          /\ UNCHANGED <<faults, notice>>
    /\ RefreshOnly

\* The budget of the refresh is used up: the rest is not asked.
DeadlinePasses ==
    /\ worker.pc = "refresh" /\ worker.todo # {} /\ Fault
    /\ worker' = [worker EXCEPT !.todo = {}]
    /\ UNCHANGED <<registered, completions, notice>>
    /\ RefreshOnly

\* What a provider has to say when its sequence is n.
FactsAt(revision, n) ==
    IF revision.most = None THEN {}
    ELSE {Item(s, revision.known[n][s], revision.most, TimeOf(revision, n), None) :
             s \in {s \in Sessions : revision.known[n][s] # None}}
Facts(p) == FactsAt(Current(p), Sequence(p))

\* One to a chunk; without facts there is one chunk.
Parts(facts) ==
    IF facts = {} THEN <<{}>> ELSE [i \in 1..Cardinality(facts) |-> {SetToSeq(facts)[i]}]

Chunks(p, facts, complete) ==
    [i \in DOMAIN Parts(facts) |->
       [source |-> p, epoch |-> registered[p].epoch, index |-> i - 1,
        final |-> i = Len(Parts(facts)), watermark |-> Sequence(p), complete |-> complete,
        covers |-> Current(p).most # None, items |-> Parts(facts)[i]]]

\* The snapshot of an instance that has started again since the probe fails.
Snapshot ==
    /\ worker.pc = "snapshot"
    /\ LET p == worker.at IN
       \/ (Fault \/ (Epoch(p) # registered[p].epoch /\ UNCHANGED faults)) /\ GiveUp(p)
       \/ /\ Epoch(p) = registered[p].epoch
          /\ \/ /\ worker' = [worker EXCEPT !.pc = "emit",
                                            !.chunks = Chunks(p, Facts(p), TRUE)]
                /\ UNCHANGED faults
             \/ /\ Fault
                /\ \E f \in Facts(p) : worker' = [worker EXCEPT !.pc = "emit",
                                                   !.chunks = Chunks(p, Facts(p) \ {f}, FALSE)]
          /\ UNCHANGED <<registered, completions, notice>>
    /\ RefreshOnly

\* Mutant: a snapshot that did not fit is forgotten.
SentAnyway(whole, p) == active \cup {p}

\* Only a provider whose whole snapshot was sent is polled for events.
Sent(whole, p) == IF whole THEN active \cup {p} ELSE active

\* emit_provider_snapshot
EmitChunk ==
    /\ worker.pc = "emit"
    /\ LET p == worker.at
           c == Head(worker.chunks) IN
       /\ PostEnvelope([kind |-> "Snapshot", body |-> c], {o.session : o \in c.items})
       /\ \/ /\ Fits /\ ~c.final
             /\ worker' = [worker EXCEPT !.chunks = Tail(@)]
             /\ UNCHANGED active
          \/ /\ ~Fits \/ c.final
             /\ worker' = Refreshed(p)
             /\ active' = Sent(Fits, p)
    /\ UNCHANGED <<provider, faults, reconcile, registered, expiries>>
    /\ WorkerOnly

\* A refresh that the user asked for leaves a pending one pending.
FinishRefresh ==
    /\ worker.pc = "refresh" /\ worker.todo = {}
    /\ reconcile' = (active = {} \/ (worker.asked /\ reconcile))
    /\ worker' = Idle
    /\ completions' = Post(completions, Status)
    /\ UNCHANGED <<provider, faults, active, registered, expiries, notice>>
    /\ WorkerOnly

----------------------------------------------------------------------------------
(* Timers of the worker *)

\* They are slow compared with the UI thread: a Backlog of the capacity means
\* that nothing is assumed of their speed.
Due == AtLoop /\ Len(completions) <= Backlog

StartTimedRefresh ==
    /\ StartRefresh(FALSE)
    /\ UNCHANGED <<provider, faults>>
    /\ WorkerOnly

\* 50 ms after an interruption, and only once no provider is active.
Reconcile == Due /\ reconcile /\ active = {} /\ StartTimedRefresh

\* Every 30 s.
Reprobe == Due /\ Providers # {} /\ StartTimedRefresh

\* Every 2 s.
ReloadMetadata ==
    /\ Due /\ StoreWorks
    /\ completions' = Post(completions, Loaded)
    /\ UNCHANGED <<provider, faults, notice, workerVars>>
    /\ WorkerOnly

\* emit_due_expiries: the timers that have run out are gone, also when their
\* completion does not fit.
EmitDueExpiries ==
    LET due == {k \in ExpiryKey : expiries[k] # None /\ expiries[k] <= clock} IN
    /\ AtLoop /\ due # {}
    /\ expiries' = [k \in ExpiryKey |-> IF k \in due THEN None ELSE expiries[k]]
    /\ completions' = Post(completions, Expired(due))
    /\ UNCHANGED <<provider, faults, worker, active, reconcile, registered, notice>>
    /\ WorkerOnly

----------------------------------------------------------------------------------
(* The UI thread: poll_agent_background *)

\* Mutant: the lease is forgotten.
FollowUpUntimed(x, o, q) == Submit(q, [kind |-> "PersistMetadata", session |-> o.session])

\* reduce_agent_apply_result: what was observed is stored and its lease timed; a
\* full queue takes neither.
FollowUp(x, o, q) ==
    LET noted == Submit(q, [kind |-> "PersistMetadata", session |-> o.session])
    IN  IF o.until = None THEN noted
        ELSE Submit(noted, [kind |-> "ScheduleExpiry", until |-> o.until,
                            key |-> [session |-> o.session, source |-> x]])

\* An event and a chunk have one observation, or none.
Follow(x, items) ==
    IF items = {} THEN UNCHANGED requests
    ELSE \E o \in items : requests' = FollowUp(x, o, requests)

Taken(kind) ==
    /\ completions # <<>> /\ Head(completions).kind = kind
    /\ completions' = Tail(completions)
    /\ UNCHANGED <<outside, notice, workerVars>>

ReduceEvent ==
    /\ Taken("Event")
    /\ LET e     == Head(completions).body
           items == IF Accepted(e) /\ e.op = "Upsert" THEN {e.item} ELSE {} IN
       ApplyEvent(e) /\ Follow(e.source, items)

\* Of a snapshot only the observations of the last chunk are stored.
ReduceChunk ==
    /\ Taken("Snapshot")
    /\ LET c == Head(completions).body
           p == PendingBefore(c) IN
       /\ ApplyChunk(c)
       /\ IF ShapeMatches(p, c) /\ c.final
          THEN Follow(c.source, c.items)
          ELSE UNCHANGED requests

ReduceMetadata ==
    /\ Taken("MetadataLoaded")
    /\ BootstrapMetadata(Head(completions).sessions) /\ UNCHANGED requests

ReduceExpiry ==
    /\ Taken("EvidenceExpired")
    /\ ExpireEvidence(Head(completions).keys) /\ UNCHANGED requests

ReduceContract ==
    /\ Taken("ContractUpdated")
    /\ ApplyContractUpdate(Head(completions).source, Head(completions).most)
    /\ UNCHANGED requests

ReduceStatus == Taken("Status") /\ UNCHANGED <<stateVars, requests>>

Reduce == \/ ReduceEvent \/ ReduceChunk \/ ReduceMetadata \/ ReduceExpiry
          \/ ReduceContract \/ ReduceStatus

Nothing == [sessions |-> {}, unattributed |-> FALSE]

\* try_next: the notice comes after everything in the queue.
TakeNotice ==
    /\ completions = <<>> /\ notice # Nothing
    /\ RecordLiveDrop(notice.sessions, notice.unattributed)
    /\ notice' = Nothing
    /\ UNCHANGED <<outside, requests, completions, workerVars>>

\* request_agent_refresh
UserRefreshes ==
    /\ presses < MaxPresses /\ presses' = presses + 1
    /\ requests' = Submit(Submit(requests, [kind |-> "RefreshMetadata"]),
                          [kind |-> "RefreshProviders"])
    /\ UNCHANGED <<stateVars, provider, faults, inbox, sent, stored, clock, completions, notice,
                   workerVars>>

----------------------------------------------------------------------------------
(* The agents pane was attached: the workspace has been selected. *)

Init ==
    /\ StateInit
    /\ provider \in [Providers ->
          {[revisions |-> <<[most |-> m, since |-> 0, known |-> <<t>>]>>, outbox |-> <<>>] :
              t \in Beginnings, m \in Capabilities \ {None}}]
    /\ faults = 0 /\ sent = 0 /\ presses = 0 /\ clock = 0
    /\ inbox = {}
    /\ stored \in IF StoreWorks THEN SUBSET Sessions ELSE {{}}
    /\ requests = <<[kind |-> "RefreshProviders"]>>
    /\ completions = IF StoreWorks THEN <<Loaded>> ELSE <<>>
    /\ notice = Nothing
    /\ worker = Idle
    /\ active = {} /\ reconcile = FALSE
    /\ registered = [p \in Providers |-> None]
    /\ expiries = [k \in ExpiryKey |-> None]

HooksAct ==
    \E h \in Hooks, s \in Sessions, v \in Values, epoch \in 1..HookEpochs :
        HookReports(h, s, v, epoch)

ProvidersAct ==
    \E p \in Providers :
       \/ \E s \in Sessions, v \in Values \cup {None} : ProviderChanges(p, s, v)
       \/ \E most \in Capabilities : ProviderRestarts(p, most)

Poll == \E p \in Providers : PollProvider(p) \/ PollFails(p)
Ask  == \E p \in Providers : Probe(p)

Next ==
    \/ HooksAct \/ ProvidersAct \/ Tick
    \/ HandleRequest \/ PollReceiver \/ Poll \/ EmitGap
    \/ Ask \/ DeadlinePasses \/ Snapshot \/ EmitChunk \/ FinishRefresh
    \/ Reconcile \/ Reprobe \/ ReloadMetadata \/ EmitDueExpiries
    \/ Reduce \/ TakeNotice \/ UserRefreshes

Spec == Init /\ [][Next]_vars

\* Both threads run, and time passes.  The UI thread takes what there is, the worker
\* goes on with the refresh it is in, and every turn of its loop tries all of its
\* steps, so that none is passed over for ever.
UiTurns   == Reduce \/ TakeNotice
GoesOn    == EmitGap \/ Ask \/ Snapshot \/ EmitChunk \/ FinishRefresh

Fairness ==
    /\ WF_vars(UiTurns) /\ WF_vars(GoesOn) /\ WF_vars(Tick)
    /\ SF_vars(HandleRequest) /\ SF_vars(PollReceiver) /\ SF_vars(Poll) /\ SF_vars(EmitDueExpiries)
    /\ SF_vars(Reconcile) /\ SF_vars(Reprobe)

----------------------------------------------------------------------------------
(* Properties *)

Message ==
         [kind : {"Status"}]
    \cup [kind : {"Event"}, body : Event]
    \cup [kind : {"Snapshot"}, body : Chunk]
    \cup [kind : {"MetadataLoaded"}, sessions : SUBSET Sessions]
    \cup [kind : {"EvidenceExpired"}, keys : SUBSET ExpiryKey]
    \cup [kind : {"ContractUpdated"}, source : Providers, most : Capabilities]

RequestMessage ==
         [kind : {"RefreshProviders", "RefreshMetadata"}]
    \cup [kind : {"PersistMetadata"}, session : Sessions]
    \cup [kind : {"ScheduleExpiry"}, key : ExpiryKey, until : Nat]

TypeOK ==
    /\ StateTypeOK
    /\ provider \in [Providers -> ProviderState]
    /\ inbox \in SUBSET Event /\ stored \in SUBSET Sessions
    /\ requests \in Seq(RequestMessage) /\ Len(requests) <= RequestCapacity
    /\ completions \in Seq(Message) /\ Len(completions) <= Capacity
    /\ notice \in [sessions : SUBSET Sessions, unattributed : BOOLEAN]
    /\ worker \in [pc : {"loop", "refresh", "snapshot", "emit", "gap"},
                   at : Providers \cup {None}, todo : SUBSET Providers,
                   chunks : Seq(Chunk), asked : BOOLEAN]
    /\ active \in SUBSET Providers /\ reconcile \in BOOLEAN
    /\ registered \in [Providers -> [epoch : Nat, most : Capabilities] \cup {None}]
    /\ expiries \in [ExpiryKey -> Nat \cup {None}]

\* What the UI shows of a provider agrees with it, as far as the contract permits.
Agrees(p) ==
    /\ streams[p] # None /\ streams[p].complete /\ ~streams[p].reconciling
    /\ \A s \in Sessions :
          (IF sessions[s] = None \/ sessions[s].evidence[p] = None THEN None
           ELSE sessions[s].evidence[p].value)
          = IF Permits(registered[p].most, "Observational") THEN Truth(p)[s] ELSE None

Leased(s, x) ==
    /\ sessions[s] # None /\ sessions[s].evidence[x] # None
    /\ sessions[s].evidence[x].until # None

\* While neither queue is full, evidence with a lease is on its way to a timer, has
\* one that runs at least as long as the lease, or is about to be removed.
LeaseIsTimed ==
    \A k \in ExpiryKey : Leased(k.session, k.source) =>
        LET until == sessions[k.session].evidence[k.source].until IN
        \/ expiries[k] # None /\ expiries[k] >= until
        \/ \E i \in DOMAIN requests : /\ requests[i].kind = "ScheduleExpiry"
                                      /\ requests[i].key = k /\ requests[i].until >= until
        \/ \E i \in DOMAIN completions : /\ completions[i].kind = "EvidenceExpired"
                                         /\ k \in completions[i].keys

Overdue(k) == Leased(k.session, k.source)
              /\ sessions[k.session].evidence[k.source].until <= clock

\* Once everything was reduced, no evidence of a provider exceeds its contract.
EvidenceIsPermitted ==
    \A p \in active, s \in Sessions :
        AtLoop /\ completions = <<>> /\ sessions[s] # None /\ sessions[s].evidence[p] # None
        => Permits(registered[p].most, sessions[s].evidence[p].authority)

----------------------------------------------------------------------------------
(* What documents and comments say and the code does not keep: see the README.    *)

\* Removing expired evidence spares evidence whose lease still runs.
ExpiryTakesOnlyExpired ==
    [][\A k \in ExpiryKey :
          /\ completions # <<>> /\ Head(completions).kind = "EvidenceExpired"
          /\ completions' = Tail(completions)
          /\ Leased(k.session, k.source) /\ ~Leased(k.session, k.source)'
          => Overdue(k)]_vars

\* A gap that the UI is told of makes the stream reconcile, until a new snapshot.
GapReconciles ==
    [][completions # <<>> /\ Head(completions).kind = "Event"
       /\ Head(completions).body.op \in {"Gap", "Reset"} /\ completions' = Tail(completions)
       => streams'[Head(completions).body.source].reconciling]_vars

\* A session that was observed live in this run stays so.
KeepsLive ==
    \A s \in Sessions :
        sessions[s] # None /\ sessions[s].mode = "LiveObserved"
        => sessions'[s] # None /\ sessions'[s].mode = "LiveObserved"
==================================================================================
