-------------------------------- MODULE MCAgents --------------------------------
(* Instances of AgentRuntime for TLC, of the record of one session that several   *)
(* observers fill, and of an agent whose hooks a viewer hears, each explored by   *)
(* itself: one variable says which, and the configuration which there are.        *)
EXTENDS AgentView, TLC

CONSTANTS h1, p1, s1, s2, a1, u1, u2, q1, q2, q3,
    Explored       \* of {"chunks", "restarts", "contracts", "converges", "leases", "reloads",
                   \*     "record", "panes", "session"}

VARIABLES part, pending, faults, inbox, sent, requests, notice,
    worker, active, reconcile, registered, expiries, stored, clock, presses,
    record, presences, contract, said,                                     \* SessionEvidence
    vendor, actor, hooks, viewed, ids, taken, refused, late, lost, failures, now  \* HookSessions

vars == <<sessions, streams, pending, provider, faults, inbox, sent, requests, completions,
          notice, worker, active, reconcile, registered, expiries, stored, clock, presses>>

\* Two sessions whose snapshots come in chunks, and queues of three entries and one
Chunks == INSTANCE AgentRuntime WITH
    Hooks <- {}, Providers <- {p1}, Sources <- {p1}, Sessions <- {s1, s2}, Values <- {a1},
    Capabilities <- {"Observational"}, Beginnings <- {[s \in {s1, s2} |-> IF s = s1 THEN a1 ELSE None]},
    Capacity <- 3, RequestCapacity <- 1, Backlog <- 0, StoreWorks <- FALSE, Lease <- 1,
    HookEpochs <- 1, MaxTime <- 0, MaxHookEvents <- 0, MaxChanges <- 2, MaxEpoch <- 1,
    MaxPresses <- 0, MaxFaults <- 1

\* A provider that starts again
Restarts == INSTANCE AgentRuntime WITH
    Hooks <- {}, Providers <- {p1}, Sources <- {p1}, Sessions <- {s1}, Values <- {a1},
    Capabilities <- {"Observational"}, Beginnings <- {[s \in {s1} |-> None]},
    Capacity <- 2, RequestCapacity <- 1, Backlog <- 0, StoreWorks <- FALSE, Lease <- 1,
    HookEpochs <- 1, MaxTime <- 0, MaxHookEvents <- 0, MaxChanges <- 2, MaxEpoch <- 2,
    MaxPresses <- 0, MaxFaults <- 0

\* A provider whose contract changes, a user who asks for refreshes, queues that lose nothing
Contracts == INSTANCE AgentRuntime WITH
    Hooks <- {}, Providers <- {p1}, Sources <- {p1}, Sessions <- {s1}, Values <- {a1},
    Capabilities <- {"Observational", None}, Beginnings <- {[s \in {s1} |-> None]},
    Capacity <- 12, RequestCapacity <- 1, Backlog <- 0, StoreWorks <- FALSE, Lease <- 1,
    HookEpochs <- 1, MaxTime <- 0, MaxHookEvents <- 0, MaxChanges <- 2, MaxEpoch <- 2,
    MaxPresses <- 1, MaxFaults <- 0

\* A provider that the view has to agree with in the end
Converges == INSTANCE AgentRuntime WITH
    Hooks <- {}, Providers <- {p1}, Sources <- {p1}, Sessions <- {s1}, Values <- {a1},
    Capabilities <- {"Observational"}, Beginnings <- {[s \in {s1} |-> a1]},
    Capacity <- 5, RequestCapacity <- 1, Backlog <- 0, StoreWorks <- FALSE, Lease <- 1,
    HookEpochs <- 1, MaxTime <- 0, MaxHookEvents <- 0, MaxChanges <- 1, MaxEpoch <- 1,
    MaxPresses <- 0, MaxFaults <- 2

\* A hook of two versions, leases and stored metadata
Leases == INSTANCE AgentRuntime WITH
    Hooks <- {h1}, Providers <- {}, Sources <- {h1}, Sessions <- {s1}, Values <- {a1},
    Capabilities <- {"Observational"}, Beginnings <- {[s \in {s1} |-> None]},
    Capacity <- 12, RequestCapacity <- 8, Backlog <- 1, StoreWorks <- TRUE, Lease <- 1,
    HookEpochs <- 2, MaxTime <- 2, MaxHookEvents <- 2, MaxChanges <- 0, MaxEpoch <- 2,
    MaxPresses <- 0, MaxFaults <- 0

\* A hook, queues of three entries and stored metadata
Reloads == INSTANCE AgentRuntime WITH
    Hooks <- {h1}, Providers <- {}, Sources <- {h1}, Sessions <- {s1}, Values <- {a1},
    Capabilities <- {"Observational"}, Beginnings <- {[s \in {s1} |-> None]},
    Capacity <- 3, RequestCapacity <- 3, Backlog <- 0, StoreWorks <- TRUE, Lease <- 1,
    HookEpochs <- 1, MaxTime <- 1, MaxHookEvents <- 1, MaxChanges <- 0, MaxEpoch <- 2,
    MaxPresses <- 0, MaxFaults <- 0

\* Two observers of one session, with room for one agent and one turn
Note(d, op, value, authority, at) ==
    [domain |-> d, op |-> op, value |-> value, authority |-> authority, at |-> at, until |-> None]
SessionNotes ==
    {Note("agent", "observed", u1, "Authoritative", 0), Note("agent", "observed", u1, "Observational", 0),
     Note("agent", "observed", u2, "Authoritative", 0), Note("agent", "released", u1, "Authoritative", 0),
     Note("turn", "started", a1, "Authoritative", 0),
     Note("turn", "completed", a1, "Authoritative", 0),
     Note("activity", "set", "working", "Authoritative", 1),
     Note("activity", "set", "idle", "Observational", 0),
     Note("activity", "clear", None, "Authoritative", 1)}
Strong(domains) == [d \in domains |-> "Authoritative"]
Weak(domains) == [d \in domains |-> IF d \in {"agent", "activity"} THEN "Observational" ELSE None]
AllDomains == {"lifecycle", "activity", "agent", "turn", "presence"}
SessionRecords == INSTANCE SessionEvidence WITH
    Sources <- {h1, p1}, MaxObservers <- 2, MaxAgents <- 1, MaxTurns <- 1,
    Agents <- {u1, u2}, Turns <- {a1}, Panes <- {}, WhereIs <- <<>>, Notes <- SessionNotes,
    Offers <- {Strong(AllDomains), Weak(AllDomains)},
    Scopes <- {AllDomains, {"agent", "turn"}, {"activity"}}
\* Two observers of three panes, of this workspace, of another and of none yet
SeenPanes == INSTANCE SessionEvidence WITH
    Sources <- {h1, p1}, MaxObservers <- 1, MaxAgents <- 1, MaxTurns <- 1,
    Agents <- {}, Turns <- {}, Panes <- {q1, q2, q3},
    WhereIs <- q1 :> "Here" @@ q2 :> "Elsewhere" @@ q3 :> "Nowhere",
    Notes <- {Note("activity", "set", "idle", "Observational", 0)},
    Offers <- {Strong(AllDomains), Weak(AllDomains)}, Scopes <- {AllDomains, {"activity"}}

\* A session of every vendor, of up to six events, two of whose hooks run at a time
HookedSession == INSTANCE HookSessions WITH
    agent <- actor, record <- viewed, seen <- ids, faults <- failures,
    Lease <- 9, MaxEvents <- 6, MaxResumes <- 1, Window <- 2, MaxFaults <- 1

evidence == <<record, presences, contract, said>>
heard == <<vendor, actor, hooks, viewed, ids, taken, refused, late, lost, failures, now>>

ASSUME /\ Chunks!Shape /\ Restarts!Shape /\ Contracts!Shape
       /\ Converges!Shape /\ Leases!Shape /\ Reloads!Shape
       /\ HookedSession!HookShape

Alone ==
    /\ part \in Explored
    /\ \/ part = "chunks" /\ Chunks!Init
       \/ part = "restarts" /\ Restarts!Init
       \/ part = "contracts" /\ Contracts!Init
       \/ part = "converges" /\ Converges!Init
       \/ part = "leases" /\ Leases!Init
       \/ part \in {"reloads", "record", "panes", "session"} /\ Reloads!Init
    /\ IF part = "panes" THEN SeenPanes!Init ELSE SessionRecords!Init
    /\ part \notin {"record", "panes"} => contract = [x \in {h1, p1} |-> Strong(AllDomains)]
    /\ HookedSession!Init /\ (part # "session" => vendor = "claude")

Steps ==
    /\ UNCHANGED part
    /\ \/ part = "chunks" /\ Chunks!Next /\ UNCHANGED <<evidence, heard>>
       \/ part = "restarts" /\ Restarts!Next /\ UNCHANGED <<evidence, heard>>
       \/ part = "contracts" /\ Contracts!Next /\ UNCHANGED <<evidence, heard>>
       \/ part = "converges" /\ Converges!Next /\ UNCHANGED <<evidence, heard>>
       \/ part = "leases" /\ Leases!Next /\ UNCHANGED <<evidence, heard>>
       \/ part = "reloads" /\ Reloads!Next /\ UNCHANGED <<evidence, heard>>
       \/ part = "record" /\ SessionRecords!Next /\ UNCHANGED <<vars, heard>>
       \/ part = "panes" /\ SeenPanes!Next /\ UNCHANGED <<vars, heard>>
       \/ part = "session" /\ HookedSession!Next /\ UNCHANGED <<vars, evidence>>

AgentsSpec == Alone /\ [][Steps]_<<part, vars, evidence, heard>>

\* The fairness of AgentRuntime, for the instances that are asked for progress: without
\* providers nothing is asked or polled, without hooks nothing is received or expires.
ThreadsRun ==
    /\ WF_vars((part = "leases" /\ Leases!UiTurns) \/ (part = "converges" /\ Converges!UiTurns))
    /\ WF_vars((part = "leases" /\ Leases!GoesOn) \/ (part = "converges" /\ Converges!GoesOn))
    /\ SF_vars((part = "leases" /\ Leases!HandleRequest) \/ (part = "converges" /\ Converges!HandleRequest))
    /\ SF_vars((part = "leases" /\ Leases!Reconcile) \/ (part = "converges" /\ Converges!Reconcile))
    /\ WF_vars(part = "leases" /\ Leases!Tick)
    /\ SF_vars(part = "leases" /\ Leases!PollReceiver)
    /\ SF_vars(part = "leases" /\ Leases!EmitDueExpiries)
    /\ SF_vars(part = "converges" /\ Converges!Poll)
    /\ SF_vars(part = "converges" /\ Converges!Reprobe)

AgentsLiveSpec == AgentsSpec /\ ThreadsRun

---------------------------------------------------------------------------------
\* Once everything was reduced, no evidence exceeds the contract of its provider
\* (AgentRuntime), in any domain; and what an observer said and did not take back is
\* missing only from a session that is shown as incomplete, whatever the other observers
\* do (SessionEvidence).
EvidenceIsSound ==
    /\ part = "contracts" => Contracts!TypeOK /\ Contracts!EvidenceIsPermitted
    /\ part = "record" => /\ SessionRecords!WhatWasSaid /\ SessionRecords!WithinLimits
                          /\ SessionRecords!ShownIsPermitted
    /\ part = "panes" => /\ SeenPanes!WhatWasSaid /\ SeenPanes!WithinLimits
                         /\ SeenPanes!ShownIsPermitted

\* What the hooks of an agent say fits the contracts of their adapters, and no event of a
\* session is taken for one that was there before, but for the repeats that carry nothing
\* to tell them apart.  When they have arrived, in whatever order, the viewer shows that an
\* agent waits for its user and whether its session is open; in their order, its turn and
\* its subagents too; and one that is lost misleads for the time of a lease. (HookSessions)
SessionsAreFollowed ==
    part = "session" => /\ HookedSession!FactsAreAdmitted /\ HookedSession!OnlyRepeatsAreRefused
                        /\ HookedSession!RestIsShown /\ HookedSession!WorkIsShown
                        /\ HookedSession!WrongForALeaseOnly

\* What providers, observers and hooks say is what the viewer holds. (AgentRuntime,
\* SessionEvidence, HookSessions)
SaidIsHeld == EvidenceIsSound /\ SessionsAreFollowed

\* The queues keep their bounds, and while neither is full, evidence with a lease has a
\* timer on its way. (AgentRuntime)
LeasesAreTimed ==
    /\ part = "leases" => Leases!TypeOK /\ Leases!LeaseIsTimed
    /\ part = "converges" => Converges!TypeOK

\* The view agrees with the provider in the end, whatever was lost before. (AgentRuntime)
ViewConvergesInTheEnd ==
    <>[](IF part = "converges" THEN Converges!Agrees(p1) ELSE TRUE)

LeaseIsOver ==
    IF part = "leases" THEN Leases!Overdue([session |-> s1, source |-> h1]) ELSE FALSE

\* Evidence whose lease has run out is removed, without any further event. (AgentRuntime)
LeasesRunOut == LeaseIsOver ~> ~LeaseIsOver

\* The view comes to rest at what is true: both of these. (AgentRuntime)
ViewSettles == ViewConvergesInTheEnd /\ LeasesRunOut

\* A session that was observed live in this run stays so. (AgentRuntime)
LiveStaysLive == [][part = "reloads" => Reloads!KeepsLive]_<<part, vars>>
=================================================================================
