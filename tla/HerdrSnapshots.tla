---------------------------- MODULE HerdrSnapshots ----------------------------
(* The provider that watches a Herdr server: a thread runs `herdr agent list`,  *)
(* now and then `herdr --version`, and keeps the last list; the worker of the   *)
(* agent runtime probes the contract and reads the list.  The server tells no   *)
(* epoch: a restart is inferred from the version, or from a pane whose change   *)
(* counter fell, and is announced by a new revision of the contract after the   *)
(* list was dropped (agent/herdr_provider.rs, agent/runtime.rs).                *)
(*                                                                             *)
(* Outside: a server that restarts, calls that fail or answer in another shape, *)
(* a program that is missing.                                                   *)
EXTENDS HerdrContract

CONSTANTS
    Panes,
    Versions,
    None,
    Degraded,     \* HERDR_DEGRADED_FAILURES
    Fresh,        \* HERDR_CACHE_FRESHNESS, in ticks
    MaxRevision,  \* where the revision saturates
    MaxChanges,   \* bound: the change counter of a server
    MaxRestarts,  \* bound
    MaxFaults     \* bound: how many calls fail

\* What the constants have to be; the module that instantiates this one assumes it.
Shape == MaxRevision \in Nat \ {0} /\ Degraded \in Nat /\ Fresh \in Nat

VARIABLES
    server,     \* outside: its lives, version, change counter, and that of each pane
    faults,     \* outside
    poller,     \* the thread: where it is, and what its calls have returned
    pull        \* the pull of the runtime's worker under way
vars == <<server, faults, poller, state, registry, pull, delivered>>

Listed(seqs) == {p \in Panes : seqs[p] > 0}
NoPanes      == [p \in Panes |-> 0]

Resting == [pc |-> "wait", version |-> None, list |-> None]
NotPulling == [pc |-> "idle", revision |-> 0, polls |-> 0]

Init ==
    /\ \E v \in Versions : server = [life |-> 1, version |-> v, count |-> 0, panes |-> NoPanes]
    /\ faults = 0
    /\ poller = [Resting EXCEPT !.pc = "version"]
    /\ state = [health |-> "Available", epoch |-> 1, version |-> None, cache |-> {},
                failures |-> 0, shape |-> FALSE, seqs |-> NoPanes, baseline |-> FALSE]
    /\ registry = {} /\ pull = NotPulling /\ delivered = {}

------------------------------------------------------------------------------
\* The server

\* A pane opens, or what it shows changes.
PaneChanges(p) ==
    /\ server.count < MaxChanges
    /\ server' = [server EXCEPT !.count = @ + 1, !.panes[p] = server.count + 1]
    /\ UNCHANGED <<faults, poller, state, registry, pull, delivered>>

PaneCloses(p) ==
    /\ server.panes[p] > 0
    /\ server' = [server EXCEPT !.panes[p] = 0]
    /\ UNCHANGED <<faults, poller, state, registry, pull, delivered>>

ServerRestarts(v) ==
    /\ server.life <= MaxRestarts
    /\ server' = [life |-> server.life + 1, version |-> v, count |-> 0, panes |-> NoPanes]
    /\ UNCHANGED <<faults, poller, state, registry, pull, delivered>>

------------------------------------------------------------------------------
\* The thread

PollerOnly == UNCHANGED <<server, registry, pull, delivered>>

\* A call fails, as long as the bound allows it.
Fails == faults < MaxFaults /\ faults' = faults + 1

\* poll_once: a version that cannot be had is done without.
ReadVersion ==
    /\ poller.pc = "version"
    /\ \/ /\ poller' = [poller EXCEPT !.pc = "list", !.version = server.version]
          /\ UNCHANGED faults
       \/ Fails /\ poller' = [poller EXCEPT !.pc = "list"]
    /\ UNCHANGED state /\ PollerOnly

\* run_capture: the list, a failure, or an answer that is no list.
ReadList ==
    /\ poller.pc = "list"
    /\ \/ /\ poller' = [poller EXCEPT !.pc = "apply", !.list = server.panes]
          /\ UNCHANGED faults
       \/ \E how \in {"failed", "malformed"} :
            Fails /\ poller' = [poller EXCEPT !.pc = how]
    /\ UNCHANGED state /\ PollerOnly

\* The program is not there any more: the thread ends.
ProgramIsMissing ==
    /\ poller.pc \in {"version", "list"} /\ Fails
    /\ state' = [state EXCEPT !.health = "Unavailable", !.cache = {}]
    /\ poller' = [Resting EXCEPT !.pc = "ended"]
    /\ PollerOnly

\* The pull of the runtime sees at most the end of one poll: between two of them
\* the thread waits for HERDR_POLL_CADENCE, 500 times what the pull is allowed.
Applied == /\ poller' = Resting
           /\ pull' = IF pull.pc = "idle" THEN pull ELSE [pull EXCEPT !.polls = @ + 1]
           /\ UNCHANGED <<server, faults, registry, delivered>>

PollFailed ==
    /\ poller.pc = "failed"
    /\ state' = [state EXCEPT !.failures = IF @ < Degraded THEN @ + 1 ELSE @,
                     !.health = IF state.failures + 1 >= Degraded THEN "Degraded" ELSE @]
    /\ Applied

\* apply_successful_poll: what is no list demotes the instance and keeps the list.
ListIsMalformed ==
    /\ poller.pc = "malformed"
    /\ state' = [state EXCEPT !.failures = IF @ < Degraded THEN @ + 1 ELSE @,
                              !.shape = FALSE, !.health = "Degraded"]
    /\ Applied

SeqRegression == \E p \in Listed(poller.list) : poller.list[p] < state.seqs[p]

\* Mutant: a version that was not known before is no change.
ChangedFromKnown == poller.version # None /\ state.version # None
                    /\ poller.version # state.version

VersionChanged == poller.version # None /\ poller.version # state.version

Restarted == state.baseline /\ (SeqRegression \/ VersionChanged)

LatestVersion == IF poller.version # None THEN poller.version ELSE state.version

Healthy == [state EXCEPT !.version = LatestVersion, !.baseline = TRUE,
                         !.failures = 0, !.shape = TRUE, !.health = "Available"]

\* The list that is kept is the one of state.seqs: here it is its age.
JustTaken == {[age |-> 0]}

NextRevision == IF state.epoch < MaxRevision THEN state.epoch + 1 ELSE MaxRevision

\* Mutant: the counters of the server that is gone are kept.
ResetKeepingSeqs == [Healthy EXCEPT !.epoch = NextRevision, !.cache = {}]

\* A restart: a new revision, and no list until the next poll.
Reset == [Healthy EXCEPT !.epoch = NextRevision, !.cache = {}, !.seqs = NoPanes]

ListArrives ==
    /\ poller.pc = "apply"
    /\ state' = IF Restarted THEN Reset
                ELSE [Healthy EXCEPT !.seqs = poller.list, !.cache = JustTaken]
    /\ Applied

\* wait_timeout ends: another poll, with the version when its interval is over.
Wakes ==
    /\ poller.pc = "wait" /\ pull.polls = 0
    /\ \E pc \in {"version", "list"} : poller' = [Resting EXCEPT !.pc = pc]
    /\ UNCHANGED <<faults, state>> /\ PollerOnly

Ages ==
    /\ \E list \in state.cache :
        list.age <= Fresh /\ state' = [state EXCEPT !.cache = {[age |-> list.age + 1]}]
    /\ UNCHANGED <<faults, poller>> /\ PollerOnly

------------------------------------------------------------------------------
\* The worker of the runtime: refresh_providers

RuntimeOnly == UNCHANGED <<server, faults, poller, state>>

Probe ==
    /\ pull.pc = "idle" /\ ~ProbeFails
    /\ IF Accepts
       THEN /\ registry' = {Contract}
            /\ pull' = [pc |-> "probed", revision |-> state.epoch, polls |-> 0]
       ELSE UNCHANGED <<registry, pull>>
    /\ RuntimeOnly /\ UNCHANGED delivered

\* snapshot: not without a list, and not an old one.
ServesNothing == ProbeFails \/ \E list \in state.cache : list.age > Fresh

Snapshot ==
    /\ pull.pc = "probed" /\ pull' = NotPulling
    /\ delivered' = IF ServesNothing THEN delivered
                    ELSE {[revision |-> pull.revision, of |-> state.epoch]}
    /\ RuntimeOnly /\ UNCHANGED registry

Next ==
    \/ \E p \in Panes : PaneChanges(p) \/ PaneCloses(p)
    \/ \E v \in Versions : ServerRestarts(v)
    \/ ReadVersion \/ ReadList \/ ProgramIsMissing
    \/ PollFailed \/ ListIsMalformed \/ ListArrives \/ Wakes \/ Ages
    \/ Probe \/ Snapshot

Poll == ReadVersion \/ ReadList \/ PollFailed \/ ListIsMalformed \/ ListArrives \/ Wakes

\* The thread goes on polling, and the worker goes on pulling.
Spec == Init /\ [][Next]_vars /\ WF_vars(Poll) /\ WF_vars(Snapshot)

------------------------------------------------------------------------------
\* Properties

\* While the program is there, a fresh list is to be had again and again, however
\* often the server restarts and calls fail.
ListsKeepComing ==
    []<>(poller.pc = "ended" \/ (~ProbeFails /\ state.cache = JustTaken))

==============================================================================
