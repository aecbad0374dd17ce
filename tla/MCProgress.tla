------------------------------ MODULE MCProgress ------------------------------
(* Instances whose other side is another process or thread that may fail, and   *)
(* that have to go on all the same, each explored by itself: the control        *)
(* channel of a viewer, the pulls from Herdr, and the navigation of the tabs.   *)
EXTENDS InstanceControl, HerdrContract

CONSTANTS c1, c2, v1, v2, p1, main, notes, outside

VARIABLES part,
    herdr, faults, poller, pull,            \* HerdrSnapshots
    ui, job, done, doneRefresh, steps       \* ContentTabs

TwoClients  == {c1, c2}
OneRoot     == <<2>>
NotBelow    == <<FALSE>>

\* A pane and two versions of the server
Herdr == INSTANCE HerdrSnapshots WITH
    server <- herdr, Panes <- {p1}, Versions <- {v1, v2}, Degraded <- 1, Fresh <- 1,
    MaxRevision <- 4, MaxChanges <- 2, MaxRestarts <- 1, MaxFaults <- 1

ASSUME Herdr!Shape

\* Two files in the workspace, one in a language without navigation, and one outside
Tabs == INSTANCE ContentTabs WITH
    Files <- {main, notes}, Outside <- outside, Navigable <- {main, outside},
    DefaultRow <- "dir", MaxTabs <- 2, MaxSteps <- 4,
    Features <- {"navigate", "refresh", "tabs"}

pulls   == <<herdr, faults, poller, state, registry, pull, delivered>>
content == <<ui, job, done, doneRefresh, steps>>

Alone ==
    /\ part \in {"commands", "herdr", "tabs"}
    /\ Init /\ (part # "commands" => tabs[1] = << <<>> >>)
    /\ Herdr!Init /\ (part # "herdr" => herdr.version = v1)
    /\ Tabs!Init

Steps ==
    /\ UNCHANGED part
    /\ \/ part = "commands" /\ Next /\ UNCHANGED <<pulls, content>>
       \/ part = "herdr" /\ Herdr!Next /\ UNCHANGED <<vars, content>>
       \/ part = "tabs" /\ Tabs!Next /\ UNCHANGED <<vars, pulls>>

\* The fairness of each module, for the parts that are asked for progress
ThreadsRun ==
    /\ \A i \in Instances : /\ WF_vars(part = "commands" /\ Accept(i))
                            /\ WF_vars(part = "commands" /\ Respond(i))
                            /\ WF_vars(part = "commands" /\ GiveUp(i))
                            /\ WF_vars(part = "commands" /\ Release(i))
    /\ \A c \in Clients :
        WF_vars(part = "commands" /\ (Probe(c) \/ Probed(c) \/ Send(c) \/ Ends(c)))
    /\ WF_pulls(part = "herdr" /\ Herdr!Poll) /\ WF_pulls(part = "herdr" /\ Herdr!Snapshot)
    /\ []<>(done = <<>> /\ doneRefresh = None)
    /\ WF_content(part = "tabs" /\ Tabs!WorkerStarts)
    /\ WF_content(part = "tabs" /\ \E ok \in BOOLEAN : Tabs!WorkerFinishes(ok))

ProgressSpec == Alone /\ [][Steps]_<<part, vars, pulls, content>> /\ ThreadsRun

-------------------------------------------------------------------------------
\* Every command ends, although the main loop of the viewer may be stuck. (InstanceControl)
EveryCommandEnds ==
    \A c \in Clients :
        (part = "commands" /\ client[c].stage # "idle") ~> (part # "commands" \/ client[c].stage = "idle")

\* While Herdr is installed, a fresh list is to be had again and again. (HerdrSnapshots)
ListsKeepComing ==
    []<>(part # "herdr" \/ poller.pc = "ended" \/ (~ProbeFails /\ state.cache = Herdr!JustTaken))

\* A "Loading" text goes away, unless a refresh has withdrawn its load and failed or
\* found another tab active. (ContentTabs)
LoadingEnds ==
    \A t \in Tabs!TabIds :
        Tabs!ShowsLoading(t) ~> (~Tabs!ShowsLoading(t) \/ Tabs!Withdrawn(t))
===============================================================================
