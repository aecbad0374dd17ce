------------------------------ MODULE MCWorkspace ------------------------------
(* Instances of the parts of the viewer whose questions are about safety, each    *)
(* explored by itself: the tree of files in one tab and in two, text search,      *)
(* sending to an agent, the control channel of one viewer and of two, the setup   *)
(* of hooks, and the review scope: the repositories of every small workspace, the *)
(* same within limits, and what the user does with two repositories.              *)
EXTENDS SetupOutcome, SendOutcome, ControlOutcome, TLC

CONSTANTS c1, c2, x1, t1, t2, p1, p2

VARIABLES part,
    fs, changes, tree, views, shown, reveal, refresh, loader,               \* FilesTree
    popup, commands, events, latest, epoch, ready, searcher, disk,          \* SearchPopup
    active, selection, requests, panes, status,                             \* SendAgent
    phase, socket, inbox, batch, tabs, front,                               \* InstanceControl
    faults, runs,                                                           \* HookSetup
    world, review, look, graph, deeds                                       \* RepositoryGraph

\* a/ with b/, which has a file, and a file
OneView == INSTANCE FilesTree WITH
    disk <- fs, tabs <- views, active <- shown, worker <- loader,
    Nodes <- {"a", "b", "bf", "f"}, Top <- "top", Dirs <- {"a", "b"}, Links <- {},
    Parent <- [a |-> "top", b |-> "a", bf |-> "b", f |-> "top"],
    Statuses <- {"bf"}, Sources <- {"f"},
    ScanOrder <- <<"a", "f", "b", "bf">>, DisplayOrder <- <<"a", "b", "bf", "f">>,
    Tabs <- {1}, ScanDepth <- 1, ScanLimit <- 2, MaxRefreshes <- 2, MaxChanges <- 1

\* a/ with a file, and a file, seen by two tabs
TwoViews == INSTANCE FilesTree WITH
    disk <- fs, tabs <- views, active <- shown, worker <- loader,
    Nodes <- {"a", "bf", "f"}, Top <- "top", Dirs <- {"a"}, Links <- {},
    Parent <- [a |-> "top", bf |-> "a", f |-> "top"],
    Statuses <- {"bf"}, Sources <- {"f"},
    ScanOrder <- <<"a", "f", "bf">>, DisplayOrder <- <<"a", "bf", "f">>,
    Tabs <- {1, 2}, ScanDepth <- 1, ScanLimit <- 2, MaxRefreshes <- 2, MaxChanges <- 0

ASSUME OneView!TreeShape /\ TwoViews!TreeShape

\* Two files: the first query finds both, the second is no regular expression
Search == INSTANCE SearchPopup WITH
    ui <- popup, worker <- searcher,
    Queries <- {1, 2}, Bad <- {2}, Files <- 2, Hits <- <<{1, 2}, {}>>, BatchSize <- 1,
    MaxResults <- 2, Threads <- 2, MaxEdits <- 3, MaxChanges <- 1, MaxRefreshes <- 1,
    MaxOpens <- 1

Sending == INSTANCE SendAgent WITH
    Panes <- {p1, p2}, Tabs <- {t1, t2}, Texts <- {x1}, MaxOpenings <- 2

Control == INSTANCE InstanceControl WITH
    Instances <- {1}, Clients <- {c1, c2}, Depth <- <<2>>, Inside <- <<FALSE>>,
    Directory <- FALSE, MaxTabs <- 2, MaxAttempts <- 1
\* Two viewers whose roots are equally deep, and a command
ControlTwo == INSTANCE InstanceControl WITH
    Instances <- {1, 2}, Clients <- {c1}, Depth <- <<2, 2>>, Inside <- <<TRUE, TRUE>>,
    Directory <- FALSE, MaxTabs <- 2, MaxAttempts <- 1

\* Three viewers that were found, of any depth, and below any of which the path may lie
Choosing(depth, inside) == INSTANCE InstanceControl WITH
    Instances <- 1..3, Clients <- {c1}, Depth <- depth, Inside <- inside,
    Directory <- FALSE, MaxTabs <- 2, MaxAttempts <- 1

ASSUME \A depth \in [1..3 -> 1..3], inside \in [1..3 -> BOOLEAN], found \in SUBSET (1..3) :
           Choosing(depth, inside)!ClosestRootIsChosen(found)

Setup == INSTANCE HookSetup WITH
    Agents <- <<"codex", "opencode">>, Plugins <- {2}, Binaries <- {1, 2}, Keep <- 2,
    MaxRuns <- 3, MaxEdits <- 1, MaxFaults <- 1

ASSUME Setup!Shape

\* A workspace in a directory, which holds a directory with one of its own and a link to
\* the directory beside the workspace, and a link back to itself.
home    == <<1>>
top     == <<1, 1>>
inner   == <<1, 1, 1>>
inmost  == <<1, 1, 1, 1>>
outside == <<1, 2>>
In(dir) == Append(dir, 9)

\* Every mixture of markers and declarations that the two sides of a boundary may have: a
\* directory that is no repository declares no submodule.
Workspaces ==
    {[marker |-> (home :> m[1]) @@ (top :> m[2]) @@ (inner :> m[3]) @@ (inmost :> m[4])
                     @@ (outside :> m[5]),
      modules |-> (home :> g[1]) @@ (top :> g[2]) @@ (inner :> g[3]) @@ (inmost :> <<>>)
                     @@ (outside :> << <<>> >>),
      moved |-> x, failing |-> x \cap {inner}, changes |-> 0,
      version |-> [f \in {In(d) : d \in {home, top, inner, inmost, outside}} |-> 1]] :
        <<m, g, x>> \in
            {w \in ({"none", "directory", "stale", "corrupt"} \X {"none", "directory", "empty"}
                       \X {"none", "directory", "file", "corrupt"} \X {"none", "directory"}
                       \X {"none", "file"})
                    \X ({<<>>, << <<1, 1>> >>} \X {<<>>, << <<1>> >>, << <<1, 1>>, <<2>> >>}
                          \X {<<>>, << <<1>> >>, << <<8, 1>> >>, None})
                    \X {{}, {inner, <<1, 1, 2>>}} :
                \A i \in 1..3 : w[2][i] = <<>> \/ w[1][i] \notin {"none", "stale", "corrupt"}}}

Found(depth, entries, repositories) == INSTANCE RepositoryGraph WITH
    disk <- world, view <- review, request <- look, completed <- graph, actions <- deeds,
    Top <- top, Dirs <- {home, top, inner, inmost, outside},
    Links <- (<<1, 1, 3>> :> outside) @@ (<<1, 1, 1, 8>> :> top),
    Files <- {In(d) : d \in {home, top, inner, inmost, outside}},
    Tracked <- {<<top, In(inner)>>, <<home, In(top)>>, <<inner, In(inmost)>>},
    Disks <- Workspaces, ShallowDepth <- depth, MaxDepth <- 5, MaxEntries <- entries,
    MaxRepositories <- repositories, MaxActions <- 0, MaxChanges <- 0

\* Two repositories and one behind a link that Git may refuse or fail to read
Reviews == {[marker |-> (top :> "directory") @@ (inner :> "directory") @@ (outside :> m),
             modules |-> [d \in {top, inner, outside} |-> <<>>], moved |-> {},
             failing |-> fail, changes |-> 0, version |-> [f \in {In(top), In(inner)} |-> 1]] :
                m \in {"none", "corrupt"}, fail \in {{}, {inner}}}

Reviewing == INSTANCE RepositoryGraph WITH
    disk <- world, view <- review, request <- look, completed <- graph, actions <- deeds,
    Top <- top, Dirs <- {top, inner, outside}, Links <- (<<1, 1, 3>> :> outside),
    Files <- {In(top), In(inner)}, Tracked <- {<<top, In(top)>>},
    Disks <- Reviews, ShallowDepth <- 0, MaxDepth <- 5, MaxEntries <- 20,
    MaxRepositories <- 10, MaxActions <- 4, MaxChanges <- 1

treeVars    == <<fs, changes, tree, views, shown, reveal, refresh, loader>>
searchVars  == <<popup, commands, events, latest, epoch, ready, searcher, disk>>
sendVars    == <<active, selection, picker, requests, pending, working, completed, panes,
                 drafts, status>>
controlVars == <<phase, socket, threads, inUse, inbox, batch, tabs, front, client, answer,
                 opened>>
setupVars   == <<file, edits, faults, backups, runs, process>>
reviewVars  == <<world, review, look, graph, deeds>>

\* What does not run has one initial state.
Alone ==
    /\ IF part = "two views" THEN TwoViews!Init ELSE OneView!Init
    /\ Search!Init
    /\ Sending!Init /\ active = t1 /\ (part # "send" => panes = [p \in {p1, p2} |-> "idle"])
    /\ IF part = "two viewers" THEN ControlTwo!Init ELSE Control!Init
    /\ part \notin {"control", "two viewers"} => tabs[1] = << <<>> >>
    /\ Setup!Init /\ (part # "setup" => file = [a \in 1..2 |-> None])
    /\ IF part \in {"repositories", "limits"} THEN Found(5, 20, 10)!Init ELSE Reviewing!Init
    /\ part = "limits" => world.moved = {}
    /\ part \notin {"repositories", "limits", "review"} => world = CHOOSE d \in Reviews : TRUE

Steps ==
    /\ UNCHANGED part
    /\ \/ part = "one view" /\ OneView!Next
          /\ UNCHANGED <<searchVars, sendVars, controlVars, setupVars, reviewVars>>
       \/ part = "two views" /\ TwoViews!Next
          /\ UNCHANGED <<searchVars, sendVars, controlVars, setupVars, reviewVars>>
       \/ part = "search" /\ Search!Next
          /\ UNCHANGED <<treeVars, sendVars, controlVars, setupVars, reviewVars>>
       \/ part = "send" /\ Sending!Next
          /\ UNCHANGED <<treeVars, searchVars, controlVars, setupVars, reviewVars>>
       \/ part = "control" /\ Control!Next
          /\ UNCHANGED <<treeVars, searchVars, sendVars, setupVars, reviewVars>>
       \/ part = "two viewers" /\ ControlTwo!Next
          /\ UNCHANGED <<treeVars, searchVars, sendVars, setupVars, reviewVars>>
       \/ part = "setup" /\ Setup!Next
          /\ UNCHANGED <<treeVars, searchVars, sendVars, controlVars, reviewVars>>
       \/ part = "repositories" /\ Found(5, 20, 10)!Next
          /\ UNCHANGED <<treeVars, searchVars, sendVars, controlVars, setupVars>>
       \/ part = "limits" /\ Found(2, 3, 2)!Next
          /\ UNCHANGED <<treeVars, searchVars, sendVars, controlVars, setupVars>>
       \/ part = "review" /\ Reviewing!Next
          /\ UNCHANGED <<treeVars, searchVars, sendVars, controlVars, setupVars>>

all == <<part, treeVars, searchVars, sendVars, controlVars, setupVars, reviewVars>>

Parts == {"one view", "two views", "search", "send", "control",
          "two viewers", "setup", "repositories", "limits", "review"}
Start == part \in Parts /\ Alone
WorkspaceSpec == Start /\ [][Steps]_all

\* One part alone, for what it does not keep
TreeSpec == part = "one view" /\ Alone /\ [][Steps]_all

--------------------------------------------------------------------------------
\* Directories that load have a request on the way, entries hang together, and the
\* selected row is the row of the selection (FilesTree); the rows of the review scope are
\* the changes there are, and the selection is one of those shown (RepositoryGraph).
TreeHoldsTogether ==
    /\ part = "one view" =>
        OneView!LoadingIsAwaited /\ OneView!EntriesHang /\ OneView!SelectionIsRow
    /\ part = "two views" =>
        TwoViews!LoadingIsAwaited /\ TwoViews!EntriesHang /\ TwoViews!SelectionIsRow
    /\ part \in {"repositories", "limits"} => Found(5, 20, 10)!RowsAreTheChanges
    /\ part = "review" => Reviewing!RowsAreTheChanges /\ Reviewing!SelectionIsVisible

\* What arrives in the background takes nothing from the user: a directory that is loaded
\* leaves the selection alone (FilesTree), a refresh leaves it on its row and forgets the
\* marks of reviewed changes only when they are none any more (RepositoryGraph).
QuietLoadKeepsSelection ==
    /\ OneView!QuietLoadKeepsSelection
    /\ Reviewing!SelectionIsKept /\ Reviewing!MarksAreKept

\* What a popup shows answers its query, a finished search is as new as the tree, an
\* unfinished one has its answer on the way, and closing gives the tab back what it
\* showed. (SearchPopup)
SearchIsSound ==
    part = "search" => /\ Search!AnswersTheQuery /\ Search!FinishedIsFresh
                       /\ Search!SearchIsAwaited /\ Search!CloseGivesBack

--------------------------------------------------------------------------------
(* What comments say and the code does not keep *)

\* When a directory has been loaded the selection stays where it was: "Anchor on the
\* user's current selection, not on the directory that just finished loading". (FilesTree)
LoadKeepsSelection == OneView!LoadKeepsSelection
================================================================================
