------------------------------- MODULE MCStores -------------------------------
(* The metadata store and the live bridge, each explored by itself.             *)
EXTENDS MetadataStore, EventDelivery, TLC

CONSTANTS p1, p2, v1, v2, e1, e2

VARIABLES
    part,                                               \* which of them runs
    manifest, viewer, selected, backlog, queue, reduced, crashes

\* Two workspaces, one of which has two sessions, and the reports of two observers
Report(kind, value, at, agent) == [kind |-> kind, value |-> value, at |-> at, agent |-> agent]
Started(s, t)  == ProjectMetadata(s, 1, <<Report("lifecycle", "open", t, 0)>>)
Working(s, t)  == ProjectMetadata(s, 2, <<Report("activity", "working", t, 0)>>)
Ended(s, t)    == ProjectMetadata(s, 1, <<Report("activity", "clear", t, 0),
                                          Report("lifecycle", "ended", t, 0)>>)
Subagent(s, t) == ProjectMetadata(s, 2, <<Report("agent", "observed", t, 1)>>)
Reports == {Started(<<1, 11>>, 0), Ended(<<1, 11>>, 1), Subagent(<<1, 12>>, 1),
            Working(<<1, 11>>, 2), Started(<<2, 11>>, 1)}
TwoProcs == {p1, p2}

\* Two viewers and the hook of one event; a viewer and the hooks of two events
Crowd == INSTANCE LiveBridge WITH
    Viewers <- {v1, v2}, Events <- {e1}, QueueCap <- 1, Ttl <- 0, MaxTime <- 1, MaxCrashes <- 1
Burst == INSTANCE LiveBridge WITH
    Viewers <- {v1}, Events <- {e1, e2}, QueueCap <- 1, Ttl <- 0, MaxTime <- 1, MaxCrashes <- 1

bridge == <<manifest, viewer, selected, backlog, taken, queue, reduced, hook, answer, crashes>>
store  == <<files, fresh, wsFiles, dirs, temps, locks, procs, spent>>

\* The store and the bridge have a clock each, and only one of them runs.
Alone ==
    /\ Init
    /\ \/ part \in {"store", "crowd"} /\ Crowd!Init
       \/ part = "burst" /\ Burst!Init

Steps ==
    /\ UNCHANGED part
    /\ \/ part = "store" /\ Next /\ UNCHANGED bridge
       \/ part = "crowd" /\ Crowd!Next /\ UNCHANGED store
       \/ part = "burst" /\ Burst!Next /\ UNCHANGED store

StoresSpec == Alone /\ [][Steps]_<<part, vars, bridge>>

Alike == Permutations(TwoProcs)

===============================================================================
