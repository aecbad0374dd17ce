---------------------------- MODULE EventDelivery ----------------------------
(* What a hook process may rely on when it leaves its event to the running    *)
(* viewers (src/agent/dispatcher.rs, src/agent/live.rs): its own knowledge,   *)
(* against that of the receivers.                                             *)
EXTENDS Naturals

VARIABLES
    hook,     \* what the hook process of each event is doing
    answer,   \* what the hook knows of each viewer: unasked, found, waiting, or an outcome
    taken     \* how often the receiver of each viewer has returned each event

Asked(e) == {v \in DOMAIN answer[e] : answer[e][v] # "unasked"}

------------------------------------------------------------------------------
\* A hook that leaves its event to the viewers has had it taken by every viewer it
\* found: otherwise it goes to the store as well, however late the answers come.
LiveMeansTaken ==
    \A e \in DOMAIN hook : hook[e] = "live" => \A v \in Asked(e) : taken[v][e] > 0

\* No viewer takes an event twice, whatever deadlines pass and answers are lost.
TakenOnce == \A v \in DOMAIN taken : \A e \in DOMAIN taken[v] : taken[v][e] <= 1

\* An event that is left to the viewers has reached each of those its hook found, once.
EventsReachViewers == LiveMeansTaken /\ TakenOnce
==============================================================================
