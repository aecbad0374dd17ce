---------------------------- MODULE ControlOutcome ----------------------------
(* What the commands that look for a viewer, and the viewers, hold of the         *)
(* exchanges between them, and the promises about it (instance.rs, app.rs).       *)
EXTENDS Naturals, FiniteSets, Functions

CONSTANT Slots    \* MAX_ACTIVE_CONNECTIONS

VARIABLES
    threads,  \* a viewer's connections: accepted or not, asking, waiting, answered
    inUse,    \* active: the counter of its connections
    client,   \* what each command is doing
    answer,   \* what an exchange has sent back
    opened    \* the requests that were performed, in order

\* An exchange is a connection of a command: the command, its run, and the place of
\* the exchange in that run.
Exchange(c) == <<c, client[c].run, client[c].step>>

Served(i) == {t \in threads[i] : t.stage # "backlog"}

--------------------------------------------------------------------------------
\* A command that reports that the instance opened its path is right: the main
\* loop performed this very request, and not for a command that had given up.
OpenedIsPerformed ==
    \A c \in DOMAIN client :
        client[c].stage = "sent" /\ answer[c] = "opened" => Exchange(c) \in Range(opened)

\* Whatever is shed, given up or answered, no request is performed twice, and the
\* counter of the connections is the number of threads that serve one, never more
\* than the limit: a slot that is not returned would make the instance deaf.
SlotsAreReturned ==
    /\ IsInjective(opened)
    /\ \A i \in DOMAIN threads : inUse[i] = Cardinality(Served(i)) /\ inUse[i] <= Slots

\* A command that reports success had its request performed, once, and the slots of
\* the connections are counted as they are used.
CommandsAreServed == OpenedIsPerformed /\ SlotsAreReturned
================================================================================
