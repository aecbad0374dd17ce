--------------------------- MODULE ServerCleanup ---------------------------
(***************************************************************************)
(* How the language servers of a batch of sessions are ended (lsp.rs:      *)
(* cleanup_sessions; lsp_process_unix.rs, lsp_process_windows.rs): in      *)
(* phases that all sessions share, each until every session is done with   *)
(* it or its window is over.  A session whose process tree and I/O threads *)
(* are not all shown to be gone at the end is quarantined.                 *)
(***************************************************************************)
EXTENDS CleanupReport, Integers, FiniteSets

CONSTANTS Sessions

Threads == {"stdin", "stdout", "stderr"}

VARIABLE phase  \* of the batch

world == <<platform, child, kin, stray, told>>
vars == <<world, phase, thread, prog, outcome>>

Init ==
    /\ platform \in {"unix", "windows"}
    /\ phase = "begin"
    /\ child \in [Sessions -> {"running", "exited"}]
    /\ kin \in [Sessions -> {"none", "alive", "deaf", "quiet"}]
    /\ stray \in [Sessions -> BOOLEAN]
    /\ told = [s \in Sessions |-> "nothing"]
    /\ thread = [s \in Sessions |-> [t \in Threads |-> "running"]]
    /\ \E ready \in [Sessions -> BOOLEAN] :
         prog = [s \in Sessions |-> [orderly |-> ready[s], responded |-> ~ready[s],
                                     gone |-> FALSE, error |-> FALSE, clean |-> FALSE,
                                     forced |-> FALSE]]
    /\ outcome = [s \in Sessions |-> "none"]

-----------------------------------------------------------------------------
(* The processes *)

\* A job holds what a group may lose: terminating it ends strays as well.
Exits(s) ==
    /\ \/ /\ child[s] = "running"
          /\ child' = [child EXCEPT ![s] = "exited"] /\ UNCHANGED <<kin, stray>>
       \/ /\ kin[s] \in {"alive", "quiet"} \/ (kin[s] = "deaf" /\ told[s] = "kill")
          /\ kin' = [kin EXCEPT ![s] = "none"] /\ UNCHANGED <<child, stray>>
       \/ /\ stray[s] /\ (platform = "unix" \/ told[s] = "kill")
          /\ stray' = [stray EXCEPT ![s] = FALSE] /\ UNCHANGED <<child, kin>>
    /\ UNCHANGED <<platform, told, phase, thread, prog, outcome>>

Piped(s) == child[s] = "running" \/ kin[s] \in {"alive", "deaf"} \/ stray[s]
Contained(s) == kin[s] # "none" \/ (platform = "windows" /\ stray[s])

\* A thread ends when no process holds the other end of its pipe; the writer also when
\* a write fails or its channel is closed, and the reader at a frame that is none or that
\* nobody takes.  The thread that reads the errors drops them to the end of its pipe: that
\* a read of a pipe fails is left out.
ThreadEnds(s, t) ==
    /\ \/ /\ thread[s][t] = "running"
          /\ ~Piped(s) \/ t # "stderr"
          /\ thread' = [thread EXCEPT ![s][t] = "done"]
       \/ /\ thread[s][t] = "done"
          /\ thread' = [thread EXCEPT ![s][t] = "finished"]
    /\ UNCHANGED <<world, phase, prog, outcome>>

-----------------------------------------------------------------------------
(* The manager *)

\* begin_cleanup: only a server that was ready is asked to shut down.
BeginCleanup ==
    /\ phase = "begin"
    /\ phase' = "response"
    /\ UNCHANGED <<world, thread, prog, outcome>>

\* poll_shutdown_response: the response is in, and exit is sent; or it will not come.
Respond(s) ==
    /\ phase = "response" /\ ~prog[s].responded
    /\ prog' = [prog EXCEPT ![s].responded = TRUE]
    /\ told' \in {told, [told EXCEPT ![s] = "exit"]}
    /\ UNCHANGED <<platform, child, kin, stray, phase, thread, outcome>>

\* Mutant: the exit of the direct child is enough.
EmptyOfChild(s) == child[s] # "running"

\* poll_exit: the direct child has exited, and nobody is left in its group or job.
Empty(s) == child[s] # "running" /\ ~Contained(s)

\* poll_tree_exit and poll_forced_tree reap the child; a query may fail.
PollTree(s) ==
    /\ phase \in {"exit", "term", "kill"} /\ ~prog[s].gone
    /\ \/ /\ child' = [child EXCEPT ![s] = IF @ = "exited" THEN "reaped" ELSE @]
          /\ prog' = [prog EXCEPT
                ![s].gone = Empty(s),
                ![s].clean = @ \/ (Empty(s) /\ phase = "exit" /\ prog[s].orderly)]
       \/ /\ ~prog[s].error
          /\ prog' = [prog EXCEPT ![s].error = TRUE] /\ UNCHANGED child
    /\ UNCHANGED <<platform, kin, stray, told, phase, thread, outcome>>

\* poll_io_completion joins what has reported and ended.
PollThreads(s) ==
    /\ phase \in {"io", "settle"}
    /\ \E t \in Threads : thread[s][t] = "finished"
    /\ thread' = [thread EXCEPT ![s] = [t \in Threads |->
                    IF @[t] = "finished" THEN "joined" ELSE @[t]]]
    /\ UNCHANGED <<world, phase, prog, outcome>>

\* begin_force_cleanup and escalate_force_cleanup act on what is not known to be gone.
Forces(s) == ~prog[s].gone

\* The next phase begins when all sessions are done with this one, or its window is over.
\* Between two phases the trees that are left are terminated, and then killed; on Windows
\* terminating the job is all there is.
NextPhase ==
    LET next == [response |-> "exit", exit |-> "term", term |-> "kill", kill |-> "io",
                 io |-> "settle"]
        signal == IF phase = "exit" /\ platform = "unix" THEN "term" ELSE "kill" IN
    /\ phase \in DOMAIN next
    /\ phase' = next[phase]
    /\ IF phase \notin {"exit", "term"}
         THEN UNCHANGED <<child, told, prog>>
         ELSE /\ child' = [s \in Sessions |->
                    IF Forces(s) /\ platform = "unix" /\ child[s] = "exited"
                      THEN "reaped" ELSE child[s]]
              /\ told' = [s \in Sessions |-> IF Forces(s) THEN signal ELSE told[s]]
              /\ prog' = [s \in Sessions |-> [prog[s] EXCEPT !.forced = @ \/ Forces(s)]]
    /\ UNCHANGED <<platform, kin, stray, thread, outcome>>

\* What finalize_cleanup asks for.
Proven(s) ==
    prog[s].gone /\ ~prog[s].error /\ \A t \in Threads : thread[s][t] = "joined"

FinalizeCleanup ==
    /\ phase = "settle"
    /\ phase' = "end"
    /\ outcome' = [s \in Sessions |-> IF Proven(s) THEN "complete" ELSE "quarantined"]
    /\ UNCHANGED <<world, thread, prog>>

Done == phase = "end" /\ UNCHANGED vars

-----------------------------------------------------------------------------
Next ==
    \/ BeginCleanup \/ NextPhase \/ FinalizeCleanup \/ Done
    \/ \E s \in Sessions :
         \/ Exits(s) \/ Respond(s) \/ PollTree(s) \/ PollThreads(s)
         \/ \E t \in Threads : ThreadEnds(s, t)

Spec == Init /\ [][Next]_vars

-----------------------------------------------------------------------------
(* What the design says and the code does not keep: see the README *)

\* A group is signalled before the direct child is reaped, while its number cannot have
\* been given to another group.
SignalledBeforeReaped ==
    [][\A s \in Sessions : told'[s] # told[s] /\ told'[s] \in {"term", "kill"}
         => child[s] # "reaped"]_vars
=============================================================================
