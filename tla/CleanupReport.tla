---------------------------- MODULE CleanupReport ----------------------------
(* What the manager of language servers reports of the servers it ended (lsp.rs: *)
(* finalize_cleanup), against what is left of them in the system.               *)

VARIABLES
    platform, \* "unix" or "windows"
    child,    \* the direct child: "running", "exited" until it is reaped, "reaped"
    kin,      \* descendants in the process group or the job: "none", "alive", "deaf" to
              \* SIGTERM, or "quiet", without the pipes
    stray,    \* a descendant that left the group and holds the pipes
    told,     \* what the process tree was sent: nothing, "exit", "term" or "kill"
    thread,   \* the I/O threads: "running", "done" when reported, "finished", "joined"
    prog,     \* CleanupProgress
    outcome   \* "none", "complete", "quarantined"

Tree(s) == child[s] = "running" \/ kin[s] # "none"

------------------------------------------------------------------------------
\* A cleanup that counts as complete has left nothing behind: no process of the tree, no
\* zombie on Unix, no thread, and no pipe held by a process that escaped.
CompleteMeansGone ==
    \A s \in DOMAIN outcome : outcome[s] = "complete" =>
        /\ ~Tree(s) /\ ~stray[s]
        /\ platform = "unix" => child[s] = "reaped"
        /\ \A t \in DOMAIN thread[s] : thread[s][t] = "joined"

\* A server that is counted as a clean exit was sent no signal.
CleanIsUnforced ==
    \A s \in DOMAIN prog : prog[s].clean => told[s] \in {"nothing", "exit"} /\ ~prog[s].forced

\* What a cleanup reports of a server is true of it.
CleanupsAreProven == CompleteMeansGone /\ CleanIsUnforced
==============================================================================
