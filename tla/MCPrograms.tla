------------------------------ MODULE MCPrograms ------------------------------
(* Instances of the parts that run programs of others, each explored by itself:   *)
(* LspClient, the manager of the language servers while the viewer runs,          *)
(* ServerCleanup, which ends them, and ExternalOpen, which hands files to the     *)
(* default applications of the host.                                              *)
EXTENDS LspClient, CleanupReport, ExternalOpen, TLC

CONSTANTS k1, s1

VARIABLES part, phase

OneKey == {k1}

Cleanups == INSTANCE ServerCleanup WITH Sessions <- {s1}
ending == <<platform, phase, child, kin, stray, told, thread, prog, outcome>>

\* Of ExternalOpen itself: a file that the tree of all files names, which other programs
\* write, remove or replace by a link to another path.
OpenNames == "file" :> "log" @@ "other" :> ""

\* A file below the root of a repository, which may be replaced by another file
Beneath == INSTANCE ExternalOpen WITH
    Targets <- {"file"}, Followed <- {}, Outer <- {"other"}, Inside <- {"file"},
    ByName <- OpenNames, Labels <- {"tree"}, Objects <- {1, 2}, Heads <- {"bytes", "script"},
    Stamps <- {1}, Window <- 2, Dedup <- 1, MaxOrders <- 2, MaxChanges <- 2, MaxTime <- 0

\* Two files that nobody changes, and a user who goes to and fro between them
Twins == INSTANCE ExternalOpen WITH
    Targets <- {"file", "twin"}, Followed <- {"file"}, Outer <- {"other"},
    Inside <- {"file", "twin"}, ByName <- OpenNames @@ "twin" :> "", Labels <- {"tree"},
    Objects <- {1}, Heads <- {"bytes", "image"}, Stamps <- {1}, Window <- 2, Dedup <- 1,
    MaxOrders <- 3, MaxChanges <- 0, MaxTime <- 2

Alone ==
    /\ part \in {"manager", "cleanup", "open", "beneath", "twins"}
    /\ CASE part = "open" -> OpenInit
         [] part = "beneath" -> Beneath!OpenInit
         [] OTHER -> /\ Twins!OpenInit
                     /\ \A p \in {"file", "twin"} : place[p].file = {1}
                     /\ place["other"].kind = "absent" /\ ~object[1].exec
                     /\ part # "twins" => object[1].head = "bytes"
    /\ Init
    /\ \/ part = "cleanup" /\ Cleanups!Init
       \/ /\ part # "cleanup"
          /\ platform = None /\ phase = None
          /\ child = <<>> /\ kin = <<>> /\ stray = <<>> /\ told = <<>>
          /\ thread = <<>> /\ prog = <<>> /\ outcome = <<>>

Steps ==
    /\ UNCHANGED part
    /\ \/ part = "manager" /\ Next /\ UNCHANGED <<ending, openVars>>
       \/ part = "cleanup" /\ Cleanups!Next /\ UNCHANGED <<vars, openVars>>
       \/ part = "open" /\ OpenNext /\ UNCHANGED <<vars, ending>>
       \/ part = "beneath" /\ Beneath!OpenNext /\ UNCHANGED <<vars, ending>>
       \/ part = "twins" /\ Twins!OpenNext /\ UNCHANGED <<vars, ending>>

\* The manager's loop, as in LspClient
ManagerRuns ==
    /\ WF_vars(part = "manager" /\ HandleRequest)
    /\ WF_vars(part = "manager" /\ HandleCancel)
    /\ WF_vars(part = "manager" /\ DiskAnswers)
    /\ WF_vars(part = "manager" /\ Wedge)
    /\ \A k \in Keys : WF_vars(part = "manager" /\ Expire(k))

ProgramsSpec == Alone /\ [][Steps]_<<part, vars, ending, openVars>> /\ ManagerRuns

===============================================================================
