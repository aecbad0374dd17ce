------------------------------- MODULE HookSetup -------------------------------
(* `latte-lens hooks setup` and `hooks restore` (agent/hook_setup.rs): setup    *)
(* merges its hooks into the configurations of the agents it finds, as a        *)
(* transaction with a backup and a journal; a failure rolls back what was       *)
(* written, and a later restore undoes a whole transaction.                     *)
(*                                                                             *)
(* A lock file keeps a second setup out.  Any write may fail, the process may   *)
(* die between two writes, and the user edits the configurations meanwhile,     *)
(* also between the read and the write of one: nothing in the code notices.     *)
EXTENDS SetupOutcome

CONSTANTS
    Agents,    \* the agents, in the order in which they are set up
    Plugins,   \* those whose hook is a file of its own, overwritten as a whole
    Binaries,  \* the binaries a hook may name, numbered from 1
    Keep,      \* MAX_BACKUPS
    MaxRuns, MaxEdits, MaxFaults  \* bounds

VARIABLES
    faults,   \* how many writes failed, how many processes died
    runs      \* how many transactions were begun
vars == <<file, edits, faults, backups, runs, process>>

Content  == [text : 0..MaxEdits, hook : {0} \cup Binaries]
Entry    == [original : Content \cup {Absent}, installed : Content, applied : BOOLEAN]
Statuses == {"applying", "committed", "rolled-back", "rollback-incomplete", "restored"}
Journals == UNION {[status : Statuses, entries : [A -> Entry]] : A \in SUBSET DOMAIN Agents}

\* The constants are such that nothing else is taken for what is absent.
Shape ==
    /\ Agents \in Seq(STRING) /\ Binaries \subseteq Nat
    /\ Keep \in Nat \ {0} /\ MaxEdits \in Nat
    /\ None \notin Content \cup Journals

Ended(result) ==
    [pc |-> "ended", result |-> result, of |-> 0, left |-> {}, journal |-> None, seen |-> 0]

Init ==
    /\ file \in [DOMAIN Agents -> {Absent, [text |-> 0, hook |-> 0]}]
    /\ edits = 0 /\ faults = 0
    /\ backups = <<>> /\ runs = 0
    /\ process = Ended("none")

Running == process.pc # "ended"

Fails == faults < MaxFaults /\ faults' = faults + 1
Works == UNCHANGED faults

\* What prepare_target makes of a configuration: the hooks of another setup are
\* replaced, the rest is kept.  A plugin is replaced as a whole, and only if it is
\* one of ours.
Updated(a, b) ==
    IF file[a] = Absent \/ a \in Plugins THEN [text |-> 0, hook |-> b]
    ELSE [file[a] EXCEPT !.hook = b]

Foreign(a) == a \in Plugins /\ file[a] # Absent /\ file[a].hook = 0

Prepared(b) == {a \in DOMAIN Agents : file[a] # Updated(a, b)}

Entries(b) == [a \in Prepared(b) |->
    [original |-> file[a], installed |-> Updated(a, b), applied |-> FALSE]]

Journal(status, entries) == [status |-> status, entries |-> entries]

Applied(j) == {a \in DOMAIN j.entries : j.entries[a].applied}

WithMark(entry, applied) == [entry EXCEPT !.applied = applied]
WithStatus(j, status)    == [j EXCEPT !.status = status]
Marked(j, a, applied) ==
    [j EXCEPT !.entries = [j.entries EXCEPT ![a] = WithMark(j.entries[a], applied)]]
Closed(t, status) == [backups EXCEPT ![t] = WithStatus(backups[t], status)]

First(a, S) == a \in S /\ \A b \in S : a <= b
Last(a, S)  == a \in S /\ \A b \in S : b <= a

------------------------------------------------------------------------------
\* The user, and the machine

UserEdits(a) ==
    /\ edits < MaxEdits /\ edits' = edits + 1
    /\ file' = [file EXCEPT ![a] =
           [text |-> edits + 1, hook |-> IF @ = Absent THEN 0 ELSE @.hook]]
    /\ UNCHANGED <<faults, backups, runs, process>>

Dies ==
    /\ Running /\ Fails /\ process' = Ended("died")
    /\ UNCHANGED <<file, edits, backups, runs>>

------------------------------------------------------------------------------
\* Setup

\* setup_user_hooks up to the journal, "prepared" and then "applying": a foreign
\* plugin, or a backup that cannot be written, ends it before any change.  The
\* configurations are read here and not looked at again before they are written.
BeginSetup(b) ==
    /\ ~Running /\ runs < MaxRuns
    /\ \/ /\ (\E a \in DOMAIN Agents : Foreign(a)) \/ Prepared(b) = {}
          /\ process' = Ended("unchanged") /\ Works /\ UNCHANGED <<backups, runs>>
       \/ /\ ~ \E a \in DOMAIN Agents : Foreign(a)
          /\ Prepared(b) # {} /\ Works
          /\ runs' = runs + 1
          /\ backups' = Append(backups, Journal("applying", Entries(b)))
          /\ process' = [pc |-> "write", result |-> "none", of |-> runs + 1,
                         left |-> Prepared(b), journal |-> backups'[runs + 1],
                         seen |-> edits]
    /\ UNCHANGED <<file, edits>>

RollBack == [process EXCEPT !.pc = "undo", !.left = Applied(process.journal)]

\* Mutant: the entry is marked once the journal says so.
WriteFileUnmarked ==
    /\ process.pc = "write"
    /\ \E a \in process.left :
       /\ First(a, process.left)
       /\ \/ /\ Works
             /\ file' = [file EXCEPT ![a] = process.journal.entries[a].installed]
             /\ process' = [process EXCEPT !.pc = "journal", !.left = @ \ {a}]
          \/ Fails /\ process' = RollBack /\ UNCHANGED file
    /\ UNCHANGED <<edits, backups, runs>>

\* write_prepared: the next configuration is replaced.
WriteFile ==
    /\ process.pc = "write"
    /\ \E a \in process.left :
       /\ First(a, process.left)
       /\ \/ /\ Works
             /\ file' = [file EXCEPT ![a] = process.journal.entries[a].installed]
             /\ process' = [process EXCEPT !.pc = "journal", !.left = @ \ {a},
                                       !.journal = Marked(@, a, TRUE)]
          \/ Fails /\ process' = RollBack /\ UNCHANGED file
    /\ UNCHANGED <<edits, backups, runs>>

\* write_manifest after each configuration
WriteJournal ==
    /\ process.pc = "journal"
    /\ \/ /\ Works /\ backups' = [backups EXCEPT ![process.of] = process.journal]
          /\ process' = [process EXCEPT !.pc = "write"]
       \/ Fails /\ process' = RollBack /\ UNCHANGED backups
    /\ UNCHANGED <<file, edits, runs>>

\* prune_backups keeps the newest.
Pruned(all) == [t \in DOMAIN all |-> IF t + Keep <= Len(all) THEN None ELSE all[t]]

\* The last write of the journal: its failure is reported, and nothing is undone.
Commit ==
    /\ process.pc = "write" /\ process.left = {}
    /\ \/ /\ Works
          /\ backups' = Pruned(Closed(process.of, "committed"))
          /\ process' = [Ended("committed") EXCEPT !.of = process.of]
       \/ Fails /\ process' = [Ended("failed") EXCEPT !.of = process.of] /\ UNCHANGED backups
    /\ UNCHANGED <<file, edits, runs>>

------------------------------------------------------------------------------
\* Rolling back, and restoring

Unchanged(j, a) == file[a] = j.entries[a].installed

\* Whether a restore has all of a transaction to undo.
Whole(j) == j.status = "committed" /\ Applied(j) = DOMAIN j.entries

\* restore_user_hooks: every configuration must be as the transaction left it.
BeginRestore(t) ==
    /\ ~Running /\ t \in DOMAIN backups /\ backups[t] # None
    /\ IF \A a \in Applied(backups[t]) : Unchanged(backups[t], a)
       THEN process' = [pc |-> "undo", of |-> t,
                        result |-> IF Whole(backups[t]) THEN "whole" ELSE "part",
                        left |-> Applied(backups[t]), journal |-> backups[t],
                        seen |-> edits]
       ELSE process' = Ended("refused")
    /\ UNCHANGED <<file, edits, faults, backups, runs>>

\* What cannot be undone ends a restore; a setup notes it in the journal.
Incomplete == IF process.result = "none" THEN [process EXCEPT !.pc = "incomplete"]
              ELSE Ended("incomplete")

\* Mutant: what is read is not compared.
UndoFileUnchecked ==
    /\ process.pc = "undo" /\ process.left # {}
    /\ \/ Works /\ process' = [process EXCEPT !.pc = "put", !.seen = edits]
       \/ Fails /\ process' = Incomplete
    /\ UNCHANGED <<file, edits, backups, runs>>

\* rollback_applied, from the last to the first: the check is made again before
\* the configuration is put back, ...
UndoFile ==
    /\ process.pc = "undo"
    /\ \E a \in process.left :
       /\ Last(a, process.left)
       /\ \/ /\ Unchanged(process.journal, a) /\ Works
             /\ process' = [process EXCEPT !.pc = "put", !.seen = edits]
          \/ /\ \/ ~Unchanged(process.journal, a) /\ Works
                \/ Fails
             /\ process' = Incomplete
    /\ UNCHANGED <<file, edits, backups, runs>>

\* ... or removed, whatever it has become since.
PutBack ==
    /\ process.pc = "put"
    /\ \E a \in process.left :
       /\ Last(a, process.left)
       /\ \/ /\ Works
             /\ file' = [file EXCEPT ![a] = process.journal.entries[a].original]
             /\ process' = [process EXCEPT !.pc = "mark", !.left = @ \ {a},
                                       !.journal = Marked(@, a, FALSE)]
          \/ Fails /\ UNCHANGED file /\ process' = Incomplete
    /\ UNCHANGED <<edits, backups, runs>>

MarkUndone ==
    /\ process.pc = "mark"
    /\ \/ /\ Works /\ backups' = [backups EXCEPT ![process.of] = process.journal]
          /\ process' = [process EXCEPT !.pc = "undo"]
       \/ Fails /\ process' = Incomplete /\ UNCHANGED backups
    /\ UNCHANGED <<file, edits, runs>>

NoteIncomplete ==
    /\ process.pc = "incomplete" /\ process' = Ended("incomplete")
    /\ \/ /\ Works
          /\ backups' = [backups EXCEPT ![process.of] =
                 WithStatus(process.journal, "rollback-incomplete")]
       \/ Fails /\ UNCHANGED backups
    /\ UNCHANGED <<file, edits, runs>>

Undone == CASE process.result = "none"  -> "rolled-back"
            [] process.result = "whole" -> "restored"
            [] process.result = "part"  -> "restored rest"

\* The status is written last; after a rollback its failure is ignored.
EndUndo ==
    /\ process.pc = "undo" /\ process.left = {}
    /\ \/ /\ Works /\ process' = [Ended(Undone) EXCEPT !.of = process.of]
          /\ backups' = Closed(process.of,
                 IF Undone = "rolled-back" THEN "rolled-back" ELSE "restored")
       \/ /\ Fails /\ UNCHANGED backups
          /\ process' = IF Undone = "rolled-back" THEN [Ended(Undone) EXCEPT !.of = process.of]
                        ELSE Ended("incomplete")
    /\ UNCHANGED <<file, edits, runs>>

Next ==
    \/ \E a \in DOMAIN Agents : UserEdits(a)
    \/ \E b \in Binaries : BeginSetup(b)
    \/ \E t \in DOMAIN backups : BeginRestore(t)
    \/ Dies \/ WriteFile \/ WriteJournal \/ Commit
    \/ UndoFile \/ PutBack \/ MarkUndone \/ NoteIncomplete \/ EndUndo

Spec == Init /\ [][Next]_vars

------------------------------------------------------------------------------
\* What the documents say and the code does not keep: see the README.

\* When any step of setup fails, what it had written is put back.
FailureIsUndone ==
    process.pc = "ended" /\ process.result = "failed" =>
        \A a \in DOMAIN backups[process.of].entries :
            HookOf(file[a]) = HookOf(backups[process.of].entries[a].original)

\* A transaction that is said to be restored has left nothing behind.
RestoredIsOriginal ==
    process.pc = "ended" /\ process.result \in {"restored", "restored rest"} =>
        \A a \in DOMAIN backups[process.of].entries :
            HookOf(file[a]) = HookOf(backups[process.of].entries[a].original)
==============================================================================
