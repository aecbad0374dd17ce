------------------------------ MODULE SetupOutcome ------------------------------
(* What the setup of the hooks leaves in the configurations of the agents, and     *)
(* in its backups (agent/hook_setup.rs), and what it promises about that.          *)
EXTENDS Naturals, Sequences

CONSTANT None

VARIABLES
    file,     \* the configuration of each agent: the user's text, and its hook
    edits,    \* how many versions the texts have had
    backups,  \* the transactions on disk, by number: their journals
    process   \* the setup or the restore that runs, or how the last one ended

Absent == None

HookOf(content) == IF content = Absent THEN 0 ELSE content.hook

\* When setup reports that it was rolled back, and when a committed transaction is
\* restored, no configuration has the hook of that transaction left, whichever
\* writes failed on the way.
UndoneIsOriginal ==
    process.pc = "ended" /\ process.result \in {"rolled-back", "restored"} =>
        \A a \in DOMAIN backups[process.of].entries :
            HookOf(file[a]) = HookOf(backups[process.of].entries[a].original)

\* A setup that reports success has reached every configuration it was to change,
\* and its journal can undo all of it.
CommittedIsWhole ==
    process.pc = "ended" /\ process.result = "committed" =>
        \A a \in DOMAIN backups[process.of].entries :
            /\ HookOf(file[a]) = HookOf(backups[process.of].entries[a].installed)
            /\ backups[process.of].entries[a].applied

\* A transaction that was rolled back or restored left no hook behind, and one that
\* is committed is whole.
TransactionsAreWhole == UndoneIsOriginal /\ CommittedIsWhole

\* What a setup or a restore replaces is kept
Kept(a) ==
    \E t \in DOMAIN backups :
        /\ backups[t] # None /\ a \in DOMAIN backups[t].entries
        /\ file[a] \in {backups[t].entries[a].original, backups[t].entries[a].installed}

\* The user has written the configuration since the texts had so many versions.
WrittenSince(a, version) == file[a] # Absent /\ file[a].text > version

\* Whatever a setup or a restore replaces is the original in a backup on disk, or
\* what setup itself had installed, or an edit of the user that is newer than its
\* last look at the file.  What the user wrote before that look is never lost,
\* whatever fails or dies on the way; what is written between the look and the
\* write of the same file is.
ReplacedIsKept ==
    [][edits' = edits => \A a \in DOMAIN file : file'[a] # file[a] =>
        Kept(a) \/ WrittenSince(a, process.seen)]_<<file, edits>>

\* No edit of the user is overwritten at all: what the gates of the tests ask for,
\* and the code does not keep.
EditsAreKept ==
    [][edits' = edits => \A a \in DOMAIN file : file'[a] # file[a] => Kept(a)]_<<file, edits>>
==============================================================================
