------------------------------ MODULE HandoffProofs ------------------------------
(* What the viewer hands to others: hooks to the configurations of the agents      *)
(* (HookSetup), text to an agent (SendAgent) and files to the host (ExternalOpen). *)
(* What setup and restore promise holds for every set of agents and binaries, any  *)
(* number of transactions, edits and failures.                                     *)
EXTENDS HookSetup, SendOutcome, ExternalOpen, TLAPS

--------------------------------------------------------------------------------
\* The invariant, conjunct by conjunct, over explicit states: the configurations f,
\* the backups bs and the process p

Results   == {"none", "whole", "part", "died", "unchanged", "refused", "incomplete", "failed",
              "committed", "rolled-back", "restored", "restored rest"}
Phases    == {"ended", "write", "journal", "undo", "put", "mark", "incomplete"}
Processes == [pc : Phases, result : Results, of : Nat, left : SUBSET DOMAIN Agents,
              journal : Journals \cup {None}, seen : Nat]

Types(f, e, bs, n, p) ==
    /\ f \in [DOMAIN Agents -> Content \cup {Absent}]
    /\ e \in 0..MaxEdits /\ p.seen <= e
    /\ bs \in Seq(Journals \cup {None}) /\ n = Len(bs)
    /\ p \in Processes

\* Two states of one journal
Same(i, j) ==
    /\ DOMAIN i.entries = DOMAIN j.entries
    /\ \A a \in DOMAIN i.entries : /\ i.entries[a].original = j.entries[a].original
                                   /\ i.entries[a].installed = j.entries[a].installed

\* The journal of what runs is on disk, possibly without the last mark.
Backed(bs, p) ==
    p.pc # "ended" => /\ p.journal \in Journals
                      /\ p.of \in DOMAIN bs /\ bs[p.of] \in Journals
                      /\ Same(bs[p.of], p.journal)

IsInstalled(f, j, a) == HookOf(f[a]) = HookOf(j.entries[a].installed)
IsOriginal(f, j, a)  == HookOf(f[a]) = HookOf(j.entries[a].original)

\* The user has written the text after the last look at it.
Newer(f, p, a) == f[a] # Absent /\ f[a].text > p.seen

\* What setup has not yet written is as setup has read it, or the user has written it
\* since; what it has written it has marked.
Writing(f, bs, p) ==
    p.pc \in {"write", "journal"} =>
        /\ p.result = "none" /\ p.of = Len(bs)
        /\ p.left = DOMAIN p.journal.entries \ Applied(p.journal)
        /\ \A a \in DOMAIN p.journal.entries :
              IF a \in p.left
              THEN /\ IsOriginal(f, p.journal, a)
                   /\ f[a] = p.journal.entries[a].original \/ Newer(f, p, a)
              ELSE IsInstalled(f, p.journal, a)
        /\ p.pc = "write" => bs[p.of].entries = p.journal.entries

\* What is still marked is still to be undone.  What is no longer marked has its
\* hook of before, unless a part of the marks was lost before the restore.  What is
\* about to be put back was just seen to be as setup has left it.
Undoing(f, p) ==
    p.pc \in {"undo", "put", "mark"} =>
        /\ p.left = Applied(p.journal)
        /\ p.result \in {"none", "whole", "part"}
        /\ p.result # "part" =>
              \A a \in DOMAIN p.journal.entries \ p.left : IsOriginal(f, p.journal, a)
        /\ p.pc = "put" => \A a \in p.left : Last(a, p.left) =>
              f[a] = p.journal.entries[a].installed \/ Newer(f, p, a)

Reported(f, bs, p) ==
    p.pc = "ended" /\ p.result \in {"committed", "rolled-back", "restored"} =>
        /\ p.of \in DOMAIN bs /\ bs[p.of] \in Journals
        /\ \A a \in DOMAIN bs[p.of].entries :
              IF p.result = "committed"
              THEN IsInstalled(f, bs[p.of], a) /\ bs[p.of].entries[a].applied
              ELSE IsOriginal(f, bs[p.of], a)

Inv ==
    /\ Types(file, edits, backups, runs, process)
    /\ Backed(backups, process)
    /\ Writing(file, backups, process)
    /\ Undoing(file, process)
    /\ Reported(file, backups, process)

--------------------------------------------------------------------------------
\* Contents, journals, and what the helpers make of them

LEMMA ContentIs ==
    ASSUME Shape
    PROVE  /\ \A c \in Content : c # Absent /\ HookOf(c) = c.hook
           /\ HookOf(Absent) = 0
           /\ \A t \in 0..MaxEdits, h \in {0} \cup Binaries : [text |-> t, hook |-> h] \in Content
  BY DEF Shape, Absent, Content, HookOf

LEMMA JournalParts ==
    ASSUME NEW j \in Journals
    PROVE  /\ j.status \in Statuses
           /\ DOMAIN j.entries \subseteq DOMAIN Agents
           /\ j.entries \in [DOMAIN j.entries -> Entry]
           /\ j = [status |-> j.status, entries |-> j.entries]
  <1>1. PICK A \in SUBSET DOMAIN Agents : j \in [status : Statuses, entries : [A -> Entry]]
    BY DEF Journals
  <1> QED BY <1>1

LEMMA JournalIs ==
    ASSUME NEW A \in SUBSET DOMAIN Agents, NEW e \in [A -> Entry], NEW s \in Statuses
    PROVE  [status |-> s, entries |-> e] \in Journals
  BY DEF Journals

LEMMA EntryIs ==
    ASSUME NEW j \in Journals, NEW a \in DOMAIN j.entries
    PROVE  /\ j.entries[a] \in Entry
           /\ j.entries[a].original \in Content \cup {Absent}
           /\ j.entries[a].installed \in Content
           /\ j.entries[a].applied \in BOOLEAN
  <1>1. j.entries[a] \in Entry
    BY JournalParts
  <1> QED BY <1>1 DEF Entry

\* Marking an entry changes nothing else of the journal.
LEMMA MarkedIs ==
    ASSUME NEW j \in Journals, NEW a \in DOMAIN j.entries, NEW m \in BOOLEAN
    PROVE  /\ Marked(j, a, m) \in Journals
           /\ Same(j, Marked(j, a, m))
           /\ Applied(Marked(j, a, m)) = IF m THEN Applied(j) \cup {a} ELSE Applied(j) \ {a}
  <1> DEFINE entry == WithMark(j.entries[a], m)
             all   == [j.entries EXCEPT ![a] = entry]
  <1>1. j.entries \in [DOMAIN j.entries -> Entry] /\ j.entries[a] \in Entry
    BY JournalParts, EntryIs
  <1>2. /\ entry \in Entry /\ entry.applied = m
        /\ entry.original = j.entries[a].original /\ entry.installed = j.entries[a].installed
    BY <1>1 DEF Entry, WithMark
  <1> HIDE DEF entry
  <1>3. /\ all \in [DOMAIN j.entries -> Entry]
        /\ \A b \in DOMAIN j.entries : all[b] = IF b = a THEN entry ELSE j.entries[b]
    BY <1>1, <1>2
  <1> HIDE DEF all
  <1>4. Marked(j, a, m) = [status |-> j.status, entries |-> all]
    BY JournalParts DEF Marked, all, entry
  <1>5. Marked(j, a, m) \in Journals
    BY <1>3, <1>4, JournalParts, JournalIs
  <1>6. Marked(j, a, m).entries = all /\ DOMAIN all = DOMAIN j.entries
    BY <1>3, <1>4
  <1>7. Same(j, Marked(j, a, m))
    BY <1>2, <1>3, <1>6 DEF Same
  <1>8. Applied(Marked(j, a, m)) = IF m THEN Applied(j) \cup {a} ELSE Applied(j) \ {a}
    BY <1>2, <1>3, <1>6 DEF Applied
  <1> QED BY <1>5, <1>7, <1>8

\* A user's edit keeps the hook.
LEMMA HookKept ==
    ASSUME Shape, NEW c \in Content \cup {Absent}, NEW t \in 0..MaxEdits
    PROVE  LET new == [text |-> t, hook |-> IF c = Absent THEN 0 ELSE c.hook]
           IN  new \in Content /\ HookOf(new) = HookOf(c)
  <1>1. HookOf(c) = IF c = Absent THEN 0 ELSE c.hook
    BY DEF HookOf
  <1>2. HookOf(c) \in {0} \cup Binaries
    BY <1>1 DEF Content
  <1> QED BY <1>1, <1>2, ContentIs

LEMMA StatusIs ==
    ASSUME NEW j \in Journals, NEW s \in Statuses
    PROVE  /\ WithStatus(j, s) \in Journals
           /\ WithStatus(j, s).entries = j.entries
  <1>1. WithStatus(j, s) = [status |-> s, entries |-> j.entries]
    BY JournalParts DEF WithStatus
  <1> QED BY <1>1, JournalParts, JournalIs

\* Journals that are the same keep being so, whichever is written over the other.
LEMMA SameIs ==
    ASSUME NEW i, NEW j, NEW k
    PROVE  /\ Same(j, j)
           /\ Same(i, j) => Same(j, i)
           /\ Same(i, j) /\ Same(j, k) => Same(i, k)
  BY DEF Same

LEMMA SameLength ==
    ASSUME NEW S, NEW s \in Seq(S), NEW t \in Seq(S), Len(s) = Len(t)
    PROVE  DOMAIN s = DOMAIN t
  OBVIOUS

\* A transaction on disk is replaced.
LEMMA Rewritten ==
    ASSUME NEW bs \in Seq(Journals \cup {None}), NEW t \in DOMAIN bs, NEW j \in Journals
    PROVE  LET new == [bs EXCEPT ![t] = j]
           IN  /\ new \in Seq(Journals \cup {None})
               /\ Len(new) = Len(bs) /\ DOMAIN new = DOMAIN bs
               /\ new[t] = j
  <1>1. t \in 1..Len(bs)
    OBVIOUS
  <1> QED BY <1>1

--------------------------------------------------------------------------------
\* The steps

\* What a user does to a configuration keeps all hooks, and is newer than what setup or
\* restore has seen of it.
LEMMA EditKeepsInv ==
    ASSUME Shape, Inv, NEW a \in DOMAIN Agents, UserEdits(a)
    PROVE  Inv'
  <1> DEFINE new == [text |-> edits + 1,
                     hook |-> IF file[a] = Absent THEN 0 ELSE file[a].hook]
  <1>1. /\ edits \in 0..MaxEdits /\ edits' = edits + 1 /\ edits' \in 0..MaxEdits
        /\ UNCHANGED <<backups, runs, process>>
        /\ file \in [DOMAIN Agents -> Content \cup {Absent}]
        /\ file' = [file EXCEPT ![a] = new]
    BY DEF Inv, Types, UserEdits, Shape
  <1>2. file[a] \in Content \cup {Absent}
    BY <1>1
  <1>3. /\ new \in Content /\ HookOf(new) = HookOf(file[a])
        /\ new # Absent /\ new.text > process.seen
    <2>1. process.seen <= edits /\ process.seen \in Nat /\ edits \in Nat
      BY DEF Inv, Types, Processes, Shape
    <2>2. new \in Content /\ HookOf(new) = HookOf(file[a])
      BY <1>1, <1>2, HookKept
    <2>3. new.text = edits + 1
      OBVIOUS
    <2> HIDE DEF new
    <2> QED BY <2>1, <2>2, <2>3, ContentIs
  <1> HIDE DEF new
  <1>4. /\ file' \in [DOMAIN Agents -> Content \cup {Absent}]
        /\ Newer(file', process', a)
        /\ \A b \in DOMAIN Agents : HookOf(file'[b]) = HookOf(file[b])
        /\ \A b \in DOMAIN Agents : b # a => file'[b] = file[b]
    BY <1>1, <1>3 DEF Newer
  <1>5. Types(file, edits, backups, runs, process)'
    BY <1>1, <1>4 DEF Inv, Types, Processes, Shape
  <1>6. Backed(backups, process)'
    BY <1>1 DEF Inv, Backed
  <1>7. process.pc # "ended" => DOMAIN process.journal.entries \subseteq DOMAIN Agents
    BY JournalParts DEF Inv, Backed
  <1>8. Writing(file, backups, process)'
    <2>1. SUFFICES ASSUME process.pc \in {"write", "journal"} PROVE Writing(file, backups, process)'
      BY <1>1 DEF Writing
    <2>2. ASSUME NEW b \in process.left, b \in DOMAIN process.journal.entries
          PROVE  /\ IsOriginal(file', process.journal, b)
                 /\ file'[b] = process.journal.entries[b].original \/ Newer(file', process', b)
      <3>1. b \in DOMAIN Agents
        BY <1>7, <2>1, <2>2
      <3>2. /\ IsOriginal(file, process.journal, b)
            /\ file[b] = process.journal.entries[b].original \/ Newer(file, process, b)
        BY <2>1, <2>2 DEF Inv, Writing
      <3> QED BY <1>1, <1>4, <3>1, <3>2 DEF Newer, IsOriginal
    <2> QED BY <1>1, <1>4, <1>7, <2>1, <2>2 DEF Inv, Writing, IsInstalled
  <1>9. Undoing(file, process)'
    <2>1. SUFFICES ASSUME process.pc \in {"undo", "put", "mark"} PROVE Undoing(file, process)'
      BY <1>1 DEF Undoing
    <2>2. ASSUME process.pc = "put", NEW b \in process.left, Last(b, process.left)
          PROVE  file'[b] = process.journal.entries[b].installed \/ Newer(file', process', b)
      <3>1. b \in DOMAIN Agents
        BY <1>1, <2>2 DEF Inv, Types, Processes
      <3>2. file[b] = process.journal.entries[b].installed \/ Newer(file, process, b)
        BY <2>1, <2>2 DEF Inv, Undoing
      <3> QED BY <1>1, <1>4, <3>1, <3>2 DEF Newer
    <2> QED BY <1>1, <1>4, <1>7, <2>1, <2>2 DEF Inv, Undoing, IsOriginal
  <1>10. Reported(file, backups, process)'
    <2>1. SUFFICES ASSUME process.pc = "ended",
                          process.result \in {"committed", "rolled-back", "restored"}
                   PROVE  Reported(file, backups, process)'
      BY <1>1 DEF Reported
    <2>2. DOMAIN backups[process.of].entries \subseteq DOMAIN Agents
      BY <2>1, JournalParts DEF Inv, Reported
    <2> QED BY <1>1, <1>4, <2>1, <2>2 DEF Inv, Reported, IsOriginal, IsInstalled
  <1> QED BY <1>5, <1>6, <1>8, <1>9, <1>10 DEF Inv

\* How a process ends without a promise
LEMMA EndedKeepsInv ==
    ASSUME Shape, Inv, UNCHANGED <<file, edits, backups, runs>>,
           NEW r \in {"died", "unchanged", "refused", "incomplete"}, process' = Ended(r)
    PROVE  Inv'
  <1>1. /\ process' \in Processes /\ process'.pc = "ended" /\ process'.result = r
        /\ process'.seen = 0
    BY DEF Ended, Processes, Results, Phases
  <1> QED BY <1>1 DEF Inv, Types, Backed, Writing, Undoing, Reported

\* What cannot be undone makes no promise either.
LEMMA IncompleteKeepsInv ==
    ASSUME Shape, Inv, process.pc \in {"undo", "put", "mark"},
           UNCHANGED <<file, edits, backups, runs>>, process' = Incomplete
    PROVE  Inv'
  <1>1. CASE process' = Ended("incomplete")
    BY <1>1, EndedKeepsInv
  <1>2. CASE process' = [process EXCEPT !.pc = "incomplete"]
    <2>1. process \in Processes
      BY DEF Inv, Types
    <2>2. /\ process' \in Processes /\ process'.pc = "incomplete"
          /\ process'.of = process.of /\ process'.journal = process.journal
          /\ process'.seen = process.seen
      BY <1>2, <2>1 DEF Processes, Phases
    <2> QED BY <2>2 DEF Inv, Types, Backed, Writing, Undoing, Reported
  <1> QED BY <1>1, <1>2 DEF Incomplete

LEMMA InitHasInv ==
    ASSUME Shape, Init
    PROVE  Inv
  <1>1. 0 \in 0..MaxEdits /\ [text |-> 0, hook |-> 0] \in Content
    BY DEF Shape, Content
  <1>2. file \in [DOMAIN Agents -> Content \cup {Absent}]
    BY <1>1 DEF Init
  <1>3. /\ process \in Processes /\ process.pc = "ended" /\ process.result = "none"
        /\ process.seen = 0
    BY DEF Init, Ended, Processes, Results, Phases
  <1>4. Types(file, edits, backups, runs, process)
    BY <1>1, <1>2, <1>3 DEF Init, Types
  <1> QED BY <1>3, <1>4 DEF Inv, Backed, Writing, Undoing, Reported

\* What setup prepares is read and not yet changed.
LEMMA PreparedIs ==
    ASSUME Shape, Inv, NEW b \in Binaries
    PROVE  /\ Prepared(b) \subseteq DOMAIN Agents
           /\ Journal("applying", Entries(b)) \in Journals
           /\ DOMAIN Entries(b) = Prepared(b)
           /\ \A a \in Prepared(b) : Entries(b)[a].original = file[a] /\ ~Entries(b)[a].applied
  <1>1. Prepared(b) \subseteq DOMAIN Agents
    BY DEF Prepared
  <1>2. ASSUME NEW a \in DOMAIN Agents
        PROVE  [original |-> file[a], installed |-> Updated(a, b), applied |-> FALSE] \in Entry
    <2>1. file[a] \in Content \cup {Absent}
      BY DEF Inv, Types
    <2>2. Updated(a, b) \in Content
      <3>1. 0 \in 0..MaxEdits /\ b \in {0} \cup Binaries
        BY DEF Shape
      <3>2. CASE file[a] = Absent \/ a \in Plugins
        BY <3>1, <3>2, ContentIs DEF Updated
      <3>3. CASE ~(file[a] = Absent \/ a \in Plugins)
        BY <2>1, <3>1, <3>3 DEF Updated, Content
      <3> QED BY <3>2, <3>3
    <2> QED BY <2>1, <2>2 DEF Entry
  <1>3. Entries(b) \in [Prepared(b) -> Entry]
    BY <1>1, <1>2 DEF Entries
  <1>4. Journal("applying", Entries(b)) \in Journals
    BY <1>1, <1>3, JournalIs DEF Journal, Statuses
  <1> QED BY <1>1, <1>3, <1>4 DEF Entries

LEMMA BeginSetupKeepsInv ==
    ASSUME Shape, Inv, NEW b \in Binaries, BeginSetup(b)
    PROVE  Inv'
  <1>1. CASE process' = Ended("unchanged") /\ UNCHANGED <<backups, runs>>
    BY <1>1, EndedKeepsInv DEF BeginSetup
  <1>2. CASE ~(process' = Ended("unchanged") /\ UNCHANGED <<backups, runs>>)
    <2> DEFINE j == Journal("applying", Entries(b))
    <2>1. /\ runs' = runs + 1 /\ UNCHANGED <<file, edits>>
          /\ backups' = Append(backups, j)
          /\ process' = [pc |-> "write", result |-> "none", of |-> runs + 1,
                         left |-> Prepared(b), journal |-> backups'[runs + 1],
                         seen |-> edits]
      BY <1>2 DEF BeginSetup
    <2>2. /\ j \in Journals /\ j.entries = Entries(b)
          /\ Applied(j) = {}
      BY PreparedIs DEF Journal, Applied
    <2> HIDE DEF j
    <2>3. backups \in Seq(Journals \cup {None}) /\ runs = Len(backups)
      BY DEF Inv, Types
    <2>4. /\ backups' \in Seq(Journals \cup {None}) /\ runs' = Len(backups')
          /\ runs + 1 \in DOMAIN backups' /\ runs + 1 \in Nat /\ backups'[runs + 1] = j
      BY <2>1, <2>2, <2>3
    <2>5. /\ process' \in Processes /\ process'.pc = "write" /\ process'.result = "none"
          /\ process'.of = Len(backups') /\ process'.left = DOMAIN j.entries
          /\ process'.journal = j /\ backups'[process'.of] = j /\ process'.seen = edits
      <3>1. edits \in Nat
        BY DEF Inv, Types, Shape
      <3> QED BY <2>1, <2>2, <2>3, <2>4, <3>1, PreparedIs DEF Processes, Results, Phases
    <2>6. Types(file, edits, backups, runs, process)'
      BY <2>1, <2>4, <2>5 DEF Inv, Types
    <2>7. Backed(backups, process)'
      BY <2>2, <2>4, <2>5, SameIs DEF Backed
    <2>8. Writing(file, backups, process)'
      BY <2>1, <2>2, <2>5, PreparedIs DEF Writing, IsOriginal
    <2> QED BY <2>5, <2>6, <2>7, <2>8 DEF Inv, Undoing, Reported
  <1> QED BY <1>1, <1>2

\* A failure of setup turns it round: what is marked is to be undone, the rest is as
\* before.
LEMMA RollBackKeepsInv ==
    ASSUME Shape, Inv, process.pc \in {"write", "journal"},
           UNCHANGED <<file, edits, backups, runs>>, process' = RollBack
    PROVE  Inv'
  <1> DEFINE j == process.journal
  <1>1. /\ process \in Processes /\ j \in Journals
        /\ process.result = "none"
        /\ process.left = DOMAIN j.entries \ Applied(j)
        /\ Same(backups[process.of], j)
        /\ \A a \in process.left : IsOriginal(file, j, a)
    BY DEF Inv, Types, Backed, Writing, Processes, Phases
  <1>2. Applied(j) \subseteq DOMAIN j.entries /\ Applied(j) \subseteq DOMAIN Agents
    BY <1>1, JournalParts DEF Applied
  <1>3. /\ process' \in Processes /\ process'.pc = "undo" /\ process'.left = Applied(j)
        /\ process'.result = "none" /\ process'.of = process.of /\ process'.journal = j
        /\ process'.seen = process.seen
    BY <1>1, <1>2 DEF RollBack, Processes, Phases
  <1>4. Types(file, edits, backups, runs, process)'
    BY <1>3 DEF Inv, Types
  <1>5. Backed(backups, process)'
    BY <1>3 DEF Inv, Backed
  <1>6. Undoing(file, process)'
    BY <1>1, <1>2, <1>3 DEF Undoing, IsOriginal
  <1> QED BY <1>3, <1>4, <1>5, <1>6 DEF Inv, Writing, Reported

LEMMA WriteFileKeepsInv ==
    ASSUME Shape, Inv, WriteFile
    PROVE  Inv'
  <1>1. CASE process' = RollBack /\ UNCHANGED file
    BY <1>1, RollBackKeepsInv DEF WriteFile
  <1>2. CASE ~(process' = RollBack /\ UNCHANGED file)
    <2>1. PICK a \in process.left :
             /\ file' = [file EXCEPT ![a] = process.journal.entries[a].installed]
             /\ process' = [process EXCEPT !.pc = "journal", !.left = @ \ {a},
                                           !.journal = Marked(@, a, TRUE)]
      BY <1>2 DEF WriteFile
    <2> DEFINE i == process.journal
               j == Marked(i, a, TRUE)
    <2>2. /\ process.pc = "write" /\ UNCHANGED <<edits, backups, runs>>
      BY DEF WriteFile
    <2>3. /\ process \in Processes /\ i \in Journals
          /\ process.result = "none" /\ process.of = Len(backups)
          /\ process.left = DOMAIN i.entries \ Applied(i)
          /\ Same(backups[process.of], i)
          /\ \A b \in DOMAIN i.entries :
                IF b \in process.left
                THEN /\ IsOriginal(file, i, b)
                     /\ file[b] = i.entries[b].original \/ Newer(file, process, b)
                ELSE IsInstalled(file, i, b)
      BY <2>2 DEF Inv, Types, Backed, Writing, Processes, Phases
    <2>4. a \in DOMAIN i.entries /\ a \in DOMAIN Agents /\ DOMAIN i.entries \subseteq DOMAIN Agents
      BY <2>3, JournalParts
    <2>5. /\ j \in Journals /\ Same(i, j) /\ Applied(j) = Applied(i) \cup {a}
      BY <2>3, <2>4, MarkedIs
    <2>6. /\ process' \in Processes /\ process'.pc = "journal" /\ process'.left = process.left \ {a}
          /\ process'.result = "none" /\ process'.of = process.of /\ process'.journal = j
          /\ process'.seen = process.seen
      BY <2>1, <2>3, <2>5 DEF Processes, Phases
    <2> HIDE DEF j
    <2>7. i.entries[a].installed \in Content
      BY <2>3, <2>4, EntryIs
    <2>8. /\ file' \in [DOMAIN Agents -> Content \cup {Absent}]
          /\ \A b \in DOMAIN Agents :
                file'[b] = IF b = a THEN i.entries[a].installed ELSE file[b]
      BY <2>1, <2>4, <2>7 DEF Inv, Types
    <2>9. Types(file, edits, backups, runs, process)'
      BY <2>2, <2>6, <2>8 DEF Inv, Types
    <2>10. Backed(backups, process)'
      <3>1. Same(backups[process.of], j)
        BY <2>3, <2>5, SameIs
      <3> QED BY <2>2, <2>5, <2>6, <3>1 DEF Inv, Backed
    <2>11. Writing(file, backups, process)'
      <3>1. process'.left = DOMAIN j.entries \ Applied(j)
        BY <2>3, <2>5, <2>6 DEF Same
      <3>2. ASSUME NEW b \in DOMAIN j.entries
            PROVE  IF b \in process'.left
                   THEN /\ IsOriginal(file', j, b)
                        /\ file'[b] = j.entries[b].original \/ Newer(file', process', b)
                   ELSE IsInstalled(file', j, b)
        <4>1. /\ b \in DOMAIN i.entries /\ b \in DOMAIN Agents
              /\ i.entries[b].original = j.entries[b].original
              /\ i.entries[b].installed = j.entries[b].installed
          BY <2>4, <2>5, <3>2 DEF Same
        <4> QED BY <2>3, <2>6, <2>8, <4>1 DEF IsInstalled, IsOriginal, Newer
      <3> QED BY <2>2, <2>3, <2>6, <3>1, <3>2 DEF Writing
    <2> QED BY <2>6, <2>9, <2>10, <2>11 DEF Inv, Undoing, Reported
  <1> QED BY <1>1, <1>2

LEMMA WriteJournalKeepsInv ==
    ASSUME Shape, Inv, WriteJournal
    PROVE  Inv'
  <1>1. CASE process' = RollBack /\ UNCHANGED backups
    BY <1>1, RollBackKeepsInv DEF WriteJournal
  <1>2. CASE ~(process' = RollBack /\ UNCHANGED backups)
    <2>1. /\ process.pc = "journal" /\ UNCHANGED <<file, edits, runs>>
          /\ backups' = [backups EXCEPT ![process.of] = process.journal]
          /\ process' = [process EXCEPT !.pc = "write"]
      BY <1>2 DEF WriteJournal
    <2>2. /\ process \in Processes /\ process.journal \in Journals
          /\ process.of \in DOMAIN backups /\ backups \in Seq(Journals \cup {None})
      BY <2>1 DEF Inv, Types, Backed
    <2>3. /\ backups' \in Seq(Journals \cup {None})
          /\ Len(backups') = Len(backups) /\ DOMAIN backups' = DOMAIN backups
          /\ backups'[process.of] = process.journal
      BY <2>1, <2>2, Rewritten
    <2>4. /\ process' \in Processes /\ process'.pc = "write" /\ process'.left = process.left
          /\ process'.result = process.result /\ process'.of = process.of
          /\ process'.journal = process.journal /\ process'.seen = process.seen
      BY <2>1, <2>2 DEF Processes, Phases
    <2>5. Types(file, edits, backups, runs, process)'
      BY <2>1, <2>3, <2>4 DEF Inv, Types
    <2>6. Backed(backups, process)'
      BY <2>2, <2>3, <2>4, SameIs DEF Backed
    <2>7. Writing(file, backups, process)'
      BY <2>1, <2>3, <2>4 DEF Inv, Writing, Newer
    <2> QED BY <2>4, <2>5, <2>6, <2>7 DEF Inv, Undoing, Reported
  <1> QED BY <1>1, <1>2

LEMMA EditsAre ==
    ASSUME Shape, Inv
    PROVE  edits \in Nat /\ 0 <= edits
  BY DEF Inv, Types, Shape

\* A report closes the transaction on disk, and may prune older ones.
LEMMA ReportKeepsInv ==
    ASSUME Shape, Inv, process.pc # "ended", UNCHANGED <<file, edits, runs>>,
           NEW r \in {"committed", "failed", "rolled-back", "restored", "restored rest"},
           process' = [Ended(r) EXCEPT !.of = process.of],
           backups' \in Seq(Journals \cup {None}), Len(backups') = Len(backups),
           backups'[process.of] \in Journals,
           r \in {"committed", "rolled-back", "restored"} =>
              \A a \in DOMAIN backups'[process.of].entries :
                 IF r = "committed" THEN /\ IsInstalled(file, backups'[process.of], a)
                                         /\ backups'[process.of].entries[a].applied
                 ELSE IsOriginal(file, backups'[process.of], a)
    PROVE  Inv'
  <1>1. process \in Processes /\ process.of \in DOMAIN backups
    BY DEF Inv, Types, Backed
  <1>2. /\ process' \in Processes /\ process'.pc = "ended" /\ process'.result = r
        /\ process'.of = process.of /\ process'.seen = 0
    BY <1>1 DEF Ended, Processes, Results, Phases
  <1>3. process.of \in DOMAIN backups'
    <2>1. backups \in Seq(Journals \cup {None})
      BY DEF Inv, Types
    <2>2. DOMAIN backups = DOMAIN backups'
      BY <2>1, SameLength
    <2> QED BY <1>1, <2>2
  <1>4. Types(file, edits, backups, runs, process)'
    <2>1. 0 <= edits
      BY EditsAre
    <2>2. process'.seen <= edits'
      BY <1>2, <2>1
    <2>3. runs' = Len(backups') /\ edits' \in 0..MaxEdits
          /\ file' \in [DOMAIN Agents -> Content \cup {Absent}]
      BY DEF Inv, Types
    <2> QED BY <1>2, <2>2, <2>3 DEF Types
  <1>5. Reported(file, backups, process)'
    BY <1>2, <1>3 DEF Reported, IsInstalled, IsOriginal
  <1> QED BY <1>2, <1>4, <1>5 DEF Inv, Backed, Writing, Undoing

LEMMA ClosedIs ==
    ASSUME Inv, process.pc # "ended", NEW s \in Statuses
    PROVE  /\ Closed(process.of, s) \in Seq(Journals \cup {None})
           /\ Len(Closed(process.of, s)) = Len(backups)
           /\ Closed(process.of, s)[process.of] \in Journals
           /\ Closed(process.of, s)[process.of].entries = backups[process.of].entries
  <1> DEFINE j == WithStatus(backups[process.of], s)
  <1>1. /\ backups \in Seq(Journals \cup {None}) /\ process.of \in DOMAIN backups
        /\ backups[process.of] \in Journals
    BY DEF Inv, Types, Backed
  <1>2. j \in Journals /\ j.entries = backups[process.of].entries
    BY <1>1, StatusIs
  <1> HIDE DEF j
  <1>3. Closed(process.of, s) = [backups EXCEPT ![process.of] = j]
    BY DEF Closed, j
  <1> QED BY <1>1, <1>2, <1>3, Rewritten

LEMMA CommitKeepsInv ==
    ASSUME Shape, Inv, Commit
    PROVE  Inv'
  <1>1. /\ process.pc = "write" /\ process.left = {} /\ UNCHANGED <<file, edits, runs>>
        /\ backups \in Seq(Journals \cup {None}) /\ process.of \in DOMAIN backups
        /\ backups[process.of] \in Journals /\ process.of = Len(backups)
        /\ backups[process.of].entries = process.journal.entries
    BY DEF Commit, Inv, Types, Backed, Writing
  <1>2. CASE process' = [Ended("failed") EXCEPT !.of = process.of] /\ UNCHANGED backups
    BY <1>1, <1>2, ReportKeepsInv
  <1>3. CASE /\ backups' = Pruned(Closed(process.of, "committed"))
             /\ process' = [Ended("committed") EXCEPT !.of = process.of]
    <2> DEFINE all == Closed(process.of, "committed")
    <2>1. /\ all \in Seq(Journals \cup {None}) /\ Len(all) = Len(backups)
          /\ all[process.of] \in Journals
          /\ all[process.of].entries = backups[process.of].entries
      BY <1>1, ClosedIs DEF Statuses
    <2> HIDE DEF all
    <2>2. /\ Pruned(all) \in Seq(Journals \cup {None}) /\ Len(Pruned(all)) = Len(all)
          /\ Pruned(all)[process.of] = all[process.of]
      <3>1. DOMAIN all = 1..Len(all) /\ process.of \in 1..Len(all)
        BY <1>1, <2>1
      <3>2. ~(process.of + Keep <= Len(all))
        BY <1>1, <2>1, <3>1 DEF Shape
      <3> QED BY <2>1, <3>1, <3>2 DEF Pruned
    <2>3. \A a \in DOMAIN process.journal.entries :
             IsInstalled(file, process.journal, a) /\ process.journal.entries[a].applied
      BY <1>1 DEF Inv, Writing, Applied
    <2>4. backups' = Pruned(all)
      BY <1>3 DEF all
    <2>5. \A a \in DOMAIN backups'[process.of].entries :
             IsInstalled(file, backups'[process.of], a) /\ backups'[process.of].entries[a].applied
      BY <1>1, <2>1, <2>2, <2>3, <2>4 DEF IsInstalled
    <2> QED BY <1>1, <1>3, <2>1, <2>2, <2>4, <2>5, ReportKeepsInv
  <1> QED BY <1>2, <1>3 DEF Commit

--------------------------------------------------------------------------------
\* Rolling back, and restoring

LEMMA BeginRestoreKeepsInv ==
    ASSUME Shape, Inv, NEW t \in DOMAIN backups, BeginRestore(t)
    PROVE  Inv'
  <1> DEFINE j == backups[t]
             kind == IF Whole(j) THEN "whole" ELSE "part"
  <1>1. CASE process' = Ended("refused")
    BY <1>1, EndedKeepsInv DEF BeginRestore
  <1>2. CASE process' # Ended("refused")
    <2>1. /\ UNCHANGED <<file, edits, backups, runs>>
          /\ process' = [pc |-> "undo", of |-> t, result |-> kind,
                         left |-> Applied(j), journal |-> j, seen |-> edits]
      BY <1>2 DEF BeginRestore
    <2>2. j \in Journals /\ t \in Nat
      BY DEF Inv, Types, BeginRestore
    <2>3. Applied(j) \subseteq DOMAIN Agents
      BY <2>2, JournalParts DEF Applied
    <2>4. /\ kind \in {"whole", "part"} /\ kind \in Results
          /\ kind = "whole" => Applied(j) = DOMAIN j.entries
      BY DEF Whole, Results
    <2> HIDE DEF j, kind
    <2>5. /\ process' \in Processes /\ process'.pc = "undo" /\ process'.left = Applied(j)
          /\ process'.result = kind /\ process'.of = t /\ process'.journal = j
          /\ process'.seen = edits
      BY <2>1, <2>2, <2>3, <2>4 DEF Processes, Phases, Inv, Types
    <2>6. Types(file, edits, backups, runs, process)'
      BY <2>1, <2>5 DEF Inv, Types
    <2>7. Backed(backups, process)'
      BY <2>1, <2>2, <2>5, SameIs DEF Backed, j
    <2>8. Undoing(file, process)'
      BY <2>4, <2>5 DEF Undoing
    <2> QED BY <2>5, <2>6, <2>7, <2>8 DEF Inv, Writing, Reported
  <1> QED BY <1>1, <1>2

\* What is looked at is what setup installed, or the undoing ends.
LEMMA UndoFileKeepsInv ==
    ASSUME Shape, Inv, UndoFile
    PROVE  Inv'
  <1>1. CASE process' = Incomplete
    BY <1>1, IncompleteKeepsInv DEF UndoFile
  <1>2. CASE process' # Incomplete
    <2>1. PICK a \in process.left :
             /\ Last(a, process.left) /\ Unchanged(process.journal, a)
             /\ process' = [process EXCEPT !.pc = "put", !.seen = edits]
      BY <1>2 DEF UndoFile
    <2>2. process.pc = "undo" /\ UNCHANGED <<file, edits, backups, runs>>
      BY DEF UndoFile
    <2>3. process \in Processes /\ edits \in Nat /\ process.left \subseteq Nat
      BY DEF Inv, Types, Processes, Shape
    <2>4. /\ process' \in Processes /\ process'.pc = "put" /\ process'.left = process.left
          /\ process'.result = process.result /\ process'.of = process.of
          /\ process'.journal = process.journal /\ process'.seen = edits
      BY <2>1, <2>3 DEF Processes, Phases
    <2>5. Types(file, edits, backups, runs, process)'
      BY <2>2, <2>3, <2>4 DEF Inv, Types
    <2>6. Backed(backups, process)'
      BY <2>2, <2>4 DEF Inv, Backed
    <2>7. \A b \in process.left : Last(b, process.left) => b = a
      BY <2>1, <2>3 DEF Last
    <2>8. Undoing(file, process)'
      BY <2>1, <2>2, <2>4, <2>7 DEF Inv, Undoing, Unchanged
    <2> QED BY <2>4, <2>5, <2>6, <2>8 DEF Inv, Writing, Reported
  <1> QED BY <1>1, <1>2

LEMMA PutBackKeepsInv ==
    ASSUME Shape, Inv, PutBack
    PROVE  Inv'
  <1>1. CASE process' = Incomplete /\ UNCHANGED file
    BY <1>1, IncompleteKeepsInv DEF PutBack
  <1>2. CASE ~(process' = Incomplete /\ UNCHANGED file)
    <2>1. PICK a \in process.left :
             /\ file' = [file EXCEPT ![a] = process.journal.entries[a].original]
             /\ process' = [process EXCEPT !.pc = "mark", !.left = @ \ {a},
                                           !.journal = Marked(@, a, FALSE)]
      BY <1>2 DEF PutBack
    <2> DEFINE i == process.journal
               j == Marked(i, a, FALSE)
    <2>2. /\ process.pc = "put" /\ UNCHANGED <<edits, backups, runs>>
      BY DEF PutBack
    <2>3. /\ process \in Processes /\ i \in Journals
          /\ process.left = Applied(i) /\ process.result \in {"none", "whole", "part"}
          /\ Same(backups[process.of], i)
          /\ process.result # "part" =>
                \A b \in DOMAIN i.entries \ process.left : IsOriginal(file, i, b)
      BY <2>2 DEF Inv, Types, Backed, Undoing, Processes, Phases
    <2>4. a \in DOMAIN i.entries /\ a \in DOMAIN Agents /\ DOMAIN i.entries \subseteq DOMAIN Agents
      BY <2>3, JournalParts DEF Applied
    <2>5. /\ j \in Journals /\ Same(i, j) /\ Applied(j) = Applied(i) \ {a}
      BY <2>3, <2>4, MarkedIs
    <2>6. /\ process' \in Processes /\ process'.pc = "mark" /\ process'.left = process.left \ {a}
          /\ process'.result = process.result /\ process'.of = process.of /\ process'.journal = j
          /\ process'.seen = process.seen
      BY <2>1, <2>3, <2>5 DEF Processes, Phases
    <2> HIDE DEF j
    <2>7. i.entries[a].original \in Content \cup {Absent}
      BY <2>3, <2>4, EntryIs
    <2>8. /\ file' \in [DOMAIN Agents -> Content \cup {Absent}]
          /\ \A b \in DOMAIN Agents :
                file'[b] = IF b = a THEN i.entries[a].original ELSE file[b]
      BY <2>1, <2>4, <2>7 DEF Inv, Types
    <2>9. Types(file, edits, backups, runs, process)'
      BY <2>2, <2>6, <2>8 DEF Inv, Types
    <2>10. Backed(backups, process)'
      <3>1. Same(backups[process.of], j)
        BY <2>3, <2>5, SameIs
      <3> QED BY <2>2, <2>5, <2>6, <3>1 DEF Inv, Backed
    <2>11. Undoing(file, process)'
      <3>1. process'.left = Applied(j)
        BY <2>3, <2>5, <2>6
      <3>2. ASSUME process.result # "part", NEW b \in DOMAIN j.entries \ process'.left
            PROVE  IsOriginal(file', j, b)
        <4>1. /\ b \in DOMAIN i.entries /\ b \in DOMAIN Agents
              /\ i.entries[b].original = j.entries[b].original
          BY <2>4, <2>5, <3>2 DEF Same
        <4> QED BY <2>3, <2>6, <2>8, <3>2, <4>1 DEF IsOriginal
      <3> QED BY <2>3, <2>6, <3>1, <3>2 DEF Undoing
    <2> QED BY <2>6, <2>9, <2>10, <2>11 DEF Inv, Writing, Reported
  <1> QED BY <1>1, <1>2

LEMMA MarkUndoneKeepsInv ==
    ASSUME Shape, Inv, MarkUndone
    PROVE  Inv'
  <1>1. CASE process' = Incomplete /\ UNCHANGED backups
    BY <1>1, IncompleteKeepsInv DEF MarkUndone
  <1>2. CASE ~(process' = Incomplete /\ UNCHANGED backups)
    <2>1. /\ process.pc = "mark" /\ UNCHANGED <<file, edits, runs>>
          /\ backups' = [backups EXCEPT ![process.of] = process.journal]
          /\ process' = [process EXCEPT !.pc = "undo"]
      BY <1>2 DEF MarkUndone
    <2>2. /\ process \in Processes /\ process.journal \in Journals
          /\ process.of \in DOMAIN backups /\ backups \in Seq(Journals \cup {None})
      BY <2>1 DEF Inv, Types, Backed
    <2>3. /\ backups' \in Seq(Journals \cup {None})
          /\ Len(backups') = Len(backups) /\ DOMAIN backups' = DOMAIN backups
          /\ backups'[process.of] = process.journal
      BY <2>1, <2>2, Rewritten
    <2>4. /\ process' \in Processes /\ process'.pc = "undo" /\ process'.left = process.left
          /\ process'.result = process.result /\ process'.of = process.of
          /\ process'.journal = process.journal /\ process'.seen = process.seen
      BY <2>1, <2>2 DEF Processes, Phases
    <2>5. Types(file, edits, backups, runs, process)'
      BY <2>1, <2>3, <2>4 DEF Inv, Types
    <2>6. Backed(backups, process)'
      BY <2>2, <2>3, <2>4, SameIs DEF Backed
    <2>7. Undoing(file, process)'
      BY <2>1, <2>4 DEF Inv, Undoing
    <2> QED BY <2>4, <2>5, <2>6, <2>7 DEF Inv, Writing, Reported
  <1> QED BY <1>1, <1>2

LEMMA NoteKeepsInv ==
    ASSUME Shape, Inv, NoteIncomplete
    PROVE  Inv'
  <1>1. CASE UNCHANGED backups
    BY <1>1, EndedKeepsInv DEF NoteIncomplete
  <1>2. CASE backups' = [backups EXCEPT ![process.of] =
                WithStatus(process.journal, "rollback-incomplete")]
    <2> DEFINE j == WithStatus(process.journal, "rollback-incomplete")
    <2>1. /\ process.pc # "ended" /\ process' = Ended("incomplete")
          /\ UNCHANGED <<file, edits, runs>>
      BY DEF NoteIncomplete
    <2>2. /\ process.journal \in Journals /\ process.of \in DOMAIN backups
          /\ backups \in Seq(Journals \cup {None})
      BY <2>1 DEF Inv, Types, Backed
    <2>3. j \in Journals
      BY <2>2, StatusIs DEF Statuses
    <2> HIDE DEF j
    <2>4. backups' \in Seq(Journals \cup {None}) /\ Len(backups') = Len(backups)
      BY <1>2, <2>2, <2>3, Rewritten DEF j
    <2>5. /\ process' \in Processes /\ process'.pc = "ended"
          /\ process'.result = "incomplete" /\ process'.seen = 0
      BY <2>1 DEF Ended, Processes, Results, Phases
    <2>6. Types(file, edits, backups, runs, process)'
      BY <2>1, <2>4, <2>5 DEF Inv, Types, Shape
    <2> QED BY <2>5, <2>6 DEF Inv, Backed, Writing, Undoing, Reported
  <1> QED BY <1>1, <1>2 DEF NoteIncomplete

LEMMA EndUndoKeepsInv ==
    ASSUME Shape, Inv, EndUndo
    PROVE  Inv'
  <1>1. /\ process.pc = "undo" /\ process.left = {} /\ UNCHANGED <<file, edits, runs>>
        /\ backups \in Seq(Journals \cup {None}) /\ process.of \in DOMAIN backups
        /\ backups[process.of] \in Journals /\ Same(backups[process.of], process.journal)
        /\ process.result \in {"none", "whole", "part"}
        /\ process.result # "part" =>
              \A a \in DOMAIN process.journal.entries : IsOriginal(file, process.journal, a)
    BY DEF EndUndo, Inv, Types, Backed, Undoing
  <1>2. /\ Undone \in {"rolled-back", "restored", "restored rest"}
        /\ Undone # "restored rest" => process.result # "part"
    BY <1>1 DEF Undone
  <1>3. Undone # "restored rest" =>
           \A a \in DOMAIN backups[process.of].entries : IsOriginal(file, backups[process.of], a)
    BY <1>1, <1>2 DEF Same, IsOriginal
  <1>4. CASE process' = Ended("incomplete") /\ UNCHANGED backups
    BY <1>1, <1>4, EndedKeepsInv
  <1>5. CASE process' = [Ended(Undone) EXCEPT !.of = process.of] /\ UNCHANGED backups
    BY <1>1, <1>2, <1>3, <1>5, ReportKeepsInv
  <1>6. CASE /\ process' = [Ended(Undone) EXCEPT !.of = process.of]
             /\ backups' = Closed(process.of,
                    IF Undone = "rolled-back" THEN "rolled-back" ELSE "restored")
    <2> DEFINE s == IF Undone = "rolled-back" THEN "rolled-back" ELSE "restored"
    <2>1. s \in Statuses
      BY DEF Statuses
    <2> HIDE DEF s
    <2>2. /\ backups' \in Seq(Journals \cup {None}) /\ Len(backups') = Len(backups)
          /\ backups'[process.of] \in Journals
          /\ backups'[process.of].entries = backups[process.of].entries
      BY <1>1, <1>6, <2>1, ClosedIs DEF s
    <2>3. Undone # "restored rest" =>
             \A a \in DOMAIN backups'[process.of].entries : IsOriginal(file, backups'[process.of], a)
      BY <1>3, <2>2 DEF IsOriginal
    <2> QED BY <1>1, <1>2, <1>6, <2>2, <2>3, ReportKeepsInv
  <1> QED BY <1>4, <1>5, <1>6 DEF EndUndo

--------------------------------------------------------------------------------

LEMMA StepKeepsInv ==
    ASSUME Shape, Inv, [Next]_vars
    PROVE  Inv'
  <1>1. CASE UNCHANGED vars
    BY <1>1 DEF vars, Inv, Types, Backed, Writing, Undoing, Reported, IsInstalled, IsOriginal,
                   Newer
  <1>2. ASSUME NEW a \in DOMAIN Agents, UserEdits(a) PROVE Inv'
    BY <1>2, EditKeepsInv
  <1>3. ASSUME NEW b \in Binaries, BeginSetup(b) PROVE Inv'
    BY <1>3, BeginSetupKeepsInv
  <1>4. ASSUME NEW t \in DOMAIN backups, BeginRestore(t) PROVE Inv'
    BY <1>4, BeginRestoreKeepsInv
  <1>5. CASE Dies
    BY <1>5, EndedKeepsInv DEF Dies
  <1> QED BY <1>1, <1>2, <1>3, <1>4, <1>5, WriteFileKeepsInv, WriteJournalKeepsInv,
             CommitKeepsInv, UndoFileKeepsInv, PutBackKeepsInv, MarkUndoneKeepsInv,
             NoteKeepsInv, EndUndoKeepsInv DEF Next

\* Only setup and restore replace a configuration without being a user's edit, and
\* they know what they replace unless it is newer than what they have seen.
LEMMA StepKeepsReplaced ==
    ASSUME Shape, Inv, [Next]_vars, edits' = edits,
           NEW a \in DOMAIN file, file'[a] # file[a]
    PROVE  Kept(a) \/ WrittenSince(a, process.seen)
  <1> DEFINE i == process.journal
             t == process.of
  <1>1. edits \in Nat
    BY DEF Inv, Types, Shape
  <1>2. process.pc \in {"write", "put"} /\ (WriteFile \/ PutBack)
    <2>1. ~ \E b \in DOMAIN Agents : UserEdits(b)
      BY <1>1 DEF UserEdits
    <2> QED BY <2>1 DEF Next, vars, BeginSetup, BeginRestore, Dies, WriteFile, WriteJournal,
                        Commit, UndoFile, PutBack, MarkUndone, NoteIncomplete, EndUndo
  <1>3. /\ i \in Journals /\ t \in DOMAIN backups /\ backups[t] \in Journals
        /\ Same(backups[t], i) /\ backups[t] # None
    BY <1>2 DEF Inv, Backed, Shape
  <1>4. file \in [DOMAIN Agents -> Content \cup {Absent}]
    BY DEF Inv, Types
  <1>5. CASE Newer(file, process, a)
    BY <1>5 DEF Newer, WrittenSince
  <1>6. CASE WriteFile /\ ~Newer(file, process, a)
    <2>1. a \in process.left
      BY <1>4, <1>6 DEF WriteFile
    <2>2. process.pc = "write"
      BY <1>6 DEF WriteFile
    <2>3. a \in DOMAIN i.entries /\ file[a] = i.entries[a].original
      BY <1>6, <2>1, <2>2 DEF Inv, Writing
    <2> QED BY <1>3, <2>3 DEF Same, Kept
  <1>7. CASE PutBack /\ ~Newer(file, process, a)
    <2>1. a \in process.left /\ Last(a, process.left)
      BY <1>4, <1>7 DEF PutBack
    <2>2. process.pc = "put"
      BY <1>7 DEF PutBack
    <2>3. a \in DOMAIN i.entries /\ file[a] = i.entries[a].installed
      BY <1>7, <2>1, <2>2 DEF Inv, Undoing, Applied
    <2> QED BY <1>3, <2>3 DEF Same, Kept
  <1> QED BY <1>2, <1>5, <1>6, <1>7

\* Whatever fails on the way: a transaction that was rolled back or restored left no
\* hook behind, and one that is committed is whole.
THEOREM OutcomesAreTrue ==
    ASSUME Shape
    PROVE  Spec => []TransactionsAreWhole
  <1>1. Init => Inv
    BY InitHasInv
  <1>2. Inv /\ [Next]_vars => Inv'
    BY StepKeepsInv
  <1>3. Inv => TransactionsAreWhole
    BY DEF Inv, Reported, IsInstalled, IsOriginal, TransactionsAreWhole, UndoneIsOriginal,
           CommittedIsWhole
  <1> QED BY <1>1, <1>2, <1>3, PTL DEF Spec

\* Setup and restore replace only what a backup holds, what a setup installed, and what
\* the user wrote after they had looked at the file for the last time: whatever fails or
\* dies on the way, no edit is lost that was there to be seen.
THEOREM SeenEditsAreKept ==
    ASSUME Shape
    PROVE  Spec => ReplacedIsKept
  <1>1. Init => Inv
    BY InitHasInv
  <1>2. Inv /\ [Next]_vars => Inv'
    BY StepKeepsInv
  <1> DEFINE Replaces == edits' = edits => \A a \in DOMAIN file : file'[a] # file[a] =>
                             Kept(a) \/ WrittenSince(a, process.seen)
  <1>3. Inv /\ [Next]_vars => [Replaces]_<<file, edits>>
    BY StepKeepsReplaced
  <1> QED BY <1>1, <1>2, <1>3, PTL DEF Spec, ReplacedIsKept

--------------------------------------------------------------------------------
(* Sending text to an agent.  What the picker promises holds for any panes, tabs   *)
(* and texts, and however often it is opened, cancelled and confirmed.             *)

CONSTANTS Panes, Tabs, Texts, MaxOpenings
VARIABLES active, selection, requests, panes, status

Send == INSTANCE SendAgent

--------------------------------------------------------------------------------
(* The inductive invariant *)

\* One request or completion in each place, and the fields that are compared
Queries     == [generation : Nat]
Orders      == [generation : Nat, opening : Nat, pane : Panes \cup {None},
                text : Texts \cup {None}]
Discoveries == [generation : Nat, targets : SUBSET Panes]
AtMostOne(S) == \A x, y \in S : x = y

Places ==
    /\ pending \in [Send!Queues -> SUBSET (Queries \cup Orders)]
    /\ completed \in [Send!Queues -> SUBSET (Discoveries \cup [generation : Nat, ok : BOOLEAN])]
    /\ AtMostOne(working) /\ AtMostOne(completed["discover"])
    /\ \A s \in Send!Queues : AtMostOne(pending[s])
    /\ pending["send"] \subseteq Orders /\ Send!Serves("send") \subseteq Orders
    /\ pending["discover"] \subseteq Queries /\ Send!Serves("discover") \subseteq Queries
    /\ completed["discover"] \subseteq Discoveries

\* A request that the picker waits for is the last of its slot: it is not both
\* overtaken and still waited for.
Waits(s, g) ==
    \/ pending[s] # {} /\ \A r \in pending[s] : r.generation = g
    \/ pending[s] = {} /\ Send!Serves(s) # {} /\ \A r \in Send!Serves(s) : r.generation = g
    \/ pending[s] = {} /\ Send!Serves(s) = {} /\ \E c \in completed[s] : c.generation = g
PickerAwaited ==
    /\ picker.phase = "Discovering" => Waits("discover", picker.generation)
    /\ picker.phase = "Sending" => Waits("send", picker.generation)

\* A list belongs to the opening it was asked for.
Listed ==
    /\ picker.phase = "Discovering" => picker.generation = picker.opening
    /\ picker.phase \in {"Picking", "Sending"} =>
           picker.listed = picker.opening /\ picker.selected \in picker.targets

\* The drafts that were confirmed, delivered or not, are of different openings, and
\* the opening that is not confirmed has none.
DraftsConfirmed == pending["send"] \cup Send!Serves("send") \cup drafts
DraftedOnce ==
    /\ picker.opening <= requests
    /\ \A r \in DraftsConfirmed : r.opening \in 0..requests
    /\ \A q, r \in DraftsConfirmed : q.opening = r.opening => q = r
    /\ picker.phase \in {"Discovering", "Picking"} =>
           \A r \in DraftsConfirmed : r.opening # picker.opening

SendInv == Send!TypeOK /\ Places /\ PickerAwaited /\ Listed /\ DraftedOnce

--------------------------------------------------------------------------------
\* The picker starts closed, with nothing asked for.
LEMMA PickerStarts == Send!Init => SendInv
  <1> SUFFICES ASSUME Send!Init PROVE SendInv
    OBVIOUS
  <1>1. Send!TypeOK
    BY DEF Send!Init, Send!TypeOK, Send!Closed, Send!Pickers, Send!States
  <1>2. Send!Serves("discover") = {} /\ Send!Serves("send") = {} /\ DraftsConfirmed = {}
    BY DEF Send!Init, Send!Serves, DraftsConfirmed, Send!Queues
  <1> QED
    BY <1>1, <1>2 DEF Send!Init, SendInv, Places, AtMostOne, PickerAwaited, Listed,
                      DraftedOnce, Send!Closed, Send!Queues

\* What does not touch the picker or the queues keeps everything.
LEMMA QuietStep ==
  ASSUME SendInv, Send!TypeOK',
         UNCHANGED <<picker, requests, pending, working, completed, drafts>>
  PROVE  SendInv'
  BY ZenonT(40) DEF SendInv, Places, AtMostOne, PickerAwaited, Waits, Send!Serves, Listed,
                    DraftsConfirmed, DraftedOnce

\* Opening asks for a list under a number that nothing has.
LEMMA OpenIsSound == ASSUME SendInv, Send!Open PROVE SendInv'
  <1> USE DEF SendInv
  <1>0. selection[active] \in Texts \cup {None} /\ requests + 1 \in Nat
    BY DEF Send!TypeOK
  <1>1. /\ picker'.phase = "Discovering" /\ picker'.generation = requests + 1
        /\ picker'.opening = requests + 1 /\ picker' \in Send!Pickers
    <2>1. picker' = [phase |-> "Discovering", generation |-> requests + 1,
                     opening |-> requests + 1, text |-> selection[active],
                     targets |-> {}, listed |-> 0, selected |-> None]
      BY DEF Send!Open, Send!Closed
    <2> QED
      BY <1>0, <2>1 DEF Send!Pickers
  <1>2. /\ pending' \in [Send!Queues -> SUBSET (Queries \cup Orders)]
        /\ pending'["discover"] = {[generation |-> requests + 1]}
        /\ pending'["send"] = pending["send"] /\ pending'["discover"] \subseteq Queries
    BY <1>0 DEF Send!Open, Places, Send!Queues, Queries
  <1>3. Send!TypeOK'
    BY <1>1, <1>2 DEF Send!TypeOK, Send!Open
  <1>4. /\ \A z \in Send!Queues : Send!Serves(z)' = Send!Serves(z)
        /\ DraftsConfirmed' = DraftsConfirmed
    BY <1>2 DEF Send!Open, Send!Serves, DraftsConfirmed, Send!Queues
  <1>5. Places'
    BY <1>2, <1>4 DEF Places, AtMostOne, Send!Open, Send!Queues
  <1>6. PickerAwaited' /\ Listed'
    BY <1>1, <1>2 DEF PickerAwaited, Waits, Listed
  <1>7. DraftedOnce'
    BY <1>1, <1>4 DEF DraftedOnce, Send!Open, Send!TypeOK
  <1> QED
    BY <1>3, <1>5, <1>6, <1>7

\* The confirmed draft is the first of its opening.
LEMMA ConfirmIsSound == ASSUME SendInv, Send!Confirm PROVE SendInv'
  <1> USE DEF SendInv
  <1> DEFINE draft == [generation |-> requests + 1, opening |-> picker.opening,
                       pane |-> picker.selected, text |-> picker.text]
  <1>1. /\ picker'.phase = "Sending" /\ picker'.generation = requests + 1
        /\ picker'.opening = picker.opening /\ picker'.listed = picker.listed
        /\ picker'.selected = picker.selected /\ picker'.targets = picker.targets
        /\ picker' \in Send!Pickers
    <2>1. picker \in Send!Pickers /\ requests + 1 \in Nat
      BY DEF Send!TypeOK
    <2>2. picker' = [picker EXCEPT !.phase = "Sending", !.generation = requests + 1]
      BY DEF Send!Confirm, Send!Sends
    <2> QED
      BY <2>1, <2>2 DEF Send!Pickers
  <1>2. draft \in Orders
    BY DEF Send!TypeOK, Send!Pickers, Orders
  <1>3. /\ pending' \in [Send!Queues -> SUBSET (Queries \cup Orders)]
        /\ pending'["send"] = {draft} /\ pending'["discover"] = pending["discover"]
    BY <1>2 DEF Send!Confirm, Send!Sends, Places, Send!Queues
  <1>4. Send!TypeOK'
    BY <1>1, <1>3 DEF Send!TypeOK, Send!Confirm, Send!Sends
  <1>5. /\ \A z \in Send!Queues : Send!Serves(z)' = Send!Serves(z)
        /\ DraftsConfirmed' \subseteq DraftsConfirmed \cup {draft}
    BY <1>3 DEF Send!Confirm, Send!Sends, Send!Serves, DraftsConfirmed, Send!Queues
  <1> HIDE DEF draft
  <1>6. Places'
    BY <1>2, <1>3, <1>5 DEF Places, AtMostOne, Send!Confirm, Send!Sends, Send!Queues
  <1>7. draft.generation = requests + 1 /\ draft.opening = picker.opening
    BY DEF draft
  <1>8. PickerAwaited' /\ Listed'
    BY <1>1, <1>3, <1>7 DEF PickerAwaited, Waits, Listed, Send!Confirm
  <1>9. DraftedOnce'
    BY <1>1, <1>5, <1>7 DEF DraftedOnce, Send!Confirm, Send!Sends, Send!TypeOK, Send!Pickers
  <1> QED
    BY <1>4, <1>6, <1>8, <1>9

\* A closed picker waits for nothing.
LEMMA CancelIsSound == ASSUME SendInv, Send!Cancel PROVE SendInv'
  <1> USE DEF SendInv
  <1>1. picker'.phase = "Closed" /\ picker'.opening = 0 /\ picker' \in Send!Pickers
    BY DEF Send!Cancel, Send!Closed, Send!Pickers
  <1>2. Send!TypeOK'
    BY <1>1 DEF Send!TypeOK, Send!Cancel
  <1>3. /\ \A z \in Send!Queues : Send!Serves(z)' = Send!Serves(z)
        /\ DraftsConfirmed' = DraftsConfirmed
    BY DEF Send!Cancel, Send!Serves, DraftsConfirmed, Send!Queues
  <1>4. Places'
    BY <1>3 DEF Places, AtMostOne, Send!Cancel, Send!Queues
  <1>5. DraftedOnce'
    BY <1>1, <1>3 DEF DraftedOnce, Send!Cancel, Send!TypeOK
  <1> QED
    BY <1>1, <1>2, <1>4, <1>5 DEF PickerAwaited, Listed

\* The user moves among the rows of the list.
LEMMA ChooseIsSound == ASSUME SendInv, NEW p \in Panes, Send!Choose(p) PROVE SendInv'
  <1> USE DEF SendInv
  <1>1. /\ picker'.phase = "Picking" /\ picker.phase = "Picking"
        /\ picker'.opening = picker.opening /\ picker'.listed = picker.listed
        /\ picker'.selected = p /\ picker'.targets = picker.targets
        /\ p \in picker.targets /\ picker' \in Send!Pickers
    BY DEF Send!Choose, Send!TypeOK, Send!Pickers
  <1>2. Send!TypeOK'
    BY <1>1 DEF Send!TypeOK, Send!Choose
  <1>3. /\ \A z \in Send!Queues : Send!Serves(z)' = Send!Serves(z)
        /\ DraftsConfirmed' = DraftsConfirmed
    BY DEF Send!Choose, Send!Serves, DraftsConfirmed, Send!Queues
  <1>4. Places'
    BY <1>3 DEF Places, AtMostOne, Send!Choose, Send!Queues
  <1>5. DraftedOnce'
    BY <1>1, <1>3 DEF DraftedOnce, Send!Choose
  <1> QED
    BY <1>1, <1>2, <1>4, <1>5 DEF PickerAwaited, Listed

--------------------------------------------------------------------------------
\* What a discovery makes of the picker: it stays as it is when the discovery is
\* not the one it waits for, and else it shows its own list or closes.
LEMMA DiscoveryTaken ==
  ASSUME SendInv, NEW p, p = Send!TakeDiscovery(picker)
  PROVE  /\ p \in Send!Pickers
         /\ \/ p = Send!Closed
            \/ /\ p = picker
               /\ p.phase = "Discovering" =>
                      \A c \in completed["discover"] : c.generation # p.generation
            \/ /\ p.phase = "Picking" /\ picker.phase = "Discovering"
               /\ p.opening = picker.opening /\ p.listed = p.opening
               /\ p.selected \in p.targets
  <1> USE DEF SendInv
  <1>1. picker \in Send!Pickers /\ Send!Closed \in Send!Pickers
    BY DEF Send!TypeOK, Send!Closed, Send!Pickers
  <1>2. CASE completed["discover"] = {}
    BY <1>1, <1>2 DEF Send!TakeDiscovery
  <1>3. CASE completed["discover"] # {}
    <2>1. PICK c \in completed["discover"] : p = Send!Discovered(picker, c)
      BY <1>3 DEF Send!TakeDiscovery
    <2>2. \A d \in completed["discover"] : d = c
      BY DEF Places, AtMostOne
    <2>3. c \in Discoveries
      BY DEF Places
    <2>4. CASE picker.phase # "Discovering" \/ c.generation # picker.generation
      BY <1>1, <2>1, <2>2, <2>4 DEF Send!Discovered
    <2>5. CASE picker.phase = "Discovering" /\ c.generation = picker.generation
                /\ c.targets = {}
      BY <1>1, <2>1, <2>5 DEF Send!Discovered
    <2>6. CASE picker.phase = "Discovering" /\ c.generation = picker.generation
                /\ c.targets # {}
      <3> DEFINE row == CHOOSE x \in c.targets : TRUE
      <3>1. row \in c.targets
        BY <2>6
      <3> HIDE DEF row
      <3>2. p = [picker EXCEPT !.phase = "Picking", !.targets = c.targets,
                               !.listed = c.generation, !.selected = row]
        BY <2>1, <2>6 DEF Send!Discovered, row
      <3>3. p \in Send!Pickers /\ p.phase = "Picking" /\ p.opening = picker.opening
            /\ p.listed = c.generation /\ p.selected = row /\ p.targets = c.targets
        BY <1>1, <2>3, <3>1, <3>2 DEF Send!Pickers, Discoveries
      <3>4. c.generation = picker.opening
        BY <2>6 DEF Listed
      <3> QED
        BY <2>6, <3>1, <3>3, <3>4
    <2> QED
      BY <2>4, <2>5, <2>6
  <1> QED
    BY <1>2, <1>3

\* A completion that the picker waits for is used when it is taken.
LEMMA TakingIsSound == ASSUME SendInv, Send!TakeCompletions PROVE SendInv'
  <1> USE DEF SendInv
  <1> DEFINE p == Send!TakeDiscovery(picker)
  <1>1. /\ p \in Send!Pickers
        /\ \/ p = Send!Closed
           \/ /\ p = picker
              /\ p.phase = "Discovering" =>
                     \A c \in completed["discover"] : c.generation # p.generation
           \/ /\ p.phase = "Picking" /\ picker.phase = "Discovering"
              /\ p.opening = picker.opening /\ p.listed = p.opening
              /\ p.selected \in p.targets
    BY DiscoveryTaken
  <1>2. Send!TakeSend(p) /\ completed' = [s \in Send!Queues |-> {}]
        /\ UNCHANGED <<active, requests, pending, working, panes, drafts>>
    BY DEF Send!TakeCompletions
  <1> HIDE DEF p
  <1>3. \/ picker' = Send!Closed
        \/ picker' = p /\ Send!Ended(p) = {}
    BY <1>2 DEF Send!TakeSend
  <1>4. selection' \in [Tabs -> Texts \cup {None}]
    <2>1. \A ok \in BOOLEAN :
             (IF ok THEN [selection EXCEPT ![active] = None] ELSE selection)
                 \in [Tabs -> Texts \cup {None}]
      BY DEF Send!TypeOK
    <2> QED
      BY <1>2, <2>1 DEF Send!TakeSend, Send!TypeOK
  <1>5. Send!Closed \in Send!Pickers /\ Send!Closed.phase = "Closed" /\ Send!Closed.opening = 0
    BY DEF Send!Closed, Send!Pickers
  <1>6. Send!TypeOK'
    BY <1>1, <1>2, <1>3, <1>4, <1>5 DEF Send!TypeOK
  <1>7. /\ \A z \in Send!Queues : Send!Serves(z)' = Send!Serves(z)
        /\ DraftsConfirmed' = DraftsConfirmed
    BY <1>2 DEF Send!Serves, DraftsConfirmed, Send!Queues
  <1>8. Places'
    BY <1>2, <1>7 DEF Places, AtMostOne, Send!Queues
  <1>9. CASE picker' = Send!Closed
    BY <1>2, <1>5, <1>6, <1>7, <1>8, <1>9 DEF PickerAwaited, Listed, DraftedOnce, Send!TypeOK
  <1>10. CASE picker' = p /\ Send!Ended(p) = {} /\ p = picker
    <2>1. Listed' /\ DraftedOnce'
      BY <1>2, <1>7, <1>10 DEF Listed, DraftedOnce
    <2>2. ASSUME picker.phase = "Discovering"
          PROVE  Waits("discover", picker.generation)'
      <3>1. \A c \in completed["discover"] : c.generation # picker.generation
        BY <1>1, <1>5, <1>10, <2>2 DEF Send!Closed
      <3>2. Waits("discover", picker.generation)
        BY <2>2 DEF PickerAwaited
      <3> QED
        BY <1>2, <1>7, <1>10, <3>1, <3>2 DEF Waits, Send!Queues
    <2>3. ASSUME picker.phase = "Sending"
          PROVE  Waits("send", picker.generation)'
      <3>1. \A c \in completed["send"] : c.generation # picker.generation
        BY <1>10 DEF Send!Ended
      <3>2. Waits("send", picker.generation)
        BY <2>3 DEF PickerAwaited
      <3> QED
        BY <1>2, <1>7, <1>10, <3>1, <3>2 DEF Waits, Send!Queues
    <2> QED
      BY <1>6, <1>8, <1>10, <2>1, <2>2, <2>3 DEF PickerAwaited
  <1>11. CASE /\ picker' = p /\ p.phase = "Picking" /\ picker.phase = "Discovering"
              /\ p.opening = picker.opening /\ p.listed = p.opening
              /\ p.selected \in p.targets
    BY <1>2, <1>6, <1>7, <1>8, <1>11 DEF PickerAwaited, Listed, DraftedOnce
  <1> QED
    BY <1>1, <1>3, <1>9, <1>10, <1>11

--------------------------------------------------------------------------------
\* The worker takes a request from its slot.
LEMMA TakingWorkIsSound == ASSUME SendInv, NEW s \in Send!Queues, Send!TakeNext(s) PROVE SendInv'
  <1> USE DEF SendInv
  <1>1. /\ pending' \in [Send!Queues -> SUBSET (Queries \cup Orders)]
        /\ pending'[s] = {} /\ \A z \in Send!Queues \ {s} : pending'[z] = pending[z]
    BY DEF Send!TakeNext, Places
  <1>2. /\ Send!Serves(s)' = pending[s] /\ Send!Serves(s) = {}
        /\ \A z \in Send!Queues \ {s} : Send!Serves(z)' = {} /\ Send!Serves(z) = {}
    <2>1. working = {} /\ working' = {[slot |-> s, request |-> r] : r \in pending[s]}
      BY DEF Send!TakeNext
    <2>2. \A r : r \in Send!Serves(s)' <=> r \in pending[s]
      <3>1. \A w \in working' : w.slot = s /\ w.request \in pending[s]
        BY <2>1
      <3>2. ASSUME NEW r \in pending[s] PROVE \E w \in working' : w.slot = s /\ w.request = r
        <4>1. [slot |-> s, request |-> r] \in working'
          BY <2>1
        <4> QED
          BY <4>1
      <3> QED
        BY <3>1, <3>2 DEF Send!Serves
    <2>3. ASSUME NEW z \in Send!Queues \ {s} PROVE Send!Serves(z)' = {}
      BY <2>1 DEF Send!Serves
    <2> QED
      BY <2>1, <2>2, <2>3 DEF Send!Serves
  <1>3. AtMostOne(working')
    BY DEF Send!TakeNext, Places, AtMostOne
  <1>4. DraftsConfirmed' = DraftsConfirmed
    BY <1>1, <1>2 DEF Send!TakeNext, DraftsConfirmed, Send!Queues
  <1>5. Send!TypeOK'
    BY <1>1 DEF Send!TypeOK, Send!TakeNext
  <1>6. Places'
    BY <1>1, <1>2, <1>3 DEF Places, AtMostOne, Send!TakeNext, Send!Queues
  <1>7. ASSUME NEW z \in Send!Queues, NEW g, Waits(z, g) PROVE Waits(z, g)'
    BY <1>1, <1>2, <1>7 DEF Waits, Send!TakeNext
  <1>8. PickerAwaited'
    BY <1>7 DEF PickerAwaited, Send!TakeNext, Send!Queues
  <1> QED
    BY <1>4, <1>5, <1>6, <1>8 DEF Listed, DraftedOnce, Send!TakeNext

\* What the worker completes carries the number it was asked with, and a draft it
\* delivers was confirmed.
LEMMA CompletingIsSound ==
  ASSUME SendInv, Send!TypeOK', NEW s \in Send!Queues, NEW r \in Send!Serves(s), NEW c,
         Send!Completes(s, c), c.generation = r.generation,
         c \in IF s = "discover" THEN Discoveries ELSE [generation : Nat, ok : BOOLEAN],
         drafts' \subseteq drafts \cup (IF s = "send" THEN {r} ELSE {})
  PROVE  SendInv'
  <1> USE DEF SendInv
  <1>1. /\ completed'[s] = {c} /\ \A z \in Send!Queues \ {s} : completed'[z] = completed[z]
        /\ completed' \in [Send!Queues ->
               SUBSET (Discoveries \cup [generation : Nat, ok : BOOLEAN])]
    BY DEF Send!Completes, Places
  <1>2. /\ Send!Serves(s) = {r}
        /\ \A z \in Send!Queues \ {s} : Send!Serves(z) = {}
        /\ \A z \in Send!Queues : Send!Serves(z)' = {}
    BY DEF Send!Completes, Send!Serves, Places, AtMostOne
  <1>3. DraftsConfirmed' \subseteq DraftsConfirmed
    BY <1>2 DEF DraftsConfirmed, Send!Completes, Send!Queues
  <1>4. Places'
    BY <1>1, <1>2 DEF Places, AtMostOne, Send!Completes, Send!Queues
  <1>5. ASSUME NEW z \in Send!Queues, NEW g, Waits(z, g) PROVE Waits(z, g)'
    BY <1>1, <1>2, <1>5 DEF Waits, Send!Completes
  <1>6. PickerAwaited'
    BY <1>5 DEF PickerAwaited, Send!Completes, Send!Queues
  <1>7. DraftedOnce'
    BY <1>3 DEF DraftedOnce, Send!Completes
  <1> QED
    BY <1>4, <1>6, <1>7 DEF Listed, Send!Completes

--------------------------------------------------------------------------------
\* Every step keeps the invariant.
LEMMA StepIsSound == SendInv /\ [Send!Next]_(Send!vars) => SendInv'
  <1> SUFFICES ASSUME SendInv, [Send!Next]_(Send!vars) PROVE SendInv'
    OBVIOUS
  <1>1. CASE \E x \in Texts : Send!Select(x)
    <2>1. Send!TypeOK'
      BY <1>1 DEF SendInv, Send!TypeOK, Send!Select
    <2> QED
      BY <1>1, <2>1, QuietStep DEF Send!Select
  <1>2. CASE \E t \in Tabs : Send!ContentReplaced(t) \/ Send!SwitchTab(t)
    <2>1. Send!TypeOK'
      BY <1>2 DEF SendInv, Send!TypeOK, Send!ContentReplaced, Send!SwitchTab
    <2> QED
      BY <1>2, <2>1, QuietStep DEF Send!ContentReplaced, Send!SwitchTab
  <1>3. CASE Send!Open
    BY <1>3, OpenIsSound
  <1>4. CASE \E p \in Panes : Send!Choose(p)
    BY <1>4, ChooseIsSound
  <1>5. CASE Send!Confirm
    BY <1>5, ConfirmIsSound
  <1>6. CASE Send!Cancel
    BY <1>6, CancelIsSound
  <1>7. CASE Send!TakeCompletions
    BY <1>7, TakingIsSound
  <1>8. CASE \E s \in Send!Queues : Send!TakeNext(s)
    BY <1>8, TakingWorkIsSound
  <1>9. CASE Send!ListPanes
    <2>1. PICK r \in Send!Serves("discover"), targets \in SUBSET Panes :
             /\ Send!Completes("discover", [generation |-> r.generation, targets |-> targets])
             /\ UNCHANGED <<panes, drafts>>
      BY <1>9 DEF Send!ListPanes
    <2>2. Send!TypeOK'
      BY <2>1 DEF Send!Completes, SendInv, Send!TypeOK, Places
    <2>3. r.generation \in Nat
      BY DEF SendInv, Places, Queries
    <2> QED
      BY <2>1, <2>2, <2>3, CompletingIsSound DEF Send!Queues, Discoveries
  <1>10. CASE Send!Deliver \/ Send!Refuse
    <2>1. PICK r \in Send!Serves("send"), ok \in BOOLEAN :
             /\ Send!Completes("send", [generation |-> r.generation, ok |-> ok])
             /\ UNCHANGED panes /\ drafts' \subseteq drafts \cup {r}
      BY <1>10 DEF Send!Deliver, Send!Refuse
    <2>2. Send!TypeOK'
      BY <2>1 DEF Send!Completes, SendInv, Send!TypeOK, Places
    <2>3. r.generation \in Nat
      BY DEF SendInv, Places, Orders
    <2> QED
      BY <2>1, <2>2, <2>3, CompletingIsSound DEF Send!Queues
  <1>11. CASE \E p \in Panes, s \in Send!States : Send!PaneChanges(p, s)
    <2>1. Send!TypeOK'
      BY <1>11 DEF SendInv, Send!TypeOK, Send!PaneChanges
    <2> QED
      BY <1>11, <2>1, QuietStep DEF Send!PaneChanges
  <1>12. CASE UNCHANGED Send!vars
    <2>1. Send!TypeOK'
      BY <1>12 DEF SendInv, Send!TypeOK, Send!vars
    <2> QED
      BY <1>12, <2>1, QuietStep DEF Send!vars
  <1> QED
    BY <1>1, <1>2, <1>3, <1>4, <1>5, <1>6, <1>7, <1>8, <1>9, <1>10, <1>11, <1>12 DEF Send!Next

\* However often the picker is opened, cancelled and confirmed, whatever the worker and
\* the panes do meanwhile, an opening sends one draft at most, to an agent of its own
\* list, and a picker that waits has a request or an answer on the way.
THEOREM DraftsAreSound == Send!Spec => [](Send!TypeOK /\ SendingIsSound)
  <1>1. SendInv => Send!TypeOK /\ SendingIsSound
    <2> SUFFICES ASSUME SendInv PROVE Send!TypeOK /\ SendingIsSound
      OBVIOUS
    <2>1. OneDraftPerOpening
      BY DEF SendInv, DraftedOnce, DraftsConfirmed, OneDraftPerOpening
    <2>2. ASSUME NEW s \in Send!Queues, NEW g, Waits(s, g) PROVE Coming(s, g)
      BY <2>2 DEF Waits, Coming, Send!Serves
    <2> QED
      BY <2>1, <2>2 DEF SendInv, PickerAwaited, Listed, ListIsItsOwn, PickerIsAwaited,
                        SendingIsSound, Send!Queues
  <1> QED
    BY <1>1, PickerStarts, StepIsSound, PTL DEF Send!Spec

--------------------------------------------------------------------------------
(* Handing a file to the host.  The worker's requests and answers are told apart   *)
(* by their generations, of which one order has one; an offer is of the generation *)
(* of the order it answers, so that the next order is the only one to take it up.  *)

Serving == IF opener.pc = "idle" THEN {} ELSE {opener.job}
Jobs    == order \cup Serving \cup {l.job : l \in launches}

Counters ==
    /\ clock \in Nat
    /\ DOMAIN viewer = {"requests", "shown", "confirm", "image", "opened"}
    /\ viewer.requests \in [latest : Nat, applied : Nat, loading : BOOLEAN]
    /\ viewer.requests.applied <= viewer.requests.latest
    /\ viewer.requests.loading => viewer.requests.applied < viewer.requests.latest
    /\ \A p \in prompts : p.at \in Nat /\ p.at <= clock
    /\ (\A q, r \in reply : q = r) /\ (\A q, r \in order : q = r)

\* A request that waits is younger than the one that is served, and that than the answer.
Ages ==
    /\ \A r \in Jobs \cup reply :
          r.generation \in Nat /\ r.generation <= viewer.requests.latest
    /\ \A r \in reply, j \in Serving : r.generation < j.generation
    /\ \A r \in reply \cup Serving, j \in order : r.generation < j.generation
    /\ \A i, j \in Jobs : i.generation = j.generation => i = j

\* What was asked about a file p called by l
Asked(t, l, print, n, at) ==
    \E p \in prompts : /\ <<p.target, p.label, p.print, p.prompt>> = <<t, l, print, n>>
                       /\ p.at <= at /\ at < p.at + Window

\* An order takes up the answer to the order before it.
Confirmed ==
    \A j \in Jobs : \A c \in j.confirmed :
        /\ c.prompt + 1 = j.generation
        /\ Asked(j.target, j.label, c.print, c.prompt, j.at)

\* What is offered was asked, and nothing was requested since.
Offered ==
    /\ viewer.confirm # {} \/ viewer.image # {} =>
          viewer.requests.applied = viewer.requests.latest
    /\ viewer.confirm = {} \/ viewer.image = {}
    /\ \A c \in viewer.confirm :
          /\ c.prompt = viewer.requests.latest
          /\ \E p \in prompts :
                /\ <<p.target, p.label, p.print, p.prompt>>
                     = <<c.target, c.label, c.print, c.prompt>>
                /\ c.expires = p.at + Window

\* What has passed a look may be opened.
MayOpen(job, look) ==
    /\ look.verdict \in {"direct", "unknown"}
    /\ look.verdict = "unknown" => Confirms(job, look)
Passed ==
    /\ opener.pc # "idle" /\ opener.pc # "launch" => \A k \in opener.first : MayOpen(opener.job, k)
    /\ opener.pc = "launch" =>
          MayOpen(opener.job, opener.look) /\ Harmless(opener.saw)
    /\ \A l \in launches : MayOpen(l.job, l.look) /\ Harmless(l.saw)

Awaited == OrderIsAwaited

OpenInv == Counters /\ Ages /\ Confirmed /\ Offered /\ Passed /\ Awaited

--------------------------------------------------------------------------------
(* What the invariant says is promised *)

LEMMA OpenInvImplies == ASSUME OpenShape, OpenInv PROVE OpensAreMeant
  <1>1. UnknownIsConfirmed
    <2> SUFFICES ASSUME NEW l \in launches, l.look.verdict = "unknown"
                 PROVE  \E p \in prompts :
                    /\ <<p.target, p.label, p.print>> = <<l.job.target, l.job.label, l.look.print>>
                    /\ p.at <= l.job.at /\ l.job.at < p.at + Window
                    /\ \A k \in launches :
                          (\E c \in k.job.confirmed : c.prompt = p.prompt) => k.job = l.job
      BY DEF UnknownIsConfirmed
    <2>1. MayOpen(l.job, l.look)
      BY DEF OpenInv, Passed
    <2>2. PICK c \in l.job.confirmed : c.print = l.look.print
      BY <2>1 DEF MayOpen, Confirms
    <2>3. l.job \in Jobs
      BY DEF Jobs
    <2>4. /\ c.prompt + 1 = l.job.generation
          /\ Asked(l.job.target, l.job.label, c.print, c.prompt, l.job.at)
      BY <2>3 DEF OpenInv, Confirmed
    <2>5. PICK p \in prompts :
             /\ <<p.target, p.label, p.print, p.prompt>>
                  = <<l.job.target, l.job.label, c.print, c.prompt>>
             /\ p.at <= l.job.at /\ l.job.at < p.at + Window
      BY <2>4 DEF Asked
    <2>6. ASSUME NEW k \in launches, NEW d \in k.job.confirmed, d.prompt = p.prompt
          PROVE  k.job = l.job
      <3>1. k.job \in Jobs
        BY DEF Jobs
      <3>2. d.prompt + 1 = k.job.generation
        BY <3>1 DEF OpenInv, Confirmed
      <3>3. k.job.generation = l.job.generation
        BY <3>2, <2>4, <2>5, <2>6
      <3> QED
        BY <3>1, <3>3, <2>3 DEF OpenInv, Ages
    <2> QED
      BY <2>2, <2>5, <2>6
  <1>2. NothingRuns
    BY DEF OpenInv, Passed, NothingRuns
  <1>3. OffersAreCurrent
    BY DEF OpenInv, Offered, Counters, OffersAreCurrent
  <1> QED
    BY <1>1, <1>2, <1>3 DEF OpenInv, Awaited, OpensAreMeant

LEMMA NothingIsOpen == OpenShape /\ OpenInit => OpenInv
  <1> SUFFICES ASSUME OpenShape, OpenInit PROVE OpenInv
    OBVIOUS
  <1>1. opener.pc = "idle" /\ Serving = {} /\ Jobs = {}
    BY DEF OpenInit, Idle, Serving, Jobs
  <1> QED
    BY <1>1 DEF OpenInit, NewGeneration, OpenInv, Counters, Ages, Confirmed, Offered, Passed,
                Awaited, OrderIsAwaited, Idle

--------------------------------------------------------------------------------
(* The steps *)

\* Other programs change what the worker reads, and nothing of the interface.
LEMMA OutsideKeepsOpen ==
  ASSUME OpenShape, OpenInv,
         UNCHANGED <<viewer, order, opener, reply, prompts, launches>>,
         clock' \in Nat, clock' >= clock
  PROVE  OpenInv'
  <1>1. UNCHANGED <<Serving, Jobs>>
    BY DEF Serving, Jobs
  <1>2. Counters'
    BY DEF OpenInv, Counters
  <1>3. Ages'
    BY <1>1 DEF OpenInv, Ages
  <1>4. Confirmed'
    BY <1>1 DEF OpenInv, Confirmed, Asked
  <1>5. Offered' /\ Passed' /\ Awaited'
    BY DEF OpenInv, Offered, Passed, Awaited, MayOpen, Confirms, Harmless, OrderIsAwaited
  <1> QED
    BY <1>2, <1>3, <1>4, <1>5 DEF OpenInv

\* The user turns elsewhere, without or with a cancellation.
LEMMA TurningKeepsOpen ==
  ASSUME OpenShape, OpenInv,
         viewer'.requests = viewer.requests,
         DOMAIN viewer' = DOMAIN viewer, viewer'.confirm \subseteq viewer.confirm,
         viewer'.image \subseteq viewer.image,
         UNCHANGED <<clock, order, opener, reply, prompts, launches>>
  PROVE  OpenInv'
  <1>1. UNCHANGED <<Serving, Jobs>>
    BY DEF Serving, Jobs
  <1>2. Counters'
    BY DEF OpenInv, Counters
  <1>3. Ages'
    BY <1>1 DEF OpenInv, Ages
  <1>4. Confirmed'
    BY <1>1 DEF OpenInv, Confirmed, Asked
  <1>5. Offered'
    BY DEF OpenInv, Offered
  <1>6. Passed' /\ Awaited'
    BY DEF OpenInv, Passed, Awaited, MayOpen, Confirms, Harmless, OrderIsAwaited
  <1> QED
    BY <1>2, <1>3, <1>4, <1>5, <1>6 DEF OpenInv

LEMMA CancelKeepsOpen ==
  ASSUME OpenShape, OpenInv, NEW v, v.requests = viewer.requests,
         DOMAIN v = DOMAIN viewer, Cancels(v)
  PROVE  OpenInv'
  <1>0. /\ DOMAIN viewer' = DOMAIN viewer
        /\ viewer'.requests = [latest |-> viewer.requests.latest + 1,
                               applied |-> viewer.requests.latest + 1, loading |-> FALSE]
        /\ viewer'.confirm = {} /\ viewer'.image = {}
    BY DEF OpenInv, Counters, Cancels, Cancelled, Invalidate
  <1>1. order' = {} /\ UNCHANGED <<Serving, clock, reply, opener, prompts, launches>>
    BY DEF Cancels, Serving
  <1>2. Jobs' \subseteq Jobs
    BY <1>1 DEF Jobs
  <1>3. Counters'
    BY <1>0, <1>1 DEF OpenInv, Counters
  <1>4. Ages'
    BY <1>0, <1>1, <1>2 DEF OpenInv, Ages, Counters
  <1>5. Confirmed'
    BY <1>1, <1>2 DEF OpenInv, Confirmed, Asked
  <1>6. Offered' /\ Awaited'
    BY <1>0 DEF Offered, Awaited, OrderIsAwaited
  <1>7. Passed'
    BY <1>1 DEF OpenInv, Passed, MayOpen, Confirms, Harmless
  <1> QED
    BY <1>3, <1>4, <1>5, <1>6, <1>7 DEF OpenInv

\* The order is of a new generation, and takes up what was offered for its target.
LEMMA OrderKeepsOpen ==
  ASSUME OpenShape, OpenInv, NEW s, Order(s)
  PROVE  OpenInv'
  <1> USE DEF OpenInv
  <1> DEFINE n == viewer.requests.latest + 1
  <1> DEFINE job == [generation |-> n, target |-> s.target, label |-> s.label,
                     confirmed |-> {[print |-> c.print, prompt |-> c.prompt] : c \in Offer(s)},
                     at |-> clock]
  <1>0. viewer.requests.latest \in Nat /\ n \in Nat
    BY DEF Counters
  <1>1. /\ order' = {job} /\ UNCHANGED <<Serving, clock, reply, opener, prompts, launches>>
        /\ DOMAIN viewer' = DOMAIN viewer
        /\ viewer'.requests.latest = n /\ viewer'.requests.applied = viewer.requests.applied
        /\ viewer'.requests = [latest |-> n, applied |-> viewer.requests.applied, loading |-> TRUE]
        /\ viewer'.confirm = {} /\ viewer'.image = {}
    BY DEF Order, Begin, Serving, Counters
  <1>2. Jobs' \subseteq Jobs \cup {job} /\ job.generation = n
    BY <1>1 DEF Jobs
  <1>3. Counters'
    BY <1>0, <1>1 DEF Counters
  <1>4. \A r \in Jobs \cup reply : r.generation \in Nat /\ r.generation < n
    BY <1>0 DEF Ages
  <1>5. Ages'
    <2> HIDE DEF job
    <2>1. \A r \in Jobs' \cup reply' : r.generation \in Nat /\ r.generation <= n
      BY <1>0, <1>1, <1>2, <1>4
    <2>2. \A r \in reply \cup Serving : r.generation < n
      BY <1>4 DEF Jobs
    <2>3. \A i, j \in Jobs' : i.generation = j.generation => i = j
      BY <1>0, <1>2, <1>4 DEF Ages
    <2> QED
      BY <1>1, <1>2, <2>1, <2>2, <2>3 DEF Ages
  <1>6. \A c \in job.confirmed :
           c.prompt + 1 = n /\ Asked(s.target, s.label, c.print, c.prompt, clock)
    <2> SUFFICES ASSUME NEW o \in Offer(s)
                 PROVE  o.prompt + 1 = n /\ Asked(s.target, s.label, o.print, o.prompt, clock)
      OBVIOUS
    <2>1. o \in viewer.confirm /\ o.target = s.target /\ o.label = s.label /\ o.expires > clock
      BY DEF Offer
    <2>2. o.prompt = viewer.requests.latest
      BY <2>1 DEF Offered
    <2>3. PICK p \in prompts : /\ <<p.target, p.label, p.print, p.prompt>>
                                    = <<o.target, o.label, o.print, o.prompt>>
                               /\ o.expires = p.at + Window
      BY <2>1 DEF Offered
    <2>4. p.at \in Nat /\ p.at <= clock /\ clock < p.at + Window
      BY <2>1, <2>3 DEF Counters, OpenShape
    <2> QED
      BY <2>1, <2>2, <2>3, <2>4 DEF Asked
  <1>7. Confirmed'
    <2>1. \A j \in Jobs : \A c \in j.confirmed :
             c.prompt + 1 = j.generation /\ Asked(j.target, j.label, c.print, c.prompt, j.at)
      BY DEF Confirmed
    <2>2. /\ job.target = s.target /\ job.label = s.label /\ job.at = clock
      OBVIOUS
    <2> HIDE DEF job
    <2> QED
      BY <1>1, <1>2, <1>6, <2>1, <2>2 DEF Confirmed, Asked
  <1>8. Offered'
    BY <1>1 DEF Offered
  <1>9. Passed'
    BY <1>1 DEF Passed, MayOpen, Confirms, Harmless
  <1>10. Awaited'
    <2>1. job \in order' /\ job.generation = viewer'.requests.latest
      BY <1>1
    <2> HIDE DEF job
    <2> QED
      BY <2>1 DEF Awaited, OrderIsAwaited
  <1> QED
    BY <1>3, <1>5, <1>7, <1>8, <1>9, <1>10

\* An answer that is not wanted any more changes nothing; one that is answers the last
\* order, since when nothing was offered.
LEMMA ReplyKeepsOpen == ASSUME OpenShape, OpenInv, TakeReply PROVE OpenInv'
  <1> USE DEF OpenInv
  <1>0. PICK r \in reply :
          IF Accepts(viewer.requests, r.generation)
          THEN /\ viewer' = Answered(viewer, r)
               /\ prompts' = prompts \cup
                      {[target |-> r.target, label |-> r.label, print |-> p,
                        prompt |-> r.generation, at |-> clock] : p \in r.print}
               /\ order' = IF r.result = "failed" /\ r.image THEN {} ELSE order
          ELSE UNCHANGED <<viewer, prompts, order>>
    BY DEF TakeReply
  <1>1. reply' = {} /\ UNCHANGED <<Serving, clock, opener, launches>>
    BY DEF TakeReply, Serving
  <1>2. Jobs' \subseteq Jobs /\ order' \subseteq order
    BY <1>0, <1>1 DEF Jobs
  <1>3. Passed'
    BY <1>1 DEF Passed, MayOpen, Confirms, Harmless
  <1>4. CASE ~Accepts(viewer.requests, r.generation)
    <2>1. UNCHANGED <<viewer, prompts, order>>
      BY <1>0, <1>4
    <2>2. Counters' /\ Ages' /\ Confirmed' /\ Offered'
      BY <1>1, <1>2, <2>1 DEF Counters, Ages, Confirmed, Asked, Offered
    <2>3. Awaited'
      <3> SUFFICES ASSUME viewer.requests.loading
                   PROVE  \E q \in order \cup Serving : q.generation = viewer.requests.latest
        BY <1>1, <2>1 DEF Awaited, OrderIsAwaited, Serving
      <3>1. viewer.requests.applied < viewer.requests.latest
        BY DEF Counters
      <3>2. r.generation # viewer.requests.latest
        BY <1>4, <3>1 DEF Accepts, Counters
      <3>3. \A q \in reply : q = r
        BY DEF Counters
      <3> QED
        BY <3>2, <3>3 DEF Awaited, OrderIsAwaited, Serving
    <2> QED
      BY <1>3, <2>2, <2>3
  <1>5. CASE Accepts(viewer.requests, r.generation)
    <2> DEFINE n == viewer.requests.latest
    <2> DEFINE asked == {[target |-> r.target, label |-> r.label, print |-> p,
                          prompt |-> r.generation, at |-> clock] : p \in r.print}
    <2> DEFINE asks == {[target |-> r.target, label |-> r.label, print |-> p,
                         prompt |-> r.generation, expires |-> clock + Window] : p \in r.print}
    <2>1. /\ n \in Nat /\ r.generation = n /\ viewer.requests.applied < n
          /\ viewer.confirm = {} /\ viewer.image = {}
      BY <1>5 DEF Accepts, Counters, Offered
    <2>2. prompts' = prompts \cup asked /\ viewer' = Answered(viewer, r)
      BY <1>0, <1>5
    <2>3. \A q \in asked : q.at = clock
      OBVIOUS
    <2> DEFINE w == [viewer EXCEPT !.requests = Accept(viewer.requests, r.generation)]
    <2>4. /\ DOMAIN w = DOMAIN viewer
          /\ w.requests = [latest |-> n, applied |-> n, loading |-> FALSE]
          /\ w.confirm = {} /\ w.image = {}
      BY <2>1 DEF Accept, Counters
    <2>5. /\ DOMAIN viewer' = DOMAIN viewer
          /\ viewer'.requests.latest \in Nat /\ viewer'.requests.latest >= n
          /\ viewer'.requests = [latest |-> viewer'.requests.latest,
                                 applied |-> viewer'.requests.latest, loading |-> FALSE]
          /\ viewer'.confirm = {} \/ viewer'.image = {}
          /\ viewer'.confirm # {} => /\ viewer'.confirm = asks
                                     /\ viewer'.requests.latest = n
      <3> HIDE DEF w, asks
      <3>1. viewer' = CASE r.result = "opened" ->
                [w EXCEPT !.opened = {[target |-> r.target, at |-> clock]}, !.confirm = {}]
              [] r.result = "asks" -> [w EXCEPT !.confirm = asks]
              [] r.result = "failed" ->
                   IF r.image
                   THEN [Cancelled(w) EXCEPT
                            !.image = {[target |-> r.target, label |-> r.label]}]
                   ELSE w
              [] OTHER -> [w EXCEPT !.confirm = {}]
        BY <2>2 DEF Answered, w, asks
      <3>2. /\ DOMAIN Cancelled(w) = DOMAIN viewer
            /\ Cancelled(w).requests = [latest |-> n + 1, applied |-> n + 1, loading |-> FALSE]
            /\ Cancelled(w).confirm = {}
        BY <2>1, <2>4 DEF Cancelled, Invalidate, Counters
      <3>3. CASE r.result = "opened"
        <4>1. viewer' = [w EXCEPT !.opened = {[target |-> r.target, at |-> clock]},
                                  !.confirm = {}]
          BY <3>1, <3>3
        <4> QED
          BY <2>1, <2>4, <4>1 DEF Counters
      <3>4. CASE r.result = "asks"
        <4>1. viewer' = [w EXCEPT !.confirm = asks]
          BY <3>1, <3>4
        <4> QED
          BY <2>1, <2>4, <4>1 DEF Counters
      <3>5. CASE r.result = "failed" /\ r.image
        <4>1. viewer' = [Cancelled(w) EXCEPT
                            !.image = {[target |-> r.target, label |-> r.label]}]
          BY <3>1, <3>5
        <4> HIDE DEF Cancelled
        <4> QED
          BY <2>1, <3>2, <4>1 DEF Counters
      <3>6. CASE r.result = "failed" /\ ~r.image
        <4>1. viewer' = w
          BY <3>1, <3>6
        <4> QED
          BY <2>1, <2>4, <4>1 DEF Counters
      <3>7. CASE r.result \notin {"opened", "asks", "failed"}
        <4>1. viewer' = [w EXCEPT !.confirm = {}]
          BY <3>1, <3>7
        <4> QED
          BY <2>1, <2>4, <4>1 DEF Counters
      <3> QED
        BY <3>3, <3>4, <3>5, <3>6, <3>7
    <2>6. \A o \in asks : /\ o.prompt = n
                          /\ \E p \in asked :
                                /\ <<p.target, p.label, p.print, p.prompt>>
                                     = <<o.target, o.label, o.print, o.prompt>>
                                /\ o.expires = p.at + Window
      <3> SUFFICES ASSUME NEW x \in r.print
                   PROVE  \E p \in asked :
                             /\ <<p.target, p.label, p.print, p.prompt>>
                                  = <<r.target, r.label, x, n>>
                             /\ clock + Window = p.at + Window
        BY <2>1
      <3> WITNESS [target |-> r.target, label |-> r.label, print |-> x,
                   prompt |-> r.generation, at |-> clock] \in asked
      <3> QED
        BY <2>1
    <2> HIDE DEF asked, asks, w
    <2>7. Counters'
      <3>1. clock' \in Nat /\ \A p \in prompts' : p.at \in Nat /\ p.at <= clock'
        BY <1>1, <2>2, <2>3 DEF Counters
      <3>2. /\ DOMAIN viewer' = {"requests", "shown", "confirm", "image", "opened"}
            /\ viewer'.requests \in [latest : Nat, applied : Nat, loading : BOOLEAN]
            /\ viewer'.requests.applied <= viewer'.requests.latest
            /\ ~viewer'.requests.loading
        <4> DEFINE m == viewer'.requests.latest
        <4>1. /\ m \in Nat
              /\ viewer'.requests = [latest |-> m, applied |-> m, loading |-> FALSE]
          BY <2>5
        <4>2. DOMAIN viewer' = {"requests", "shown", "confirm", "image", "opened"}
          BY <2>5 DEF Counters
        <4> HIDE DEF m
        <4> QED
          BY <4>1, <4>2
      <3> QED
        BY <1>1, <1>2, <3>1, <3>2 DEF Counters
    <2>8. Ages'
      <3>1. \A q \in Jobs' \cup reply' :
               q.generation \in Nat /\ q.generation <= viewer'.requests.latest
        BY <1>1, <1>2, <2>1, <2>5 DEF Ages
      <3> QED
        BY <1>1, <1>2, <3>1 DEF Ages
    <2>9. Confirmed'
      BY <1>1, <1>2, <2>2 DEF Confirmed, Asked
    <2>10. Offered'
      BY <2>2, <2>5, <2>6 DEF Offered
    <2>11. Awaited'
      BY <2>5 DEF Awaited, OrderIsAwaited
    <2> QED
      BY <1>3, <2>7, <2>8, <2>9, <2>10, <2>11
  <1> QED
    BY <1>4, <1>5

\* The worker takes the order, which is younger than every answer.
LEMMA BeginKeepsOpen == ASSUME OpenShape, OpenInv, Begins PROVE OpenInv'
  <1> USE DEF OpenInv
  <1>1. PICK j \in order : opener' = [pc |-> "resolve", job |-> j, first |-> {}]
    BY DEF Begins
  <1>2. /\ Serving = {} /\ Serving' = {j} /\ order' = {}
        /\ UNCHANGED <<clock, viewer, reply, prompts, launches>>
    BY <1>1 DEF Begins, Serving
  <1>3. Jobs' \subseteq Jobs
    BY <1>2 DEF Jobs
  <1>4. Counters' /\ Offered'
    BY <1>2 DEF Counters, Offered
  <1>5. Ages'
    BY <1>2, <1>3 DEF Ages
  <1>6. Confirmed'
    BY <1>2, <1>3 DEF Confirmed, Asked
  <1>7. Passed'
    BY <1>1, <1>2 DEF Passed, MayOpen, Confirms, Harmless
  <1>8. Awaited'
    <2>1. \A q \in order : q = j
      BY <1>1 DEF Counters
    <2>2. opener'.job = j /\ opener'.pc # "idle" /\ opener.pc = "idle"
      BY <1>1 DEF Begins
    <2> QED
      BY <1>2, <2>1, <2>2 DEF Awaited, OrderIsAwaited
  <1> QED
    BY <1>4, <1>5, <1>6, <1>7, <1>8

\* The worker goes on with the same order.
LEMMA GoingKeepsOpen ==
  ASSUME OpenShape, OpenInv, NEW next, Goes(next), opener.pc # "idle",
         next.pc # "idle", next.job = opener.job,
         IF next.pc = "launch" THEN MayOpen(next.job, next.look)
                                    /\ Harmless(next.saw)
                               ELSE \A k \in next.first : MayOpen(next.job, k)
  PROVE  OpenInv'
  <1> USE DEF OpenInv
  <1>1. /\ opener' = next /\ UNCHANGED <<clock, viewer, order, reply, prompts, launches>>
    BY DEF Goes
  <1>2. UNCHANGED <<Serving, Jobs>>
    BY <1>1 DEF Serving, Jobs
  <1>3. Counters' /\ Offered'
    BY <1>1 DEF Counters, Offered
  <1>4. Ages' /\ Confirmed'
    BY <1>1, <1>2 DEF Ages, Confirmed, Asked
  <1>5. Passed'
    BY <1>1 DEF Passed, MayOpen, Confirms, Harmless
  <1>6. Awaited'
    BY <1>1 DEF Awaited, OrderIsAwaited
  <1> QED
    BY <1>3, <1>4, <1>5, <1>6

\* The worker ends, and hands over at most what it was to look at.
LEMMA CompletionKeepsOpen ==
  ASSUME OpenShape, OpenInv, NEW result, NEW print, NEW image,
         Answers(result, print, image), opener.pc # "idle",
         \/ UNCHANGED launches
         \/ /\ opener.pc = "launch"
            /\ launches' = launches \cup {[job |-> opener.job, look |-> opener.look,
                                          saw |-> opener.saw]}
  PROVE  OpenInv'
  <1> USE DEF OpenInv
  <1> DEFINE answer == [generation |-> opener.job.generation, target |-> opener.job.target,
                        label |-> opener.job.label, result |-> result, print |-> print,
                        image |-> image]
  <1>1. /\ reply' = {answer} /\ opener' = Idle
        /\ UNCHANGED <<clock, viewer, order, prompts>>
    BY DEF Answers
  <1>2. Serving = {opener.job} /\ Serving' = {} /\ opener'.pc = "idle"
    BY <1>1 DEF Serving, Idle
  <1>3. Jobs' \subseteq Jobs
    BY <1>1, <1>2 DEF Jobs
  <1>4. opener.job \in Jobs /\ answer.generation = opener.job.generation
    BY <1>2 DEF Jobs
  <1> HIDE DEF answer
  <1>5. Counters' /\ Offered'
    BY <1>1 DEF Counters, Offered
  <1>6. Ages'
    BY <1>1, <1>2, <1>3, <1>4 DEF Ages
  <1>7. Confirmed'
    BY <1>1, <1>3 DEF Confirmed, Asked
  <1>8. Passed'
    <2>1. \A l \in launches' : MayOpen(l.job, l.look) /\ Harmless(l.saw)
      BY DEF Passed
    <2> QED
      BY <1>2, <2>1 DEF Passed, MayOpen, Confirms, Harmless
  <1>9. Awaited'
    <2> SUFFICES ASSUME viewer.requests.loading
                 PROVE  \E r \in order' \cup reply' : r.generation = viewer.requests.latest
      BY <1>1 DEF Awaited, OrderIsAwaited
    <2>1. PICK r \in order \cup reply \cup Serving : r.generation = viewer.requests.latest
      BY DEF Awaited, OrderIsAwaited, Serving
    <2>2. r \notin reply
      BY <1>2, <1>4, <2>1 DEF Ages, Counters
    <2> QED
      BY <1>1, <1>2, <1>4, <2>1, <2>2
  <1> QED
    BY <1>5, <1>6, <1>7, <1>8, <1>9

\* What a look lets pass may be opened.
LEMMA ReadKeepsOpen == ASSUME OpenShape, OpenInv, Read PROVE OpenInv'
  <1> DEFINE look == Look(opener)
  <1>0. opener.pc = "read" /\ look.verdict \in {"blocked", "direct", "unknown"}
    BY DEF Read, Look, Verdict
  <1>5. look.verdict # "blocked" => Harmless(Sight)
    BY DEF Look, Verdict, Harmless, Sight
  <1>1. CASE Errs
    BY <1>0, <1>1, CompletionKeepsOpen DEF Errs
  <1>2. CASE Answers("asks", {look.print}, FALSE) /\ UNCHANGED launches
    BY <1>0, <1>2, CompletionKeepsOpen
  <1>3. CASE /\ MayOpen(opener.job, look)
             /\ Goes([pc |-> "resolve", job |-> opener.job, first |-> {look}])
    <2> HIDE DEF look
    <2> QED
      BY <1>0, <1>3, GoingKeepsOpen
  <1>4. CASE /\ MayOpen(opener.job, look) /\ Harmless(Sight)
             /\ Goes([pc |-> "launch", job |-> opener.job, look |-> look, saw |-> Sight,
                      image |-> look.detected[1] = {"png"}])
    <2> HIDE DEF look
    <2> QED
      BY <1>0, <1>4, GoingKeepsOpen
  <1> HIDE DEF look
  <1> QED
    BY <1>0, <1>1, <1>2, <1>3, <1>4, <1>5 DEF Read, look, MayOpen

LEMMA OpenStepKeepsInv == OpenShape /\ OpenInv /\ [OpenNext]_openVars => OpenInv'
  <1> SUFFICES ASSUME OpenShape, OpenInv, [OpenNext]_openVars PROVE OpenInv'
    OBVIOUS
  <1>0. clock \in Nat /\ DOMAIN viewer = {"requests", "shown", "confirm", "image", "opened"}
    BY DEF OpenInv, Counters
  <1>1. ASSUME NEW s, Load(s) PROVE OpenInv'
    <2> DEFINE v == [viewer EXCEPT !.shown = s]
    <2>1. v.requests = viewer.requests /\ DOMAIN v = DOMAIN viewer
      BY <1>0
    <2>2. Cancels(v)
      BY <1>1 DEF Load
    <2> HIDE DEF v
    <2> QED
      BY <2>1, <2>2, CancelKeepsOpen
  <1>2. ASSUME NEW s, Order(s) PROVE OpenInv'
    BY <1>2, OrderKeepsOpen
  <1>3. ASSUME LeaveImage PROVE OpenInv'
    BY <1>3, CancelKeepsOpen DEF LeaveImage
  <1>4. ASSUME NEW s, NEW scope \in BOOLEAN, Turn(s, scope) PROVE OpenInv'
    <2>1. /\ viewer' = [viewer EXCEPT !.shown = s, !.confirm = IF scope THEN {} ELSE @]
          /\ UNCHANGED <<clock, order, opener, reply, prompts, launches>>
      BY <1>4 DEF Turn
    <2>2. /\ viewer'.requests = viewer.requests /\ DOMAIN viewer' = DOMAIN viewer
          /\ viewer'.confirm \subseteq viewer.confirm /\ viewer'.image \subseteq viewer.image
      BY <1>0, <2>1
    <2> QED
      BY <2>1, <2>2, TurningKeepsOpen
  <1>5. ASSUME OpenSearch PROVE OpenInv'
    <2>1. /\ viewer' = [viewer EXCEPT !.image = {}]
          /\ UNCHANGED <<clock, order, opener, reply, prompts, launches>>
      BY <1>5 DEF OpenSearch
    <2>2. /\ viewer'.requests = viewer.requests /\ DOMAIN viewer' = DOMAIN viewer
          /\ viewer'.confirm \subseteq viewer.confirm /\ viewer'.image \subseteq viewer.image
      BY <1>0, <2>1
    <2> QED
      BY <2>1, <2>2, TurningKeepsOpen
  <1>6. ASSUME TakeReply PROVE OpenInv'
    BY <1>6, ReplyKeepsOpen
  <1>7. ASSUME Tick \/ (\E p \in Paths : Replace(p)) \/ (\E f \in Objects : Write(f))
               \/ UNCHANGED openVars
        PROVE  OpenInv'
    <2>1. UNCHANGED <<viewer, order, opener, reply, prompts, launches>>
      BY <1>7 DEF Tick, Replace, Write, Changes, openVars
    <2>2. clock' \in Nat /\ clock' >= clock
      BY <1>0, <1>7 DEF Tick, Replace, Write, Changes, openVars
    <2> QED
      BY <2>1, <2>2, OutsideKeepsOpen
  <1>8. ASSUME Begins PROVE OpenInv'
    BY <1>8, BeginKeepsOpen
  <1>9. ASSUME opener.pc \in {"resolve", "inspect", "open", "verify", "read"}, Errs
        PROVE  OpenInv'
    BY <1>9, CompletionKeepsOpen DEF Errs
  <1>10. ASSUME NEW next, Goes(next), opener.pc \in {"resolve", "inspect", "open", "verify"},
                next.pc \in {"inspect", "open", "verify", "read"},
                next.job = opener.job, next.first = opener.first
         PROVE  OpenInv'
    <2>1. \A k \in next.first : MayOpen(next.job, k)
      BY <1>10 DEF OpenInv, Passed
    <2> QED
      BY <1>10, <2>1, GoingKeepsOpen
  <1>11. ASSUME Resolve PROVE OpenInv'
    <2>1. PICK p : Goes([pc |-> "inspect", job |-> opener.job, first |-> opener.first,
                         path |-> p])
      BY <1>11 DEF Resolve
    <2>2. opener.pc = "resolve"
      BY <1>11 DEF Resolve
    <2> QED
      BY <1>10, <2>1, <2>2
  <1>12. ASSUME Inspect PROVE OpenInv'
    <2>1. \/ Errs
          \/ \E f : Goes([pc |-> "open", job |-> opener.job, first |-> opener.first,
                          path |-> opener.path, file |-> f])
      BY <1>12 DEF Inspect
    <2>2. opener.pc = "inspect"
      BY <1>12 DEF Inspect
    <2> QED
      BY <1>9, <1>10, <2>1, <2>2
  <1>13. ASSUME OpenFile PROVE OpenInv'
    <2> DEFINE next == [pc |-> IF Rooted THEN "verify" ELSE "read", job |-> opener.job,
                        first |-> opener.first, path |-> opener.path, file |-> opener.file,
                        print |-> <<opener.file, object[opener.file].stamp>>,
                        exec |-> object[opener.file].exec]
    <2>1. opener.pc = "open" /\ (Errs \/ Goes(next))
      BY <1>13 DEF OpenFile
    <2>2. next.pc \in {"verify", "read"} /\ next.job = opener.job /\ next.first = opener.first
      OBVIOUS
    <2> HIDE DEF next
    <2> QED
      BY <1>9, <1>10, <2>1, <2>2
  <1>14. ASSUME Verify PROVE OpenInv'
    <2> DEFINE next == [pc |-> "read", job |-> opener.job, first |-> opener.first,
                        path |-> opener.path, file |-> opener.file, print |-> opener.print,
                        exec |-> opener.exec]
    <2>1. opener.pc = "verify" /\ (Errs \/ Goes(next))
      BY <1>14 DEF Verify
    <2>2. next.pc = "read" /\ next.job = opener.job /\ next.first = opener.first
      OBVIOUS
    <2> HIDE DEF next
    <2> QED
      BY <1>9, <1>10, <2>1, <2>2
  <1>15. ASSUME Read PROVE OpenInv'
    BY <1>15, ReadKeepsOpen
  <1>16. ASSUME GivesUp PROVE OpenInv'
    BY <1>9, <1>16 DEF GivesUp
  <1>17. ASSUME Launch PROVE OpenInv'
    BY <1>17, CompletionKeepsOpen DEF Launch
  <1> QED
    BY <1>1, <1>2, <1>3, <1>4, <1>5, <1>6, <1>7, <1>8, <1>11, <1>12, <1>13, <1>14, <1>15,
       <1>16, <1>17 DEF OpenNext

\* However the user orders, turns away and confirms, whatever other programs do to the
\* files, and whichever step of the worker fails: what is handed to the host is what the
\* user was asked about, once and in time; nothing that runs is handed over; an offer is of
\* the last order; and every order has its answer.
THEOREM HandoversAreMeant == OpenSpec => []OpensAreMeant
  <1>1. OpenInit => OpenInv
    BY OpenShape, NothingIsOpen
  <1>2. OpenInv /\ [OpenNext]_openVars => OpenInv'
    BY OpenShape, OpenStepKeepsInv
  <1>3. OpenInv => OpensAreMeant
    BY OpenShape, OpenInvImplies
  <1> QED
    BY <1>1, <1>2, <1>3, PTL DEF OpenSpec
==================================================================================
