---------------------------- MODULE MetadataStore ----------------------------
(***************************************************************************)
(* The metadata store on disk (agent/metadata.rs): several hook processes  *)
(* and viewers merge deltas into one file per session and prune old ones.  *)
(* They share nothing but the file system: directories, files replaced by  *)
(* renaming a temporary one, and lock files of which each process holds    *)
(* what the system takes back when it dies.  A process is known by its     *)
(* number, which a later process may get again.                            *)
(***************************************************************************)
EXTENDS MetadataRecord

CONSTANTS Workspaces, Keys, Deltas, Procs,
          MaxSessions,      \* MetadataCapacity::sessions
          MaxWorkspaces,    \* MetadataCapacity::workspaces
          MaxPerWorkspace,  \* MetadataCapacity::sessions_per_workspace
          Budget,           \* MaintenanceBudget::max_records
          EndedRetention, OpenRetention,
          MaxTime, MaxMerges, MaxPrunes, MaxCrashes   \* bounds of the runs

Sessions == Workspaces \X Keys
Capacity == 0

ASSUME NumberedNames ==
    /\ Workspaces \subseteq Nat \ {Capacity} /\ Keys \subseteq Nat \ {Capacity}
    /\ Workspaces \cap Keys = {} /\ IsFiniteSet(Workspaces) /\ IsFiniteSet(Keys)

ASSUME NoneIsNobody == None \notin Nat /\ None \notin Procs

ASSUME StoreBounds ==
    /\ MaxSessions \in Nat /\ MaxPerWorkspace \in Nat
    /\ EndedRetention \in Nat /\ OpenRetention \in Nat

\* What project_metadata makes of the observations of a session.
ASSUME ProjectedDeltas ==
    \A d \in Deltas :
        /\ d.session \in Sessions /\ d.observer \in Nat /\ d.at \in Nat
        /\ d.discovery \in {0, 1} /\ d.terminal \in Nat

\* What a temporary file replaces: the file of a session or, with key 0, workspace.meta.
WorkspaceFile(w) == <<w, 0>>

\* Two sessions with one key in different workspaces share their lock file.
LockFiles == Workspaces \cup Keys \cup {Capacity}
Idle == [pc |-> "idle"]

VARIABLES
    files,      \* the record in each session's file
    fresh,      \* the sessions written within the write interval
    wsFiles,    \* the time in each workspace.meta, None without one
    dirs,       \* the directories: <<w, "workspace">> and <<w, "sessions">>
    temps,      \* the temporary files, <<what they replace, whose they are>>
    locks,      \* who holds each lock file, None when free
    procs,      \* what each process is doing
    now,
    spent       \* how often the bounded actions have happened

vars == <<files, fresh, wsFiles, dirs, temps, locks, procs, now, spent>>

Existing == {s \in Sessions : files[s] # None}
InWorkspace(w) == {s \in Existing : s[1] = w}
Expired(r, t) ==
    t - r.last > IF r.terminal # 0 THEN EndedRetention ELSE OpenRetention

Init ==
    /\ files = [s \in Sessions |-> None] /\ fresh = {}
    /\ wsFiles = [w \in Workspaces |-> None] /\ dirs = {} /\ temps = {}
    /\ locks = [l \in LockFiles |-> None]
    /\ procs = [p \in Procs |-> Idle]
    /\ now = 0 /\ spent = [merges |-> 0, prunes |-> 0, crashes |-> 0]

-----------------------------------------------------------------------------
(* Locks *)

Free(l) == locks[l] = None
Held(p) == {l \in LockFiles : locks[l] = p}
Take(p, l) == locks' = [locks EXCEPT ![l] = p]
ReleaseAll(p) == locks' = [l \in LockFiles |-> IF l \in Held(p) THEN None ELSE locks[l]]
Go(p, pc) == procs' = [procs EXCEPT ![p].pc = pc]

\* The end of a call, whatever it returns: the locks are dropped.
Return(p) == ReleaseAll(p) /\ procs' = [procs EXCEPT ![p] = Idle]

-----------------------------------------------------------------------------
(* merge *)

\* The directories of the session are made; a delta that tells nothing of the life
\* of the session is skipped when the file is fresh.  No lock is held yet.
BeginMerge(p, d) ==
    /\ procs[p] = Idle /\ spent.merges < MaxMerges /\ d.at <= now
    /\ spent' = [spent EXCEPT !.merges = @ + 1]
    /\ dirs' = dirs \cup {<<d.session[1], "workspace">>, <<d.session[1], "sessions">>}
    /\ IF d.class = "activity" /\ d.session \in fresh
         THEN procs' = procs
         ELSE procs' = [procs EXCEPT ![p] = [pc |-> "workspace", delta |-> d]]
    /\ UNCHANGED <<files, fresh, wsFiles, temps, locks, now>>

LockWorkspace(p) ==
    LET s == procs[p].delta.session IN
    /\ procs[p].pc = "workspace" /\ Free(s[1])
    /\ Take(p, s[1])
    /\ Go(p, IF files[s] = None THEN "capacity" ELSE "session")
    /\ UNCHANGED <<files, fresh, wsFiles, dirs, temps, now, spent>>

\* has_capacity_for_new_session: a directory counts as soon as it exists when there
\* are too many of them, and a workspace by its record otherwise.
HasCapacity(w) ==
    /\ Cardinality({e \in dirs : e[2] = "workspace"}) <= MaxWorkspaces + 1
    /\ Cardinality(Existing) < MaxSessions
    /\ \/ wsFiles[w] # None
       \/ Cardinality({v \in Workspaces : wsFiles[v] # None}) < MaxWorkspaces

\* Mutant: the lock of the capacity is dropped as soon as there is room.
LockCapacityBriefly(p) ==
    /\ procs[p].pc = "capacity" /\ Free(Capacity)
    /\ IF HasCapacity(procs[p].delta.session[1])
         THEN Go(p, "session") /\ UNCHANGED locks
         ELSE Return(p)
    /\ UNCHANGED <<files, fresh, wsFiles, dirs, temps, now, spent>>

\* The lock of the capacity is kept until the new file is there.
LockCapacity(p) ==
    LET s == procs[p].delta.session IN
    /\ procs[p].pc = "capacity" /\ Free(Capacity)
    /\ IF HasCapacity(s[1])
         THEN Take(p, Capacity) /\ Go(p, "session")
         ELSE Return(p)
    /\ UNCHANGED <<files, fresh, wsFiles, dirs, temps, now, spent>>

LockSession(p) ==
    LET s == procs[p].delta.session IN
    /\ procs[p].pc = "session" /\ Free(s[2])
    /\ Take(p, s[2]) /\ Go(p, "write_workspace")
    /\ UNCHANGED <<files, fresh, wsFiles, dirs, temps, now, spent>>

WaitsFor(p) ==
    CASE procs[p].pc = "workspace" -> procs[p].delta.session[1]
      [] procs[p].pc = "capacity"  -> Capacity
      [] procs[p].pc = "session"   -> procs[p].delta.session[2]
      [] procs[p].pc = "prune"     -> procs[p].at
      [] OTHER -> None

\* FileLock::acquire past its deadline: Contended.
GiveUp(p) ==
    /\ procs[p].pc \in {"workspace", "capacity", "session"}
    /\ ~Free(WaitsFor(p))
    /\ Return(p)
    /\ UNCHANGED <<files, fresh, wsFiles, dirs, temps, now, spent>>

\* The first half of atomic_replace_private.  It fails without the directory, and for
\* a process whose number a dead one had that left its temporary file.
CanWriteTemp(p, target, dir) == dir \in dirs /\ <<target, p>> \notin temps

WriteWorkspaceTemp(p) ==
    LET w == procs[p].delta.session[1] IN
    /\ procs[p].pc = "write_workspace"
    /\ IF CanWriteTemp(p, WorkspaceFile(w), <<w, "workspace">>)
         THEN /\ temps' = temps \cup {<<WorkspaceFile(w), p>>}
              /\ Go(p, "rename_workspace") /\ UNCHANGED locks
         ELSE Return(p) /\ UNCHANGED temps
    /\ UNCHANGED <<files, fresh, wsFiles, dirs, now, spent>>

\* merge_workspace_locked
RenameWorkspace(p) ==
    LET d == procs[p].delta
        w == d.session[1] IN
    /\ procs[p].pc = "rename_workspace"
    /\ temps' = temps \ {<<WorkspaceFile(w), p>>}
    /\ wsFiles' = [wsFiles EXCEPT ![w] = IF @ = None THEN d.at ELSE Later(@, d.at)]
    /\ Go(p, "write_session")
    /\ UNCHANGED <<files, fresh, dirs, locks, now, spent>>

\* merge_locked: the record is read, merged and written to a temporary file.
WriteSessionTemp(p) ==
    LET d == procs[p].delta
        s == d.session IN
    /\ procs[p].pc = "write_session"
    /\ IF /\ files[s] = None => Cardinality(InWorkspace(s[1])) < MaxPerWorkspace
          /\ CanWriteTemp(p, s, <<s[1], "sessions">>)
         THEN /\ temps' = temps \cup {<<s, p>>}
              /\ procs' = [procs EXCEPT ![p] =
                    [pc |-> "rename_session", delta |-> d,
                     record |-> MergeRecord(files[s], d)]]
              /\ UNCHANGED locks
         ELSE Return(p) /\ UNCHANGED temps
    /\ UNCHANGED <<files, fresh, wsFiles, dirs, now, spent>>

RenameSession(p) ==
    LET s == procs[p].delta.session IN
    /\ procs[p].pc = "rename_session"
    /\ temps' = temps \ {<<s, p>>}
    /\ files' = [files EXCEPT ![s] = procs[p].record]
    /\ fresh' = fresh \cup {s}
    /\ Return(p)
    /\ UNCHANGED <<wsFiles, dirs, now, spent>>

-----------------------------------------------------------------------------
(* prune *)

\* The workspaces are taken in the order of their directories, a number each here.
BeginPrune(p) ==
    /\ procs[p] = Idle /\ spent.prunes < MaxPrunes
    /\ spent' = [spent EXCEPT !.prunes = @ + 1]
    /\ procs' = [procs EXCEPT ![p] =
          [pc |-> "next", left |-> {w \in Workspaces : <<w, "workspace">> \in dirs},
           inspected |-> 0, time |-> now]]
    /\ UNCHANGED <<files, fresh, wsFiles, dirs, temps, locks, now>>

NextWorkspace(p) ==
    LET left == procs[p].left IN
    /\ procs[p].pc = "next"
    /\ procs' = [procs EXCEPT ![p] =
          IF left = {} THEN Idle
          ELSE LET w == CHOOSE v \in left : \A u \in left : v <= u
               IN  [pc |-> "prune", at |-> w, left |-> left \ {w},
                    inspected |-> procs[p].inspected, time |-> procs[p].time]]
    /\ UNCHANGED <<files, fresh, wsFiles, dirs, temps, locks, now, spent>>

\* The records of a workspace that fit the budget of the call, in the order of their
\* keys, are read under its lock; a workspace whose lock is taken is passed over.
Inspected(w, budget) == {s \in InWorkspace(w) :
    Cardinality({t \in InWorkspace(w) : t[2] < s[2]}) < budget}

Inspect(p) ==
    LET w   == procs[p].at
        seen == Inspected(w, Budget - procs[p].inspected) IN
    /\ procs[p].pc = "prune" /\ Free(w)
    /\ Take(p, w)
    /\ procs' = [procs EXCEPT ![p] =
          [pc |-> "remove", at |-> w, left |-> @.left, time |-> @.time,
           inspected |-> @.inspected + Cardinality(seen),
           gone |-> {s \in seen : Expired(files[s], @.time)}]]
    /\ UNCHANGED <<files, fresh, wsFiles, dirs, temps, now, spent>>

PassOver(p) ==
    /\ procs[p].pc = "prune" /\ ~Free(procs[p].at)
    /\ procs' = [procs EXCEPT ![p] =
          [pc |-> "next", left |-> @.left, inspected |-> @.inspected, time |-> @.time]]
    /\ UNCHANGED <<files, fresh, wsFiles, dirs, temps, locks, now, spent>>

\* Mutant: a workspace is taken for empty when all that was inspected of it goes.
EmptiedOfInspected(w, gone) == Inspected(w, Budget) \subseteq gone

\* A workspace without records, counted again after the removals.
Emptied(w, gone) == InWorkspace(w) \ gone = {}

\* The expired records go, and with them the lock files of their sessions, whoever
\* holds them.  The record of a workspace without sessions goes too, and its
\* directories unless a temporary file is left in them.
Remove(p) ==
    LET w      == procs[p].at
        gone   == procs[p].gone
        empty  == Emptied(w, gone)
        keptS  == \E t \in temps : t[1] \in Sessions /\ t[1][1] = w
        keptW  == \E t \in temps : t[1][1] = w
        drop   == (IF keptS THEN {} ELSE {<<w, "sessions">>})
                    \cup (IF keptW THEN {} ELSE {<<w, "workspace">>})
    IN
    /\ procs[p].pc = "remove"
    /\ files' = [s \in Sessions |-> IF s \in gone THEN None ELSE files[s]]
    /\ fresh' = fresh \ gone
    /\ wsFiles' = IF empty THEN [wsFiles EXCEPT ![w] = None] ELSE wsFiles
    /\ dirs' = IF empty THEN dirs \ drop ELSE dirs
    /\ locks' = [l \in LockFiles |->
          IF l = w \/ \E s \in gone : s[2] = l THEN None ELSE locks[l]]
    /\ procs' = [procs EXCEPT ![p] =
          [pc |-> "next", left |-> @.left, inspected |-> @.inspected, time |-> @.time]]
    /\ UNCHANGED <<temps, now, spent>>

-----------------------------------------------------------------------------
(* The surroundings *)

\* A process dies: its locks are free, its temporary file stays.
Crash(p) ==
    /\ procs[p] # Idle /\ spent.crashes < MaxCrashes
    /\ spent' = [spent EXCEPT !.crashes = @ + 1]
    /\ Return(p)
    /\ UNCHANGED <<files, fresh, wsFiles, dirs, temps, now>>

Tick ==
    /\ now < MaxTime
    /\ now' = now + 1 /\ fresh' = {}
    /\ UNCHANGED <<files, wsFiles, dirs, temps, locks, procs, spent>>

Step(p) ==
    \/ LockWorkspace(p) \/ LockCapacity(p) \/ LockSession(p) \/ GiveUp(p)
    \/ WriteWorkspaceTemp(p) \/ RenameWorkspace(p)
    \/ WriteSessionTemp(p) \/ RenameSession(p)
    \/ NextWorkspace(p) \/ Inspect(p) \/ PassOver(p) \/ Remove(p)

Next ==
    \/ \E p \in Procs : Step(p) \/ BeginPrune(p) \/ Crash(p)
    \/ \E p \in Procs, d \in Deltas : BeginMerge(p, d)
    \/ Tick

Spec == Init /\ [][Next]_vars

-----------------------------------------------------------------------------
(* Properties *)

\* However the processes interleave, give up or die, the files change as the records
\* of the index do: each merge that writes takes in its delta on top of all earlier
\* ones, the install never holds more than it may, and only what has expired goes.
Index == INSTANCE MetadataIndex WITH records <- files
ImplementsIndex == Index!Spec

\* A record never takes back what it told, in whatever order the deltas of its
\* observers arrive (the monotonic merge).
RecordsGrow ==
    [][\A s \in Sessions :
         files[s] # None /\ files'[s] # None => Grows(files[s], files'[s])]_vars

\* Every session on disk is in a workspace whose record is there and is as recent:
\* the record that the capacity counts and that a viewer finds the session by.
IndexedByWorkspace ==
    \A s \in Existing : wsFiles[s[1]] # None /\ wsFiles[s[1]] >= files[s].last
=============================================================================
