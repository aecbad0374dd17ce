-------------------------- MODULE MetadataStoreProofs --------------------------
(* What the metadata store keeps for every number of processes, workspaces,     *)
(* sessions and deltas, whatever the processes do to each other.  The argument  *)
(* is one about ownership: from the first look at a session's file to the       *)
(* rename that replaces it a merge holds the lock of its workspace, and the one *)
(* of the capacity as well when the file is new; pruning holds the lock of the  *)
(* workspace it removes from.  What a process found out under its locks is      *)
(* therefore still true when it acts on it.  The lock of the session plays no   *)
(* part, and could not: pruning unlinks it whoever holds it.                    *)
EXTENDS MetadataStore, EventDelivery, FiniteSetTheorems, TLAPS

--------------------------------------------------------------------------------
(* Records *)

RecordFields == {"observers", "discovery", "first", "last", "lifecycle", "activity",
                 "event", "agents", "started", "terminal", "revived", "partial"}

RecordOK(r) ==
    /\ RecordFields \subseteq DOMAIN r
    /\ r.observers \subseteq Nat /\ IsFiniteSet(r.observers)
    /\ r.discovery \in Nat /\ r.first \in Nat /\ r.last \in Nat /\ r.terminal \in Nat
    /\ r.started \in BOOLEAN /\ r.partial \in BOOLEAN

DeltaOK(d) ==
    /\ d.session \in Sessions /\ d.observer \in Nat /\ d.at \in Nat
    /\ d.discovery \in Nat /\ d.terminal \in Nat

\* A list that is truncated loses nothing when it is no longer than the bound.
LEMMA SmallestIsAll ==
  ASSUME NEW S, IsFiniteSet(S), NEW n \in Nat
  PROVE  /\ Smallest(S, n) \in SUBSET S
         /\ IsFiniteSet(Smallest(S, n))
         /\ S \subseteq Nat /\ Cardinality(S) <= n => Smallest(S, n) = S
<1>1. Smallest(S, n) \in SUBSET S
  BY DEF Smallest
<1>2. ASSUME S \subseteq Nat, Cardinality(S) <= n, NEW x \in S
      PROVE  Cardinality({y \in S : y < x}) < n
  <2> DEFINE T == {y \in S : y < x}
  <2>1. T \in SUBSET S /\ T # S
    BY <1>2
  <2>2. IsFiniteSet(T) /\ Cardinality(T) # Cardinality(S) /\ Cardinality(T) <= Cardinality(S)
    BY <2>1, FS_Subset
  <2> QED
    BY <1>2, <2>2, FS_CardinalityType
<1>3. S \subseteq Nat /\ Cardinality(S) <= n => Smallest(S, n) = S
  BY <1>2 DEF Smallest
<1> QED
  BY <1>1, <1>3, FS_Subset

LEMMA EmptyRecordOK ==
  ASSUME NEW d, DeltaOK(d)
  PROVE  RecordOK(EmptyRecord(d)) /\ EmptyRecord(d).last = d.at
BY FS_EmptySet DEF DeltaOK, RecordOK, EmptyRecord, RecordFields

\* The newest delta moves the last report, and takes back nothing.
LEMMA TakeNewestFacts ==
  ASSUME NEW r, RecordOK(r), NEW d, DeltaOK(d)
  PROVE  LET s == TakeNewest(r, d)
         IN  /\ RecordFields \subseteq DOMAIN s
             /\ s.last = d.at /\ s.first = r.first
             /\ s.observers = r.observers /\ s.partial = r.partial
             /\ s.discovery \in Nat /\ s.discovery >= r.discovery
             /\ s.started \in BOOLEAN /\ (r.started => s.started)
             /\ s.terminal \in Nat /\ s.terminal >= r.terminal
<1> DEFINE s == TakeNewest(r, d)
<1> USE DEF RecordOK, RecordFields
<1>1. RecordFields \subseteq DOMAIN s
  BY DEF TakeNewest
<1>2. /\ s.last = d.at /\ s.first = r.first
      /\ s.observers = r.observers /\ s.partial = r.partial
  BY DEF TakeNewest
<1>3. s.discovery = Later(r.discovery, d.discovery)
  BY DEF TakeNewest
<1>4. s.started = (r.started \/ d.discovery = 1)
  BY DEF TakeNewest
<1>5. s.terminal = IF d.terminal # 0 /\ d.terminal >= r.terminal THEN d.terminal
                   ELSE r.terminal
  BY DEF TakeNewest
<1> HIDE DEF s
<1> QED
  BY <1>1, <1>2, <1>3, <1>4, <1>5 DEF DeltaOK, Later, s

\* merge_record, whichever way the delta and the record are ordered in time.
LEMMA MergeFacts ==
  ASSUME NEW r, r = None \/ RecordOK(r), NEW d, DeltaOK(d)
  PROVE  LET s == MergeRecord(r, d)
         IN  /\ RecordOK(s)
             /\ r = None => s.last = d.at
             /\ r # None => s.last = Later(r.last, d.at) /\ Grows(r, s)
<1> DEFINE base  == IF r = None THEN EmptyRecord(d) ELSE r
           aged  == [base EXCEPT !.first = Earlier(base.first, d.at)]
           updated == TakeInOrder(aged, d)
           observers == base.observers \cup {d.observer}
           agents == DOMAIN base.agents \cup {u[1] : u \in d.agents}
           kept  == Smallest(observers, MaxObservers)
           full  == base.partial \/ Cardinality(observers) > MaxObservers
                                 \/ Cardinality(agents) > MaxAgents
           merged == [updated EXCEPT !.observers = kept,
                                   !.agents = MergeAgents(base.agents, d.agents),
                                   !.partial = full]
<1>1. RecordOK(base) /\ (r = None => base.last = d.at)
  BY EmptyRecordOK
<1>2. MergeRecord(r, d) = merged
  BY DEF MergeRecord
<1>3. /\ observers \subseteq Nat /\ IsFiniteSet(observers) /\ Cardinality(observers) \in Nat
      /\ MaxObservers \in Nat
  <2>1. base.observers \subseteq Nat /\ IsFiniteSet(base.observers) /\ d.observer \in Nat
    BY <1>1 DEF RecordOK, DeltaOK
  <2> HIDE DEF base
  <2>2. IsFiniteSet(observers)
    BY <2>1, FS_AddElement
  <2> QED
    BY <2>1, <2>2, FS_CardinalityType, RecordBounds
<1>4. /\ kept \subseteq Nat /\ IsFiniteSet(kept)
      /\ Cardinality(observers) <= MaxObservers => kept = observers
  <2> HIDE DEF observers
  <2> QED
    BY <1>3, SmallestIsAll
<1> HIDE DEF base
<1>5. /\ RecordOK(aged) /\ aged.last = base.last /\ aged.first <= base.first
      /\ aged.discovery = base.discovery /\ aged.started = base.started
      /\ aged.terminal = base.terminal
  BY <1>1 DEF RecordOK, RecordFields, Earlier, DeltaOK
<1> HIDE DEF aged
<1>6. /\ RecordFields \subseteq DOMAIN updated
      /\ updated.last = Later(base.last, d.at) /\ updated.first = aged.first
      /\ updated.discovery \in Nat /\ updated.discovery >= base.discovery
      /\ updated.started \in BOOLEAN /\ (base.started => updated.started)
      /\ updated.terminal \in Nat /\ updated.terminal >= base.terminal
  <2>1. CASE d.at >= aged.last
    BY <2>1, <1>5, TakeNewestFacts DEF TakeInOrder, Later, RecordOK, DeltaOK
  <2>2. CASE ~(d.at >= aged.last)
    BY <2>2, <1>5 DEF TakeInOrder, Later, RecordOK, DeltaOK
  <2> QED
    BY <2>1, <2>2
<1> HIDE DEF updated, kept, full, observers
<1>7. /\ RecordFields \subseteq DOMAIN merged
      /\ merged.last = updated.last /\ merged.first = updated.first
      /\ merged.discovery = updated.discovery /\ merged.started = updated.started
      /\ merged.terminal = updated.terminal
      /\ merged.observers = kept /\ merged.partial = full
  BY <1>6 DEF RecordFields
<1> HIDE DEF merged
<1>8. full \in BOOLEAN /\ (base.partial => full)
      /\ (Cardinality(observers) > MaxObservers => full)
  BY DEF full
<1>9. RecordOK(merged)
  BY <1>1, <1>4, <1>5, <1>6, <1>7, <1>8 DEF RecordOK, DeltaOK, Later
<1>10. base.observers \subseteq merged.observers \/ merged.partial
  <2>1. CASE Cardinality(observers) <= MaxObservers
    BY <2>1, <1>4, <1>7 DEF observers
  <2>2. CASE Cardinality(observers) > MaxObservers
    BY <2>2, <1>7, <1>8
  <2> QED
    BY <2>1, <2>2, <1>3
<1>11. Grows(base, merged)
  BY <1>1, <1>5, <1>6, <1>7, <1>8, <1>10 DEF Grows, RecordOK, Later, DeltaOK
<1>12. r = None => merged.last = d.at
  BY <1>1, <1>6, <1>7 DEF Later, DeltaOK
<1>13. r # None => merged.last = Later(r.last, d.at) /\ Grows(r, merged)
  BY <1>6, <1>7, <1>11 DEF base
<1> QED
  BY <1>2, <1>9, <1>12, <1>13


--------------------------------------------------------------------------------
(* What a process knows *)

Merges == {"capacity", "session", "write_workspace", "rename_workspace",
           "write_session", "rename_session"}

SessionOf(p) == procs[p].delta.session
WorkspaceOf(p) == SessionOf(p)[1]

\* What a merge knows in each of its states: it owns its workspace; when the session
\* is new it owns the capacity too, and there is room; the workspace's record is
\* written before the session's; and what it is about to write is the merge of its
\* delta with what is in the file.
MergeKnows(p) ==
    /\ procs[p].pc \in Merges \cup {"workspace"} =>
          {"pc", "delta"} \subseteq DOMAIN procs[p] /\ procs[p].delta \in Deltas
    /\ procs[p].pc \in Merges => locks[WorkspaceOf(p)] = p
    /\ procs[p].pc \in Merges \ {"capacity"} /\ files[SessionOf(p)] = None =>
          locks[Capacity] = p /\ Cardinality(Existing) < MaxSessions
    /\ procs[p].pc \in {"write_session", "rename_session"} =>
          wsFiles[WorkspaceOf(p)] # None /\ wsFiles[WorkspaceOf(p)] >= procs[p].delta.at
    /\ procs[p].pc = "rename_session" =>
          /\ procs[p].record = MergeRecord(files[SessionOf(p)], procs[p].delta)
          /\ files[SessionOf(p)] = None =>
                Cardinality(InWorkspace(WorkspaceOf(p))) < MaxPerWorkspace

\* What pruning knows: the time it began at has passed, and the records it is about
\* to remove are those of the workspace it owns, and have expired.
PruneKnows(p) ==
    /\ procs[p].pc \in {"next", "prune", "remove"} =>
          procs[p].left \subseteq Workspaces /\ procs[p].time \in Nat /\ procs[p].time <= now
    /\ procs[p].pc \in {"prune", "remove"} => procs[p].at \in Workspaces
    /\ procs[p].pc = "remove" =>
          /\ locks[procs[p].at] = p
          /\ procs[p].gone \subseteq InWorkspace(procs[p].at)
          /\ \A s \in procs[p].gone : Expired(files[s], procs[p].time)

Knows(p) == MergeKnows(p) /\ PruneKnows(p)

StoreTypes ==
    /\ files = [s \in Sessions |-> files[s]]
    /\ \A s \in Sessions : files[s] = None \/ RecordOK(files[s])
    /\ wsFiles \in [Workspaces -> Nat \cup {None}]
    /\ locks \in [LockFiles -> Procs \cup {None}]
    /\ procs = [p \in Procs |-> procs[p]]
    /\ now \in Nat

StoreInv ==
    /\ StoreTypes
    /\ IndexedByWorkspace
    /\ \A p \in Procs : Knows(p)


--------------------------------------------------------------------------------
(* Steps *)

\* The locks that ownership is about, and those that a process keeps in a step.
Owned == Workspaces \cup {Capacity}
Keeps(q) == \A l \in Owned : locks[l] = q => locks'[l] = q

LEMMA DeltasOK == ASSUME NEW d \in Deltas PROVE DeltaOK(d)
BY ProjectedDeltas DEF DeltaOK

LEMMA SessionParts ==
  ASSUME NEW s \in Sessions
  PROVE  s[1] \in Workspaces /\ s[2] \in Keys /\ s[1] \in Owned /\ s[1] \in LockFiles
BY DEF Sessions, Owned, LockFiles

\* No lock of a session is one of those.
LEMMA OwnedAreNoKeys == Owned \subseteq LockFiles /\ Owned \cap Keys = {}
BY NumberedNames DEF Owned, LockFiles

LEMMA SmallestOfNumbers ==
  ASSUME NEW S \in SUBSET Nat, S # {}
  PROVE  \E n \in S : \A m \in S : n <= m
<1> DEFINE R == OpToRel(<, Nat)
<1>1. IsWellFoundedOn(R, Nat)
  BY NatLessThanWellFounded
<1>2. \A x, y \in Nat : x < y => <<x, y>> \in R
  BY DEF OpToRel
<1> HIDE DEF R
<1>3. PICK n \in S : \A m \in S : ~(<<m, n>> \in R)
  BY <1>1, WFMin
<1>4. ASSUME NEW m \in S PROVE n <= m
  <2>1. m \in Nat /\ n \in Nat /\ ~(m < n)
    BY <1>2, <1>3
  <2> QED
    BY <2>1
<1> QED
  BY <1>4

LEMMA FinitelyMany ==
  /\ IsFiniteSet(Sessions)
  /\ \A S \in SUBSET Sessions : IsFiniteSet(S) /\ Cardinality(S) \in Nat
  /\ \A S \in SUBSET Sessions : \A T \in SUBSET S : Cardinality(T) <= Cardinality(S)
<1>1. IsFiniteSet(Sessions)
  BY NumberedNames, FS_Product DEF Sessions
<1>2. ASSUME NEW S \in SUBSET Sessions PROVE IsFiniteSet(S) /\ Cardinality(S) \in Nat
  BY <1>1, FS_Subset, FS_CardinalityType
<1>3. ASSUME NEW S \in SUBSET Sessions, NEW T \in SUBSET S
      PROVE  Cardinality(T) <= Cardinality(S)
  BY <1>2, FS_Subset
<1> QED
  BY <1>1, <1>2, <1>3

\* A step of somebody else leaves what a process knows as it was, provided that it
\* spares what the process owns.
LEMMA OthersKnow ==
  ASSUME StoreInv, NEW q \in Procs, procs'[q] = procs[q], Keeps(q),
         now' \in Nat, now <= now',
         \A w \in Workspaces : locks[w] = q => wsFiles'[w] = wsFiles[w],
         \A s \in Sessions : locks[s[1]] = q => files'[s] = files[s],
         locks[Capacity] = q => Existing' \subseteq Existing
  PROVE  Knows(q)'
<1> DEFINE pc == procs[q].pc
           d == procs[q].delta
           s == SessionOf(q)
           w == WorkspaceOf(q)
<1>1. Knows(q) /\ SessionOf(q)' = s /\ WorkspaceOf(q)' = w /\ Capacity \in Owned
  BY DEF StoreInv, SessionOf, WorkspaceOf, Owned
<1>2. ASSUME pc \in Merges
      PROVE  /\ locks[w] = q /\ s \in Sessions /\ w \in Workspaces /\ w \in Owned
             /\ files'[s] = files[s] /\ wsFiles'[w] = wsFiles[w]
             /\ InWorkspace(w)' = InWorkspace(w)
  <2>1. locks[w] = q /\ s \in Sessions
    BY <1>1, <1>2, DeltasOK DEF Knows, MergeKnows, SessionOf, DeltaOK
  <2>2. w \in Workspaces /\ w \in Owned
    BY <2>1, SessionParts DEF WorkspaceOf
  <2>3. files'[s] = files[s] /\ wsFiles'[w] = wsFiles[w]
    BY <2>1, <2>2 DEF WorkspaceOf
  <2>4. \A t \in Sessions : t[1] = w => files'[t] = files[t]
    BY <2>1
  <2> QED
    BY <1>1, <2>1, <2>2, <2>3, <2>4 DEF InWorkspace, Existing
<1>3. MergeKnows(q)'
  <2>1. pc \in Merges => (locks[w] = q)'
    BY <1>1, <1>2 DEF Keeps
  <2>2. ASSUME pc \in Merges \ {"capacity"}, (files[s] = None)'
        PROVE  (locks[Capacity] = q)' /\ Cardinality(Existing') < MaxSessions
    <3>1. locks[Capacity] = q /\ Cardinality(Existing) < MaxSessions
      BY <1>1, <1>2, <2>2 DEF Knows, MergeKnows
    <3>2. Existing' \in SUBSET Existing /\ Existing \in SUBSET Sessions
      BY <3>1 DEF Existing
    <3>3. Cardinality(Existing') <= Cardinality(Existing)
          /\ Cardinality(Existing') \in Nat /\ Cardinality(Existing) \in Nat
      BY <3>2, FinitelyMany
    <3> QED
      BY <1>1, <3>1, <3>3, StoreBounds DEF Keeps
  <2>3. pc = "rename_session" => InWorkspace(w)' = InWorkspace(w) /\ files'[s] = files[s]
    BY <1>2 DEF Merges
  <2>4. pc \in {"write_session", "rename_session"} => wsFiles'[w] = wsFiles[w]
    BY <1>2 DEF Merges
  <2> HIDE DEF s, w
  <2> QED
    BY <1>1, <2>1, <2>2, <2>3, <2>4 DEF Knows, MergeKnows, Merges, s, w
<1>4. PruneKnows(q)'
  <2>1. ASSUME pc = "remove"
        PROVE  /\ locks[procs[q].at] = q /\ procs[q].at \in Owned
               /\ InWorkspace(procs[q].at)' = InWorkspace(procs[q].at)
               /\ \A t \in procs[q].gone : files'[t] = files[t]
    <3>1. /\ locks[procs[q].at] = q /\ procs[q].at \in Workspaces
          /\ procs[q].gone \subseteq InWorkspace(procs[q].at)
      BY <1>1, <2>1 DEF Knows, PruneKnows
    <3>2. \A t \in Sessions : t[1] = procs[q].at => files'[t] = files[t]
      BY <3>1
    <3> QED
      BY <3>1, <3>2 DEF InWorkspace, Existing, Owned
  <2>2. procs[q].time \in Nat /\ procs[q].time <= now => procs[q].time <= now'
    BY DEF StoreInv, StoreTypes
  <2> QED
    BY <1>1, <2>1, <2>2 DEF Knows, PruneKnows, Keeps, Expired
<1> QED
  BY <1>3, <1>4 DEF Knows


\* What every step of a process p has to do with the locks and the other processes.
Alone(p) ==
    /\ locks' \in [LockFiles -> Procs \cup {None}]
    /\ procs' = [q \in Procs |-> procs'[q]]
    /\ \A q \in Procs \ {p} : procs'[q] = procs[q] /\ Keeps(q)

LEMMA OneMoves ==
  ASSUME StoreInv, NEW p \in Procs, NEW x, procs' = [procs EXCEPT ![p] = x],
         locks' = locks \/ (\E l \in LockFiles : Free(l) /\ Take(p, l))
  PROVE  Alone(p) /\ procs'[p] = x
BY NoneIsNobody, OwnedAreNoKeys DEF StoreInv, StoreTypes, Alone, Keeps, Free, Take

LEMMA OneGoes ==
  ASSUME StoreInv, NEW p \in Procs, NEW pc, Go(p, pc), {"pc", "delta"} \subseteq DOMAIN procs[p],
         locks' = locks \/ (\E l \in LockFiles : Free(l) /\ Take(p, l))
  PROVE  /\ Alone(p) /\ procs'[p].pc = pc /\ procs'[p].delta = procs[p].delta
         /\ {"pc", "delta"} \subseteq DOMAIN procs'[p]
         /\ SessionOf(p)' = SessionOf(p) /\ WorkspaceOf(p)' = WorkspaceOf(p)
<1> DEFINE x == [procs[p] EXCEPT !.pc = pc]
<1>1. procs' = [procs EXCEPT ![p] = x]
  BY DEF Go
<1>2. x.pc = pc /\ x.delta = procs[p].delta /\ {"pc", "delta"} \subseteq DOMAIN x
  OBVIOUS
<1> HIDE DEF x
<1>3. Alone(p) /\ procs'[p] = x
  BY <1>1, OneMoves
<1> QED
  BY <1>2, <1>3 DEF SessionOf, WorkspaceOf

\* Dropping one's own locks spares those of the others.
LEMMA ReturnIsAlone ==
  ASSUME StoreInv, NEW p \in Procs, Return(p)
  PROVE  Alone(p) /\ Knows(p)'
<1>1. procs'[p] = Idle
  BY DEF StoreInv, StoreTypes, Return
<1>2. Knows(p)'
  BY <1>1 DEF Knows, MergeKnows, PruneKnows, Idle, Merges
<1>3. Alone(p)
  BY OwnedAreNoKeys, NoneIsNobody
     DEF StoreInv, StoreTypes, Return, ReleaseAll, Held, Alone, Keeps
<1> QED
  BY <1>2, <1>3

\* A step that changes no file.
LEMMA QuietStep ==
  ASSUME StoreInv, NEW p \in Procs, UNCHANGED <<files, wsFiles, now>>, Alone(p), Knows(p)'
  PROVE  StoreInv'
<1>1. StoreTypes' /\ IndexedByWorkspace'
  BY DEF StoreInv, StoreTypes, IndexedByWorkspace, Existing, Alone
<1>2. Existing' = Existing
  BY DEF Existing
<1>3. ASSUME NEW q \in Procs, q # p PROVE Knows(q)'
  BY <1>2, <1>3, OthersKnow DEF Alone, StoreInv, StoreTypes
<1> QED
  BY <1>1, <1>3 DEF StoreInv


--------------------------------------------------------------------------------
(* The steps of a merge *)

LEMMA MergeDelta ==
  ASSUME StoreInv, NEW p \in Procs, procs[p].pc \in Merges \cup {"workspace"}
  PROVE  /\ {"pc", "delta"} \subseteq DOMAIN procs[p]
         /\ procs[p].delta \in Deltas /\ DeltaOK(procs[p].delta)
         /\ SessionOf(p) \in Sessions
         /\ WorkspaceOf(p) \in Workspaces /\ WorkspaceOf(p) \in LockFiles
BY DeltasOK, SessionParts
   DEF StoreInv, Knows, MergeKnows, SessionOf, WorkspaceOf, DeltaOK

LEMMA BeginMergeStep ==
  ASSUME StoreInv, NEW p \in Procs, NEW d \in Deltas, BeginMerge(p, d)
  PROVE  StoreInv'
<1>1. CASE procs' = procs
  <2>1. Alone(p) /\ Knows(p)'
    BY <1>1, OthersKnow DEF BeginMerge, Alone, Keeps, StoreInv, StoreTypes, Existing
  <2> QED
    BY <2>1, QuietStep DEF BeginMerge
<1>2. CASE procs' = [procs EXCEPT ![p] = [pc |-> "workspace", delta |-> d]]
  <2>1. Alone(p) /\ procs'[p] = [pc |-> "workspace", delta |-> d]
    BY <1>2, OneMoves DEF BeginMerge
  <2>2. Knows(p)'
    BY <2>1 DEF Knows, MergeKnows, PruneKnows, Merges
  <2> QED
    BY <2>1, <2>2, QuietStep DEF BeginMerge
<1> QED
  BY <1>1, <1>2 DEF BeginMerge

LEMMA LockWorkspaceStep ==
  ASSUME StoreInv, NEW p \in Procs, LockWorkspace(p)
  PROVE  StoreInv'
<1> DEFINE w == WorkspaceOf(p)
           pc == IF files[SessionOf(p)] = None THEN "capacity" ELSE "session"
<1>1. Free(w) /\ Take(p, w) /\ Go(p, pc) /\ procs[p].pc = "workspace"
  BY DEF LockWorkspace, WorkspaceOf, SessionOf
<1>2. /\ {"pc", "delta"} \subseteq DOMAIN procs[p] /\ procs[p].delta \in Deltas
      /\ w \in Workspaces /\ w \in LockFiles
  BY <1>1, MergeDelta
<1> HIDE DEF w, pc
<1>3. /\ Alone(p) /\ procs'[p].pc = pc /\ procs'[p].delta = procs[p].delta
      /\ {"pc", "delta"} \subseteq DOMAIN procs'[p]
      /\ SessionOf(p)' = SessionOf(p) /\ WorkspaceOf(p)' = w
  BY <1>1, <1>2, OneGoes DEF w
<1>4. locks'[w] = p
  BY <1>1, <1>2 DEF Take, StoreInv, StoreTypes
<1>5. Knows(p)'
  BY <1>2, <1>3, <1>4 DEF Knows, MergeKnows, PruneKnows, Merges, LockWorkspace, pc
<1> QED
  BY <1>3, <1>5, QuietStep DEF LockWorkspace

LEMMA LockCapacityStep ==
  ASSUME StoreInv, NEW p \in Procs, LockCapacity(p)
  PROVE  StoreInv'
<1>1. ASSUME Return(p) PROVE StoreInv'
  BY <1>1, ReturnIsAlone, QuietStep DEF LockCapacity
<1>2. ASSUME HasCapacity(WorkspaceOf(p)), Take(p, Capacity), Go(p, "session") PROVE StoreInv'
  <2>1. /\ procs[p].pc = "capacity" /\ Free(Capacity) /\ Capacity \in LockFiles
        /\ Cardinality(Existing) < MaxSessions
    BY <1>2 DEF LockCapacity, HasCapacity, LockFiles
  <2>2. {"pc", "delta"} \subseteq DOMAIN procs[p] /\ procs[p].delta \in Deltas
        /\ WorkspaceOf(p) \in Workspaces /\ WorkspaceOf(p) \in LockFiles
    BY <2>1, MergeDelta DEF Merges
  <2>3. /\ Alone(p) /\ procs'[p].pc = "session" /\ procs'[p].delta = procs[p].delta
        /\ {"pc", "delta"} \subseteq DOMAIN procs'[p]
        /\ SessionOf(p)' = SessionOf(p) /\ WorkspaceOf(p)' = WorkspaceOf(p)
    BY <1>2, <2>1, <2>2, OneGoes
  <2>4. locks'[Capacity] = p /\ locks'[WorkspaceOf(p)] = p
    <3>1. locks[WorkspaceOf(p)] = p
      BY <2>1 DEF StoreInv, Knows, MergeKnows, Merges
    <3> QED
      BY <1>2, <2>1, <2>2, <3>1 DEF Take, StoreInv, StoreTypes
  <2>5. Existing' = Existing
    BY DEF LockCapacity, Existing
  <2>6. Knows(p)'
    BY <2>1, <2>2, <2>3, <2>4, <2>5 DEF Knows, MergeKnows, PruneKnows, Merges
  <2> QED
    BY <2>3, <2>6, QuietStep DEF LockCapacity
<1> QED
  BY <1>1, <1>2 DEF LockCapacity, WorkspaceOf, SessionOf

\* Between the lock of the capacity and the rename nothing is learnt but the time in
\* workspace.meta and the merged record.
LEMMA LockSessionStep ==
  ASSUME StoreInv, NEW p \in Procs, LockSession(p)
  PROVE  StoreInv'
<1> DEFINE k == SessionOf(p)[2]
<1>1. /\ procs[p].pc = "session" /\ Free(k) /\ Take(p, k) /\ Go(p, "write_workspace")
      /\ UNCHANGED <<files, wsFiles, now>>
  BY DEF LockSession, SessionOf
<1>2. /\ {"pc", "delta"} \subseteq DOMAIN procs[p] /\ procs[p].delta \in Deltas
      /\ SessionOf(p) \in Sessions /\ k \in LockFiles /\ k \notin Owned
      /\ WorkspaceOf(p) \in Owned
  BY <1>1, MergeDelta, SessionParts, OwnedAreNoKeys DEF Merges, LockFiles, Owned
<1> HIDE DEF k
<1>3. /\ Alone(p) /\ procs'[p].pc = "write_workspace" /\ procs'[p].delta = procs[p].delta
      /\ {"pc", "delta"} \subseteq DOMAIN procs'[p]
      /\ SessionOf(p)' = SessionOf(p) /\ WorkspaceOf(p)' = WorkspaceOf(p)
  BY <1>1, <1>2, OneGoes
<1>4. locks'[WorkspaceOf(p)] = locks[WorkspaceOf(p)] /\ locks'[Capacity] = locks[Capacity]
  BY <1>1, <1>2, OwnedAreNoKeys DEF Take, StoreInv, StoreTypes, Owned
<1>5. Existing' = Existing
  BY <1>1 DEF Existing
<1>6. Knows(p)'
  BY <1>1, <1>2, <1>3, <1>4, <1>5 DEF Knows, MergeKnows, PruneKnows, Merges, StoreInv
<1> QED
  BY <1>1, <1>3, <1>6, QuietStep

LEMMA WriteWorkspaceTempStep ==
  ASSUME StoreInv, NEW p \in Procs, WriteWorkspaceTemp(p)
  PROVE  StoreInv'
<1>1. ASSUME Return(p) PROVE StoreInv'
  BY <1>1, ReturnIsAlone, QuietStep DEF WriteWorkspaceTemp
<1>2. ASSUME Go(p, "rename_workspace"), UNCHANGED locks PROVE StoreInv'
  <2>1. procs[p].pc = "write_workspace" /\ UNCHANGED <<files, wsFiles, now>>
    BY DEF WriteWorkspaceTemp
  <2>2. {"pc", "delta"} \subseteq DOMAIN procs[p] /\ procs[p].delta \in Deltas
    BY <2>1, MergeDelta DEF Merges
  <2>3. /\ Alone(p) /\ procs'[p].pc = "rename_workspace" /\ procs'[p].delta = procs[p].delta
        /\ {"pc", "delta"} \subseteq DOMAIN procs'[p]
        /\ SessionOf(p)' = SessionOf(p) /\ WorkspaceOf(p)' = WorkspaceOf(p)
    BY <1>2, <2>2, OneGoes
  <2>4. Existing' = Existing
    BY <2>1 DEF Existing
  <2>5. Knows(p)'
    BY <1>2, <2>1, <2>2, <2>3, <2>4 DEF Knows, MergeKnows, PruneKnows, Merges, StoreInv
  <2> QED
    BY <2>1, <2>3, <2>5, QuietStep
<1> QED
  BY <1>1, <1>2 DEF WriteWorkspaceTemp


\* workspace.meta only gets younger, so that no session of the workspace is ahead.
LEMMA RenameWorkspaceStep ==
  ASSUME StoreInv, NEW p \in Procs, RenameWorkspace(p)
  PROVE  StoreInv'
<1> DEFINE w == WorkspaceOf(p)
           d == procs[p].delta
<1>1. /\ procs[p].pc = "rename_workspace" /\ Go(p, "write_session")
      /\ wsFiles' = [wsFiles EXCEPT ![w] = IF @ = None THEN d.at ELSE Later(@, d.at)]
      /\ UNCHANGED <<files, locks, now>>
  BY DEF RenameWorkspace, WorkspaceOf, SessionOf
<1>2. /\ {"pc", "delta"} \subseteq DOMAIN procs[p] /\ d \in Deltas /\ d.at \in Nat
      /\ w \in Workspaces /\ locks[w] = p
  BY <1>1, MergeDelta DEF Merges, StoreInv, Knows, MergeKnows, DeltaOK
<1>3. /\ Alone(p) /\ procs'[p].pc = "write_session" /\ procs'[p].delta = d
      /\ {"pc", "delta"} \subseteq DOMAIN procs'[p]
      /\ SessionOf(p)' = SessionOf(p) /\ WorkspaceOf(p)' = w
  BY <1>1, <1>2, OneGoes
<1> HIDE DEF w, d
<1>4. /\ wsFiles' \in [Workspaces -> Nat \cup {None}]
      /\ wsFiles'[w] # None /\ wsFiles'[w] >= d.at
      /\ wsFiles[w] # None => wsFiles'[w] >= wsFiles[w]
      /\ \A v \in Workspaces \ {w} : wsFiles'[v] = wsFiles[v]
  BY <1>1, <1>2, NoneIsNobody DEF StoreInv, StoreTypes, Later
<1>5. Existing' = Existing
  BY <1>1 DEF Existing
<1>6. Knows(p)'
  BY <1>1, <1>2, <1>3, <1>4, <1>5 DEF Knows, MergeKnows, PruneKnows, Merges, StoreInv
<1>7. ASSUME NEW q \in Procs, q # p PROVE Knows(q)'
  BY <1>1, <1>2, <1>3, <1>4, <1>5, <1>7, OthersKnow DEF Alone, StoreInv, StoreTypes
<1>8. StoreTypes'
  BY <1>1, <1>3, <1>4 DEF StoreInv, StoreTypes, Alone
<1>9. IndexedByWorkspace'
  <2> SUFFICES ASSUME NEW s \in Existing
               PROVE  wsFiles'[s[1]] # None /\ wsFiles'[s[1]] >= files[s].last
    BY <1>1, <1>5 DEF IndexedByWorkspace
  <2>1. /\ wsFiles[s[1]] # None /\ wsFiles[s[1]] >= files[s].last
        /\ s[1] \in Workspaces /\ files[s].last \in Nat
    BY SessionParts DEF StoreInv, StoreTypes, IndexedByWorkspace, Existing, RecordOK
  <2>2. wsFiles[s[1]] \in Nat /\ wsFiles'[s[1]] \in Nat \cup {None}
    BY <2>1, <1>4 DEF StoreInv, StoreTypes
  <2> QED
    BY <1>4, <2>1, <2>2
<1> QED
  BY <1>6, <1>7, <1>8, <1>9 DEF StoreInv

LEMMA WriteSessionTempStep ==
  ASSUME StoreInv, NEW p \in Procs, WriteSessionTemp(p)
  PROVE  StoreInv'
<1> DEFINE s == SessionOf(p)
           d == procs[p].delta
           x == [pc |-> "rename_session", delta |-> d, record |-> MergeRecord(files[s], d)]
<1>1. ASSUME Return(p) PROVE StoreInv'
  BY <1>1, ReturnIsAlone, QuietStep DEF WriteSessionTemp
<1>2. ASSUME files[s] = None => Cardinality(InWorkspace(WorkspaceOf(p))) < MaxPerWorkspace,
             procs' = [procs EXCEPT ![p] = x], UNCHANGED locks
      PROVE  StoreInv'
  <2>1. procs[p].pc = "write_session" /\ UNCHANGED <<files, wsFiles, now>>
    BY DEF WriteSessionTemp
  <2>2. {"pc", "delta"} \subseteq DOMAIN procs[p] /\ d \in Deltas
    BY <2>1, MergeDelta DEF Merges
  <2>3. Alone(p) /\ procs'[p] = x
    BY <1>2, OneMoves
  <2>4. /\ {"pc", "delta"} \subseteq DOMAIN procs'[p] /\ procs'[p].pc = "rename_session"
        /\ procs'[p].delta = d /\ procs'[p].record = MergeRecord(files[s], d)
        /\ SessionOf(p)' = s /\ WorkspaceOf(p)' = WorkspaceOf(p)
    BY <2>3 DEF SessionOf, WorkspaceOf
  <2>5. Existing' = Existing /\ InWorkspace(WorkspaceOf(p))' = InWorkspace(WorkspaceOf(p))
    BY <2>1, <2>4 DEF Existing, InWorkspace
  <2> HIDE DEF x, s, d
  <2>6. Knows(p)'
    BY <1>2, <2>1, <2>2, <2>4, <2>5
       DEF Knows, MergeKnows, PruneKnows, Merges, StoreInv, s, d
  <2> QED
    BY <2>1, <2>3, <2>6, QuietStep
<1> QED
  BY <1>1, <1>2 DEF WriteSessionTemp, SessionOf, WorkspaceOf

\* What the rename of a session's file does, seen from outside: the record is merged as
\* if nobody else wrote, and a new one finds room in the workspace and in the store.
LEMMA RenameSessionMerges ==
  ASSUME StoreInv, NEW p \in Procs, RenameSession(p)
  PROVE  /\ procs[p].delta \in Deltas /\ DeltaOK(procs[p].delta)
         /\ SessionOf(p) \in Sessions /\ WorkspaceOf(p) \in Workspaces
         /\ locks[WorkspaceOf(p)] = p
         /\ files' = [files EXCEPT ![SessionOf(p)] =
                        MergeRecord(files[SessionOf(p)], procs[p].delta)]
         /\ wsFiles[WorkspaceOf(p)] \in Nat
         /\ wsFiles[WorkspaceOf(p)] >= procs[p].delta.at
         /\ files[SessionOf(p)] = None =>
              /\ locks[Capacity] = p
              /\ Cardinality(Existing) < MaxSessions
              /\ Cardinality(InWorkspace(WorkspaceOf(p))) < MaxPerWorkspace
         /\ UNCHANGED <<wsFiles, now>>
<1>1. procs[p].pc = "rename_session" /\ Knows(p) /\ UNCHANGED <<wsFiles, now>>
      /\ files' = [files EXCEPT ![SessionOf(p)] = procs[p].record]
  BY DEF RenameSession, StoreInv, SessionOf
<1>2. /\ procs[p].delta \in Deltas /\ DeltaOK(procs[p].delta)
      /\ SessionOf(p) \in Sessions /\ WorkspaceOf(p) \in Workspaces
  BY <1>1, MergeDelta DEF Merges
<1> QED
  BY <1>1, <1>2 DEF Knows, MergeKnows, Merges, StoreInv, StoreTypes

LEMMA RenameSessionStep ==
  ASSUME StoreInv, NEW p \in Procs, RenameSession(p)
  PROVE  StoreInv'
<1> DEFINE s == SessionOf(p)
           w == WorkspaceOf(p)
           d == procs[p].delta
           r == MergeRecord(files[s], d)
<1>1. /\ d \in Deltas /\ DeltaOK(d) /\ s \in Sessions /\ w \in Workspaces /\ s[1] = w
      /\ locks[w] = p /\ wsFiles[w] \in Nat /\ wsFiles[w] >= d.at
      /\ files' = [files EXCEPT ![s] = r]
      /\ files[s] = None => locks[Capacity] = p
      /\ UNCHANGED <<wsFiles, now>>
  BY RenameSessionMerges DEF WorkspaceOf
<1>2. /\ RecordOK(r)
      /\ files[s] = None => r.last = d.at
      /\ files[s] # None => r.last = Later(files[s].last, d.at)
  BY <1>1, MergeFacts DEF StoreInv, StoreTypes
<1>3. Alone(p) /\ Knows(p)'
  BY ReturnIsAlone DEF RenameSession
<1> HIDE DEF s, w, d, r
<1>4. files' = [t \in Sessions |-> files'[t]] /\ files'[s] = r
      /\ \A t \in Sessions \ {s} : files'[t] = files[t]
  BY <1>1 DEF StoreInv, StoreTypes
<1>5. ASSUME NEW q \in Procs, q # p PROVE Knows(q)'
  <2>1. \A t \in Sessions : locks[t[1]] = q => files'[t] = files[t]
    BY <1>1, <1>4, <1>5
  <2>2. locks[Capacity] = q => Existing' \subseteq Existing
    BY <1>1, <1>4, <1>5 DEF Existing
  <2> QED
    BY <1>1, <1>3, <1>5, <2>1, <2>2, OthersKnow DEF Alone, StoreInv, StoreTypes
<1>6. StoreTypes'
  BY <1>1, <1>2, <1>3, <1>4 DEF StoreInv, StoreTypes, Alone
<1>7. IndexedByWorkspace'
  <2> SUFFICES ASSUME NEW t \in Existing'
               PROVE  wsFiles[t[1]] # None /\ wsFiles[t[1]] >= files'[t].last
    BY <1>1 DEF IndexedByWorkspace
  <2>1. CASE t # s
    BY <1>4, <2>1 DEF StoreInv, IndexedByWorkspace, Existing
  <2>2. CASE t = s /\ files[s] = None
    BY <1>1, <1>2, <1>4, <2>2, NoneIsNobody
  <2>3. CASE t = s /\ files[s] # None
    <3>1. wsFiles[w] >= files[s].last
      BY <1>1, <2>3 DEF StoreInv, IndexedByWorkspace, Existing
    <3> QED
      BY <1>1, <1>2, <1>4, <2>3, <3>1, NoneIsNobody DEF Later
  <2> QED
    BY <2>1, <2>2, <2>3
<1> QED
  BY <1>3, <1>5, <1>6, <1>7 DEF StoreInv


\* A merge whose lock stays taken gives up, and a process may die wherever it is.
LEMMA EndStep ==
  ASSUME StoreInv, NEW p \in Procs, GiveUp(p) \/ Crash(p)
  PROVE  StoreInv'
BY ReturnIsAlone, QuietStep DEF GiveUp, Crash

--------------------------------------------------------------------------------
(* The steps of pruning *)

LEMMA PruneStepsOfOne ==
  ASSUME StoreInv, NEW p \in Procs, BeginPrune(p) \/ NextWorkspace(p) \/ PassOver(p)
  PROVE  StoreInv'
<1>1. UNCHANGED <<files, wsFiles, now, locks>>
  BY DEF BeginPrune, NextWorkspace, PassOver
<1>2. CASE BeginPrune(p)
  <2> DEFINE x == [pc |-> "next", left |-> {w \in Workspaces : <<w, "workspace">> \in dirs},
                   inspected |-> 0, time |-> now]
  <2>1. Alone(p) /\ procs'[p] = x
    BY <1>1, <1>2, OneMoves DEF BeginPrune
  <2>2. Knows(p)'
    BY <1>1, <2>1 DEF Knows, MergeKnows, PruneKnows, Merges, StoreInv, StoreTypes
  <2> QED
    BY <1>1, <2>1, <2>2, QuietStep
<1>3. CASE NextWorkspace(p)
  <2> DEFINE left == procs[p].left
             w == CHOOSE v \in left : \A u \in left : v <= u
             x == IF left = {} THEN Idle
                  ELSE [pc |-> "prune", at |-> w, left |-> left \ {w},
                        inspected |-> procs[p].inspected, time |-> procs[p].time]
  <2>1. Alone(p) /\ procs'[p] = x
    BY <1>1, <1>3, OneMoves DEF NextWorkspace
  <2>2. left \subseteq Workspaces /\ procs[p].time \in Nat /\ procs[p].time <= now
    BY <1>3 DEF NextWorkspace, StoreInv, Knows, PruneKnows
  <2>3. left # {} => w \in left
    <3> SUFFICES ASSUME left # {} PROVE \E v \in left : \A u \in left : v <= u
      OBVIOUS
    <3>1. left \subseteq Nat
      BY <2>2, NumberedNames
    <3> QED
      BY <3>1, SmallestOfNumbers
  <2> HIDE DEF w
  <2>4. Knows(p)'
    BY <1>1, <2>1, <2>2, <2>3 DEF Knows, MergeKnows, PruneKnows, Merges, Idle
  <2> QED
    BY <1>1, <2>1, <2>4, QuietStep
<1>4. CASE PassOver(p)
  <2> DEFINE x == [pc |-> "next", left |-> procs[p].left, inspected |-> procs[p].inspected,
                   time |-> procs[p].time]
  <2>1. Alone(p) /\ procs'[p] = x
    BY <1>1, <1>4, OneMoves DEF PassOver
  <2>2. Knows(p)'
    BY <1>1, <1>4, <2>1 DEF Knows, MergeKnows, PruneKnows, Merges, PassOver, StoreInv
  <2> QED
    BY <1>1, <2>1, <2>2, QuietStep
<1> QED
  BY <1>2, <1>3, <1>4

LEMMA InspectStep ==
  ASSUME StoreInv, NEW p \in Procs, Inspect(p)
  PROVE  StoreInv'
<1> DEFINE w == procs[p].at
           seen == Inspected(w, Budget - procs[p].inspected)
           gone == {s \in seen : Expired(files[s], procs[p].time)}
           x == [pc |-> "remove", at |-> w, left |-> procs[p].left, time |-> procs[p].time,
                 inspected |-> procs[p].inspected + Cardinality(seen), gone |-> gone]
<1>1. /\ procs[p].pc = "prune" /\ Free(w) /\ Take(p, w)
      /\ procs' = [procs EXCEPT ![p] = x] /\ UNCHANGED <<files, wsFiles, now>>
  BY DEF Inspect
<1>2. /\ w \in Workspaces /\ w \in LockFiles /\ procs[p].left \subseteq Workspaces
      /\ procs[p].time \in Nat /\ procs[p].time <= now
  BY <1>1 DEF StoreInv, Knows, PruneKnows, LockFiles
<1>3. gone \subseteq InWorkspace(w) /\ \A s \in gone : Expired(files[s], procs[p].time)
  BY DEF Inspected
<1> HIDE DEF gone, seen
<1>4. Alone(p) /\ procs'[p] = x
  BY <1>1, <1>2, OneMoves
<1>5. locks'[w] = p
  BY <1>1, <1>2 DEF Take, StoreInv, StoreTypes
<1>6. \A v : InWorkspace(v)' = InWorkspace(v)
  BY <1>1 DEF InWorkspace, Existing
<1>7. /\ procs'[p].pc = "remove" /\ procs'[p].at = w /\ procs'[p].left = procs[p].left
      /\ procs'[p].time = procs[p].time /\ procs'[p].gone = gone
  BY <1>4
<1> HIDE DEF x, w
<1>8. Knows(p)'
  BY <1>1, <1>2, <1>3, <1>5, <1>6, <1>7
     DEF Knows, MergeKnows, PruneKnows, Merges, Expired, InWorkspace, Existing
<1> QED
  BY <1>1, <1>4, <1>8, QuietStep

\* What the removals do, seen from outside: sessions go that have expired by now, all of
\* them in the workspace that is locked.
LEMMA RemoveForgets ==
  ASSUME StoreInv, NEW p \in Procs, Remove(p)
  PROVE  LET gone == procs[p].gone
         IN  /\ procs[p].at \in Workspaces /\ locks[procs[p].at] = p
             /\ gone \subseteq InWorkspace(procs[p].at)
             /\ gone \in SUBSET {s \in Existing : Expired(files[s], now)}
             /\ files' = [s \in Sessions |-> IF s \in gone THEN None ELSE files[s]]
             /\ UNCHANGED now
<1>1. /\ procs[p].at \in Workspaces /\ locks[procs[p].at] = p
      /\ procs[p].gone \subseteq InWorkspace(procs[p].at)
      /\ \A s \in procs[p].gone : Expired(files[s], procs[p].time)
      /\ procs[p].time \in Nat /\ procs[p].time <= now
  BY DEF Remove, StoreInv, Knows, PruneKnows
<1>2. ASSUME NEW s \in procs[p].gone PROVE s \in Existing /\ Expired(files[s], now)
  <2>1. s \in Existing
    BY <1>1 DEF InWorkspace
  <2>2. files[s].last \in Nat
    BY <2>1 DEF Existing, StoreInv, StoreTypes, RecordOK
  <2> QED
    BY <1>1, <2>1, <2>2, StoreBounds DEF Expired, StoreInv, StoreTypes
<1> QED
  BY <1>1, <1>2 DEF Remove

LEMMA RemoveStep ==
  ASSUME StoreInv, NEW p \in Procs, Remove(p)
  PROVE  StoreInv'
<1> DEFINE w == procs[p].at
           gone == procs[p].gone
           x == [pc |-> "next", left |-> procs[p].left, inspected |-> procs[p].inspected,
                 time |-> procs[p].time]
<1>1. /\ w \in Workspaces /\ locks[w] = p /\ gone \subseteq InWorkspace(w)
      /\ files' = [s \in Sessions |-> IF s \in gone THEN None ELSE files[s]]
      /\ UNCHANGED now
  BY RemoveForgets
<1>2. /\ wsFiles' = IF InWorkspace(w) \ gone = {} THEN [wsFiles EXCEPT ![w] = None]
                    ELSE wsFiles
      /\ locks' = [l \in LockFiles |->
            IF l = w \/ \E s \in gone : s[2] = l THEN None ELSE locks[l]]
      /\ procs' = [procs EXCEPT ![p] = x]
  BY DEF Remove, Emptied
<1>3. /\ procs[p].left \subseteq Workspaces /\ procs[p].time \in Nat
      /\ procs[p].time <= now
  BY DEF Remove, StoreInv, Knows, PruneKnows
<1>4. gone \subseteq Sessions /\ \A s \in gone : s[1] = w /\ s[2] \in Keys
  BY <1>1, SessionParts DEF InWorkspace, Existing
<1> HIDE DEF w, gone, x
<1>5. Alone(p)
  <2>1. \A q \in Procs \ {p} : procs'[q] = procs[q]
    BY <1>2 DEF StoreInv, StoreTypes
  <2>2. \A q \in Procs \ {p} : Keeps(q)
    BY <1>1, <1>2, <1>4, OwnedAreNoKeys DEF Keeps, StoreInv, StoreTypes
  <2>3. locks' \in [LockFiles -> Procs \cup {None}]
    BY <1>2 DEF StoreInv, StoreTypes
  <2>4. procs' = [q \in Procs |-> procs'[q]]
    BY <1>2 DEF StoreInv, StoreTypes
  <2> QED
    BY <2>1, <2>2, <2>3, <2>4 DEF Alone
<1>6. procs'[p] = x
  BY <1>2 DEF StoreInv, StoreTypes
<1>7. Knows(p)'
  BY <1>1, <1>3, <1>6 DEF Knows, MergeKnows, PruneKnows, Merges, x
<1>8. Existing' \subseteq Existing /\ \A s \in Existing' : s \notin gone /\ files'[s] = files[s]
  BY <1>1 DEF Existing
<1>9. ASSUME NEW q \in Procs, q # p PROVE Knows(q)'
  <2>1. \A v \in Workspaces : locks[v] = q => wsFiles'[v] = wsFiles[v]
    BY <1>1, <1>2, <1>9 DEF StoreInv, StoreTypes
  <2>2. \A s \in Sessions : locks[s[1]] = q => files'[s] = files[s]
    BY <1>1, <1>4, <1>9
  <2> QED
    BY <1>1, <1>5, <1>8, <1>9, <2>1, <2>2, OthersKnow DEF Alone, StoreInv, StoreTypes
<1>10. StoreTypes'
  BY <1>1, <1>2, <1>5 DEF StoreInv, StoreTypes, Alone
<1>11. IndexedByWorkspace'
  <2> SUFFICES ASSUME NEW s \in Existing'
               PROVE  wsFiles'[s[1]] # None /\ wsFiles'[s[1]] >= files'[s].last
    BY DEF IndexedByWorkspace
  <2>1. wsFiles[s[1]] # None /\ wsFiles[s[1]] >= files'[s].last
    BY <1>8 DEF StoreInv, IndexedByWorkspace
  <2>2. s[1] = w => s \in InWorkspace(w) \ gone
    BY <1>8 DEF InWorkspace
  <2> QED
    BY <1>2, <2>1, <2>2 DEF StoreInv, StoreTypes
<1> QED
  BY <1>7, <1>9, <1>10, <1>11 DEF StoreInv


--------------------------------------------------------------------------------
(* The invariant and what follows from it *)

LEMMA StoreInit == Init => StoreInv
<1> SUFFICES ASSUME Init PROVE StoreInv
  OBVIOUS
<1> USE DEF Init
<1>1. Existing = {}
  BY DEF Existing
<1>2. StoreTypes
  BY DEF StoreTypes
<1>3. \A p \in Procs : Knows(p)
  BY DEF Knows, MergeKnows, PruneKnows, Merges, Idle
<1> QED
  BY <1>1, <1>2, <1>3 DEF StoreInv, IndexedByWorkspace

LEMMA TickStep == StoreInv /\ Tick => StoreInv'
<1> SUFFICES ASSUME StoreInv, Tick PROVE StoreInv'
  OBVIOUS
<1>1. UNCHANGED <<files, wsFiles, locks, procs>> /\ now' = now + 1 /\ now \in Nat
  BY DEF Tick, StoreInv, StoreTypes
<1>2. Existing' = Existing /\ StoreTypes' /\ IndexedByWorkspace'
  BY <1>1 DEF StoreInv, StoreTypes, IndexedByWorkspace, Existing
<1>3. ASSUME NEW q \in Procs PROVE Knows(q)'
  BY <1>1, <1>2, OthersKnow DEF Keeps
<1> QED
  BY <1>2, <1>3 DEF StoreInv

LEMMA StoreStep == StoreInv /\ [Next]_vars => StoreInv'
<1> SUFFICES ASSUME StoreInv, [Next]_vars PROVE StoreInv'
  OBVIOUS
<1>1. ASSUME NEW p \in Procs, Step(p) \/ BeginPrune(p) \/ Crash(p) PROVE StoreInv'
  BY <1>1, LockWorkspaceStep, LockCapacityStep, LockSessionStep, WriteWorkspaceTempStep,
     RenameWorkspaceStep, WriteSessionTempStep, RenameSessionStep, EndStep,
     PruneStepsOfOne, InspectStep, RemoveStep DEF Step
<1>2. ASSUME NEW p \in Procs, NEW d \in Deltas, BeginMerge(p, d) PROVE StoreInv'
  BY <1>2, BeginMergeStep
<1>3. CASE Tick
  BY <1>3, TickStep
<1>4. CASE UNCHANGED vars
  <2>1. Existing' = Existing /\ StoreTypes' /\ IndexedByWorkspace'
    BY <1>4 DEF vars, StoreInv, StoreTypes, IndexedByWorkspace, Existing
  <2>2. \A q \in Procs : Knows(q)'
    BY <1>4, <2>1, OthersKnow DEF vars, Keeps, StoreInv, StoreTypes
  <2> QED
    BY <2>1, <2>2 DEF StoreInv
<1> QED
  BY <1>1, <1>2, <1>3, <1>4 DEF Next

\* The ownership invariant holds in every state the processes can reach.
THEOREM OwnersKnow == Spec => []StoreInv
BY StoreInit, StoreStep, PTL DEF Spec

\* A viewer finds every session by its workspace's record, and finds it to be as recent
\* (merge writes workspace.meta before the session, prune removes it last).
THEOREM SessionsAreIndexed == Spec => []IndexedByWorkspace
<1>1. StoreInv => IndexedByWorkspace
  BY SMTT(40) DEF StoreInv
<1> QED
  BY <1>1, OwnersKnow, PTL

\* What a step does to the files: one session's record takes in a delta, or records go.
LEMMA FilesStep ==
  ASSUME StoreInv, [Next]_vars
  PROVE  \/ \E p \in Procs : RenameSession(p) \/ Remove(p)
         \/ Tick
         \/ UNCHANGED <<files, now>>
BY ZenonT(40) DEF Next, Step, vars, LockWorkspace, LockCapacity, LockSession, GiveUp,
       WriteWorkspaceTemp, RenameWorkspace, WriteSessionTemp, NextWorkspace, Inspect,
       PassOver, BeginPrune, BeginMerge, Crash

\* No delta makes a record take back what an earlier one told, in whatever order the
\* observers' processes get to write (merge_record).
THEOREM RecordsOnlyGrow == Spec => RecordsGrow
<1> DEFINE Grow == \A s \in Sessions :
                     files[s] # None /\ files'[s] # None => Grows(files[s], files'[s])
<1>1. ASSUME StoreInv, [Next]_vars PROVE Grow
  <2> SUFFICES ASSUME NEW s \in Sessions, files[s] # None, files'[s] # None
               PROVE  Grows(files[s], files'[s])
    OBVIOUS
  <2>1. RecordOK(files[s])
    BY <1>1 DEF StoreInv, StoreTypes
  <2>2. CASE files'[s] = files[s]
    BY <2>1, <2>2 DEF Grows, RecordOK
  <2>3. ASSUME NEW p \in Procs, RenameSession(p) PROVE Grows(files[s], files'[s])
    <3>1. /\ DeltaOK(procs[p].delta)
          /\ files' = [files EXCEPT ![SessionOf(p)] =
                          MergeRecord(files[SessionOf(p)], procs[p].delta)]
      BY <1>1, <2>3, RenameSessionMerges
    <3>2. CASE s = SessionOf(p)
      BY <1>1, <2>1, <3>1, <3>2, MergeFacts DEF StoreInv, StoreTypes
    <3>3. CASE s # SessionOf(p)
      BY <1>1, <2>2, <3>1, <3>3 DEF StoreInv, StoreTypes
    <3> QED
      BY <3>2, <3>3
  <2>4. ASSUME NEW p \in Procs, Remove(p) PROVE files'[s] = files[s]
    BY <1>1, <2>4, RemoveForgets
  <2>5. Tick \/ UNCHANGED <<files, now>> => files'[s] = files[s]
    BY DEF Tick
  <2> QED
    BY <1>1, <2>2, <2>3, <2>4, <2>5, FilesStep
<1>2. StoreInv /\ [Next]_vars => [Grow]_vars
  BY <1>1
<1> QED
  BY <1>2, OwnersKnow, PTL DEF Spec, RecordsGrow


--------------------------------------------------------------------------------
(* The store implements the index *)

\* The index merges records as the store does.
LEMMA SameCardinality == \A S : Index!Cardinality(S) = Cardinality(S)
BY Zenon DEF Index!Cardinality, Cardinality

LEMMA SameMerge ==
  ASSUME NEW r, NEW d
  PROVE  Index!MergeRecord(r, d) = MergeRecord(r, d)
<1>1. ASSUME NEW S, NEW n PROVE Index!Smallest(S, n) = Smallest(S, n)
  <2>1. \A x \in S : Index!Cardinality({y \in S : y < x}) = Cardinality({y \in S : y < x})
    BY SameCardinality
  <2> QED
    BY <2>1 DEF Index!Smallest, Smallest
<1>2. /\ \A a, b : Index!Earlier(a, b) = Earlier(a, b) /\ Index!Later(a, b) = Later(a, b)
      /\ Index!Unset = Unset
  BY DEF Index!Earlier, Index!Later, Index!Unset, Earlier, Later, Unset
<1>3. Index!EmptyRecord(d) = EmptyRecord(d)
  BY <1>2, Zenon DEF Index!EmptyRecord, EmptyRecord
<1>4. \A x : Index!TakeNewest(x, d) = TakeNewest(x, d)
  BY ZenonT(40), <1>2 DEF Index!TakeNewest, TakeNewest
<1>5. \A x : Index!TakeInOrder(x, d) = TakeInOrder(x, d)
  BY <1>4 DEF Index!TakeInOrder, TakeInOrder
<1>6. \A x, us : Index!MergeAgents(x, us) = MergeAgents(x, us)
  BY <1>1, Zenon DEF Index!MergeAgents, MergeAgents
<1> DEFINE base  == IF r = None THEN EmptyRecord(d) ELSE r
           base2 == IF r = None THEN Index!EmptyRecord(d) ELSE r
           aged  == [base EXCEPT !.first = Earlier(base.first, d.at)]
           aged2 == [base EXCEPT !.first = Index!Earlier(base.first, d.at)]
           observers == base.observers \cup {d.observer}
           agents == DOMAIN base.agents \cup {u[1] : u \in d.agents}
           full  == base.partial \/ Cardinality(observers) > MaxObservers
                                 \/ Cardinality(agents) > MaxAgents
           full2 == base.partial \/ Index!Cardinality(observers) > MaxObservers
                                 \/ Index!Cardinality(agents) > MaxAgents
           merged(updated, some, them, part) ==
              [updated EXCEPT !.observers = some, !.agents = them, !.partial = part]
<1>7. MergeRecord(r, d) =
        merged(TakeInOrder(aged, d), Smallest(observers, MaxObservers),
               MergeAgents(base.agents, d.agents), full)
  BY Zenon DEF MergeRecord
<1>8. base2 = base
  BY <1>3
<1>9. Index!MergeRecord(r, d) =
        merged(Index!TakeInOrder(aged2, d), Index!Smallest(observers, MaxObservers),
               Index!MergeAgents(base.agents, d.agents), full2)
  <2> HIDE DEF base, merged
  <2>1. Index!MergeRecord(r, d) =
          merged(Index!TakeInOrder([base2 EXCEPT !.first = Index!Earlier(base2.first, d.at)], d),
                 Index!Smallest(base2.observers \cup {d.observer}, MaxObservers),
                 Index!MergeAgents(base2.agents, d.agents),
                 \/ base2.partial
                 \/ Index!Cardinality(base2.observers \cup {d.observer}) > MaxObservers
                 \/ Index!Cardinality(DOMAIN base2.agents \cup {u[1] : u \in d.agents})
                      > MaxAgents)
    BY Zenon DEF Index!MergeRecord, merged
  <2> HIDE DEF base2
  <2> QED
    BY <1>8, <2>1, Zenon
<1>10. aged2 = aged
  BY <1>2, Zenon
<1>11. full2 = full
  BY SameCardinality, Zenon
<1> HIDE DEF base, aged, aged2, observers, agents, full, full2, merged
<1> QED
  BY <1>1, <1>5, <1>6, <1>7, <1>9, <1>10, <1>11, Zenon

LEMMA SameRecorded ==
  /\ Index!Sessions = Sessions
  /\ Index!Recorded(files) = Existing
  /\ \A r, t : Index!Expired(r, t) = Expired(r, t)
  /\ \A w : {t \in Index!Recorded(files) : t[1] = w} = InWorkspace(w)
BY DEF Index!Sessions, Index!Recorded, Index!Expired, Sessions, Existing, Expired, InWorkspace

\* The rename of a session's file is the merge, and nothing else of a merge is visible.
LEMMA RenameIsMerge ==
  ASSUME StoreInv, NEW p \in Procs, RenameSession(p)
  PROVE  Index!Next
<1> DEFINE d == procs[p].delta
<1>1. /\ d \in Deltas /\ UNCHANGED now
      /\ files' = [files EXCEPT ![d.session] = MergeRecord(files[d.session], d)]
      /\ files[d.session] = None =>
           /\ Cardinality(Existing) < MaxSessions
           /\ Cardinality(InWorkspace(d.session[1])) < MaxPerWorkspace
  BY RenameSessionMerges DEF SessionOf, WorkspaceOf
<1> HIDE DEF d
<1>2. files[d.session] # None \/ Index!HasRoom(d.session)
  <2>1. {t \in Index!Recorded(files) : t[1] = d.session[1]} = InWorkspace(d.session[1])
    BY SameRecorded
  <2> QED
    BY <1>1, <2>1, SameRecorded, SameCardinality DEF Index!HasRoom
<1>3. Index!Merge(d)
  BY <1>1, <1>2, SameMerge DEF Index!Merge
<1> QED
  BY <1>1, <1>3 DEF Index!Next

LEMMA RemoveIsForget ==
  ASSUME StoreInv, NEW p \in Procs, Remove(p)
  PROVE  Index!Next
<1> DEFINE gone == procs[p].gone
<1>1. /\ gone \in SUBSET {s \in Existing : Expired(files[s], now)}
      /\ files' = [s \in Sessions |-> IF s \in gone THEN None ELSE files[s]]
      /\ UNCHANGED now
  BY RemoveForgets
<1> HIDE DEF gone
<1>2. gone \in SUBSET {s \in Index!Recorded(files) : Index!Expired(files[s], now)}
  BY <1>1, SameRecorded
<1>3. Index!Forget
  BY <1>1, <1>2, SameRecorded DEF Index!Forget
<1> QED
  BY <1>3 DEF Index!Next

\* Whatever the processes do, crash and give up included, the files change as the
\* records of the index do: a merge is one atomic step that takes in its delta and
\* respects every limit, and only expired records go.
THEOREM StoreImplementsIndex == Spec => ImplementsIndex
<1>1. Init => Index!Init
  BY SameRecorded DEF Init, Index!Init
<1>2. ASSUME StoreInv, [Next]_vars PROVE [Index!Next]_<<files, now>>
  <2>1. Tick => Index!Tick
    BY DEF Tick, Index!Tick
  <2> QED
    BY <1>2, <2>1, FilesStep, RenameIsMerge, RemoveIsForget DEF Index!Next
<1>3. StoreInv /\ [Next]_vars => [Index!Next]_<<files, now>>
  BY <1>2
<1> QED
  BY <1>1, <1>3, OwnersKnow, PTL DEF Spec, ImplementsIndex, Index!Spec

--------------------------------------------------------------------------------
(* The live bridge.  An event that a hook leaves to the viewers was taken       *)
(* exactly once by each viewer the hook found, for any number of viewers and    *)
(* events, whatever crashes, deadlines and lost answers there are.              *)

CONSTANTS Viewers, Events, QueueCap, Ttl
VARIABLES manifest, viewer, selected, backlog, queue, reduced, crashes

Bridge == INSTANCE LiveBridge

Answers == {"unasked", "found", "waiting", "accepted", "failed"}

\* Of a viewer's and a hook's state only this matters here.
BridgeTypes ==
    /\ hook \in [Events -> {"new", "publishing", "live", "fallback"}]
    /\ answer \in [Events -> [Viewers -> Answers]]
    /\ backlog \in [Viewers -> SUBSET Events]
    /\ taken \in [Viewers -> [Events -> Nat]]

\* One event at one viewer: it is not there before the hook connects, it is no longer
\* in the backlog once it is taken, and it is acknowledged only when it is taken.
Offered(h, a, there, n) ==
    /\ a \in {"unasked", "found"} => n = 0 /\ ~there
    /\ there => n = 0
    /\ n <= 1
    /\ a = "accepted" => n = 1
    /\ h = "new" => a = "unasked"
    /\ h = "live" => a \in {"unasked", "accepted"}

Once(e, v) == Offered(hook[e], answer[e][v], e \in backlog[v], taken[v][e])

BridgeInv == BridgeTypes /\ \A e \in Events, v \in Viewers : Once(e, v)

--------------------------------------------------------------------------------
\* No hook has run yet.
LEMMA StartIsOnce == Bridge!Init => BridgeInv
  BY DEF Bridge!Init, BridgeInv, BridgeTypes, Answers, Once, Offered

\* One answer changes.
LEMMA AnswersStay ==
  ASSUME NEW A \in [Events -> [Viewers -> Answers]],
         NEW e \in Events, NEW v \in Viewers, NEW x \in Answers
  PROVE  [A EXCEPT ![e][v] = x] \in [Events -> [Viewers -> Answers]]
  <1>1. [A[e] EXCEPT ![v] = x] \in [Viewers -> Answers]
    OBVIOUS
  <1> QED
    BY <1>1

\* A viewer that takes a connection up takes its event out of the backlog for good.
LEMMA ReceiveKeepsOnce ==
  ASSUME BridgeInv, NEW v \in Viewers, NEW e \in Events, Bridge!Receive(v, e)
  PROVE  BridgeInv'
  <1>1. BridgeTypes /\ Once(e, v) /\ e \in backlog[v]
    BY DEF BridgeInv, Bridge!Receive
  <1>2. /\ hook' = hook
        /\ backlog' = [backlog EXCEPT ![v] = @ \ {e}]
        /\ taken' = [taken EXCEPT ![v][e] = @ + 1]
        /\ \/ answer[e][v] = "waiting" /\ answer' = [answer EXCEPT ![e][v] = "accepted"]
           \/ answer' = answer
    BY DEF Bridge!Receive, Bridge!Reply
  <1>3. hook' \in [Events -> {"new", "publishing", "live", "fallback"}]
    BY <1>1, <1>2 DEF BridgeTypes
  <1>4. answer' \in [Events -> [Viewers -> Answers]]
    <2>1. answer \in [Events -> [Viewers -> Answers]]
      BY <1>1 DEF BridgeTypes
    <2>2. "accepted" \in Answers
      BY DEF Answers
    <2> QED
      BY SMTT(40), <1>2, <2>1, <2>2, AnswersStay
  <1>5. backlog' \in [Viewers -> SUBSET Events]
    BY <1>1, <1>2 DEF BridgeTypes
  <1>7. taken' \in [Viewers -> [Events -> Nat]]
    BY <1>1, <1>2 DEF BridgeTypes
  <1>6. ASSUME NEW f \in Events, NEW w \in Viewers PROVE Once(f, w)'
    <2>1. Once(f, w)
      BY DEF BridgeInv
    <2>2. CASE f = e /\ w = v
      <3>1. taken[v][e] = 0 /\ answer[e][v] \notin {"unasked", "found"} /\ hook[e] # "new"
        BY <1>1 DEF Once, Offered
      <3>2. taken'[v][e] = 1 /\ e \notin backlog'[v]
        BY <1>1, <1>2, <3>1 DEF BridgeTypes
      <3>3. answer'[e][v] \in {answer[e][v], "accepted"} /\ hook'[e] = hook[e]
        BY <1>1, <1>2 DEF BridgeTypes
      <3> QED
        BY <1>1, <2>2, <3>1, <3>2, <3>3 DEF Once, Offered
    <2>3. CASE ~(f = e /\ w = v)
      <3>1. /\ answer'[f][w] = answer[f][w] /\ hook'[f] = hook[f]
            /\ taken'[w][f] = taken[w][f] /\ (f \in backlog'[w]) = (f \in backlog[w])
        BY <1>1, <1>2, <2>3 DEF BridgeTypes
      <3> QED
        BY <2>1, <3>1 DEF Once
    <2> QED
      BY <2>2, <2>3
  <1> QED
    BY <1>3, <1>4, <1>5, <1>7, <1>6 DEF BridgeInv, BridgeTypes

\* Refused, expired or cut off by the end of the viewer, an event is only taken away.
LEMMA LossKeepsOnce ==
  ASSUME BridgeInv,
         UNCHANGED <<hook, taken>>,
         backlog' \in [Viewers -> SUBSET Events],
         \A v \in Viewers : backlog'[v] \subseteq backlog[v],
         \/ answer' = answer
         \/ \E e \in Events, v \in Viewers :
               answer[e][v] = "waiting" /\ answer' = [answer EXCEPT ![e][v] = "failed"]
  PROVE  BridgeInv'
  <1>0. BridgeTypes
    BY DEF BridgeInv
  <1> DEFINE lost(e, v) ==
        answer[e][v] = "waiting" /\ answer' = [answer EXCEPT ![e][v] = "failed"]
  <1>1. BridgeTypes'
    <2>1. ASSUME NEW e \in Events, NEW v \in Viewers, lost(e, v)
          PROVE  answer' \in [Events -> [Viewers -> Answers]]
      BY <1>0, <2>1 DEF BridgeTypes, Answers
    <2>2. answer' \in [Events -> [Viewers -> Answers]]
      BY <1>0, <2>1 DEF BridgeTypes
    <2> QED
      BY <1>0, <2>2 DEF BridgeTypes
  <1>2. ASSUME NEW f \in Events, NEW w \in Viewers PROVE Once(f, w)'
    <2>1. Once(f, w) /\ BridgeTypes
      BY DEF BridgeInv
    <2>2. \/ answer'[f][w] = answer[f][w]
          \/ answer[f][w] = "waiting" /\ answer'[f][w] = "failed"
      <3>1. ASSUME NEW e \in Events, NEW v \in Viewers, lost(e, v)
            PROVE  \/ answer'[f][w] = answer[f][w]
                   \/ answer[f][w] = "waiting" /\ answer'[f][w] = "failed"
        BY <1>0, <3>1 DEF BridgeTypes
      <3> QED
        BY <3>1
    <2>3. f \in backlog'[w] => f \in backlog[w]
      OBVIOUS
    <2> QED
      BY <2>1, <2>2, <2>3 DEF Once, Offered
  <1> QED
    BY <1>1, <1>2 DEF BridgeInv

\* A hook looks for the viewers once, before it connects to any of them.
LEMMA DiscoverKeepsOnce ==
  ASSUME BridgeInv, NEW e \in Events, Bridge!Discover(e) PROVE BridgeInv'
  <1> DEFINE found == {v \in Viewers : Bridge!Readable(v) /\ ~Bridge!Stale(v)}
  <1>1. /\ hook[e] = "new"
        /\ hook' = [hook EXCEPT ![e] = IF found = {} THEN "fallback" ELSE "publishing"]
        /\ answer' = [answer EXCEPT ![e] =
              [v \in Viewers |-> IF v \in found THEN "found" ELSE "unasked"]]
        /\ UNCHANGED <<backlog, taken>>
    BY DEF Bridge!Discover, Bridge!viewerVars
  <1> HIDE DEF found
  <1>2. BridgeTypes'
    BY <1>1 DEF BridgeInv, BridgeTypes, Answers
  <1>3. ASSUME NEW f \in Events, NEW w \in Viewers PROVE Once(f, w)'
    <2>1. Once(f, w) /\ BridgeTypes
      BY DEF BridgeInv
    <2>2. CASE f = e
      BY <1>1, <2>1, <2>2 DEF BridgeTypes, Once, Offered
    <2>3. CASE f # e
      BY <1>1, <2>1, <2>3 DEF BridgeTypes, Once
    <2> QED
      BY <2>2, <2>3
  <1> QED
    BY <1>2, <1>3 DEF BridgeInv

\* A hook connects to a viewer once.
LEMMA ConnectKeepsOnce ==
  ASSUME BridgeInv, NEW e \in Events, NEW v \in Viewers, Bridge!Connect(e, v)
  PROVE  BridgeInv'
  <1>1. /\ answer[e][v] = "found" /\ UNCHANGED <<hook, taken>>
        /\ \/ /\ backlog' = [backlog EXCEPT ![v] = @ \cup {e}]
              /\ answer' = [answer EXCEPT ![e][v] = "waiting"]
           \/ /\ answer' = [answer EXCEPT ![e][v] = "failed"]
              /\ UNCHANGED backlog
    BY DEF Bridge!Connect, Bridge!viewerVars
  <1>2. BridgeTypes'
    <2>1. BridgeTypes
      BY DEF BridgeInv
    <2>2. backlog' \in [Viewers -> SUBSET Events]
      BY <1>1, <2>1 DEF BridgeTypes
    <2>3. answer' \in [Events -> [Viewers -> Answers]]
      <3>1. "waiting" \in Answers /\ "failed" \in Answers
        BY DEF Answers
      <3>2. answer \in [Events -> [Viewers -> Answers]]
        BY <2>1 DEF BridgeTypes
      <3> QED
        BY SMTT(40), <1>1, <3>1, <3>2, AnswersStay
    <2> QED
      BY <1>1, <2>1, <2>2, <2>3 DEF BridgeTypes
  <1>3. ASSUME NEW f \in Events, NEW w \in Viewers PROVE Once(f, w)'
    <2>1. Once(f, w) /\ BridgeTypes
      BY DEF BridgeInv
    <2>2. CASE f = e /\ w = v
      <3>1. answer'[e][v] \in {"waiting", "failed"} /\ taken'[v][e] = taken[v][e]
        BY <1>1, <2>1 DEF BridgeTypes
      <3> QED
        BY <1>1, <2>1, <2>2, <3>1 DEF Once, Offered
    <2>3. CASE ~(f = e /\ w = v)
      <3>1. answer'[f][w] = answer[f][w] /\ (f \in backlog'[w]) = (f \in backlog[w])
        BY <1>1, <2>1, <2>3 DEF BridgeTypes
      <3> QED
        BY <1>1, <2>1, <3>1 DEF Once
    <2> QED
      BY <2>2, <2>3
  <1> QED
    BY <1>2, <1>3 DEF BridgeInv

\* A hook decides when no viewer can answer any more.
LEMMA DecideKeepsOnce ==
  ASSUME BridgeInv, NEW e \in Events, Bridge!Decide(e) PROVE BridgeInv'
  <1>1. /\ hook[e] = "publishing"
        /\ hook' = [hook EXCEPT ![e] = IF Bridge!AllAccepted(e) THEN "live" ELSE "fallback"]
        /\ UNCHANGED <<answer, backlog, taken>>
    BY DEF Bridge!Decide, Bridge!viewerVars
  <1>2. BridgeTypes'
    BY <1>1 DEF BridgeInv, BridgeTypes
  <1>3. ASSUME NEW f \in Events, NEW w \in Viewers PROVE Once(f, w)'
    <2>1. Once(f, w) /\ BridgeTypes
      BY DEF BridgeInv
    <2>2. CASE f = e
      BY <1>1, <2>1, <2>2 DEF BridgeTypes, Once, Offered, Bridge!AllAccepted, Asked,
         Bridge!Asked
    <2>3. CASE f # e
      BY <1>1, <2>1, <2>3 DEF BridgeTypes, Once
    <2> QED
      BY <2>2, <2>3
  <1> QED
    BY <1>2, <1>3 DEF BridgeInv

\* The other steps of a viewer leave the events where they are.
LEMMA RestKeepsOnce ==
  ASSUME BridgeInv, UNCHANGED <<hook, answer, backlog, taken>> PROVE BridgeInv'
  BY DEF BridgeInv, BridgeTypes, Once

LEMMA ViewerKeepsOnce ==
  ASSUME BridgeInv, NEW v \in Viewers, Bridge!ViewerStep(v) PROVE BridgeInv'
  <1>1. CASE \/ Bridge!Register(v) \/ Bridge!Refresh(v) \/ Bridge!WriteManifest(v) \/ Bridge!Select(v)
             \/ Bridge!Reduce(v) \/ Bridge!BeginDraining(v)
    <2>1. UNCHANGED <<hook, answer, backlog, taken>>
      BY <1>1
      DEF Bridge!Register, Bridge!Refresh, Bridge!WriteManifest, Bridge!Select,
          Bridge!Reduce, Bridge!BeginDraining,
                  Bridge!viewerVars, Bridge!hookVars
    <2> QED
      BY <2>1, RestKeepsOnce
  <1>2. CASE Bridge!Stop(v) \/ Bridge!CrashViewer(v)
    <2>1. UNCHANGED <<hook, answer, taken>> /\ backlog' = [backlog EXCEPT ![v] = {}]
      BY <1>2 DEF Bridge!Stop, Bridge!CrashViewer, Bridge!viewerVars, Bridge!hookVars
    <2>2. /\ backlog' \in [Viewers -> SUBSET Events]
          /\ \A w \in Viewers : backlog'[w] \subseteq backlog[w]
      BY <2>1 DEF BridgeInv, BridgeTypes
    <2> QED
      BY <2>1, <2>2, LossKeepsOnce
  <1>3. ASSUME NEW e \in Events, Bridge!Receive(v, e) PROVE BridgeInv'
    BY <1>3, ReceiveKeepsOnce
  <1>4. ASSUME NEW e \in Events, Bridge!Refuse(v, e) PROVE BridgeInv'
    <2>1. /\ UNCHANGED <<hook, taken>> /\ backlog' = [backlog EXCEPT ![v] = @ \ {e}]
          /\ \/ answer[e][v] = "waiting" /\ answer' = [answer EXCEPT ![e][v] = "failed"]
             \/ answer' = answer
      BY <1>4 DEF Bridge!Refuse, Bridge!Reply, Bridge!viewerVars
    <2>2. /\ backlog' \in [Viewers -> SUBSET Events]
          /\ \A w \in Viewers : backlog'[w] \subseteq backlog[w]
      BY <2>1 DEF BridgeInv, BridgeTypes
    <2> QED
      BY <2>1, <2>2, LossKeepsOnce
  <1> QED
    BY <1>1, <1>2, <1>3, <1>4 DEF Bridge!ViewerStep

LEMMA HookKeepsOnce ==
  ASSUME BridgeInv, NEW e \in Events, Bridge!HookStep(e) PROVE BridgeInv'
  <1>1. ASSUME NEW v \in Viewers, Bridge!Expire(e, v) PROVE BridgeInv'
    <2>1. /\ UNCHANGED <<hook, taken, backlog>> /\ answer[e][v] = "waiting"
          /\ answer' = [answer EXCEPT ![e][v] = "failed"]
      BY <1>1 DEF Bridge!Expire, Bridge!viewerVars
    <2>2. /\ backlog' \in [Viewers -> SUBSET Events]
          /\ \A w \in Viewers : backlog'[w] \subseteq backlog[w]
      BY <2>1 DEF BridgeInv, BridgeTypes
    <2> QED
      BY <2>1, <2>2, LossKeepsOnce
  <1> QED
    BY <1>1, DiscoverKeepsOnce, DecideKeepsOnce, ConnectKeepsOnce DEF Bridge!HookStep

--------------------------------------------------------------------------------
\* A hook that reports LiveAccepted has had its event taken by every viewer it found,
\* and no viewer's receiver returns an event twice.
THEOREM EventsAreTakenOnce == Bridge!Spec => []EventsReachViewers
  <1>1. BridgeInv /\ [Bridge!Next]_(Bridge!vars) => BridgeInv'
    <2>1. ASSUME BridgeInv, Bridge!Tick \/ UNCHANGED Bridge!vars PROVE BridgeInv'
      <3>1. UNCHANGED <<hook, answer, backlog, taken>>
        BY <2>1 DEF Bridge!Tick, Bridge!vars, Bridge!viewerVars, Bridge!hookVars
      <3> QED
        BY <2>1, <3>1, RestKeepsOnce
    <2> QED
      BY <2>1, ViewerKeepsOnce, HookKeepsOnce DEF Bridge!Next
  <1>2. BridgeInv => EventsReachViewers
    BY
    DEF BridgeInv, BridgeTypes, Once, Offered, EventsReachViewers, LiveMeansTaken,
        TakenOnce, Asked
  <1> QED
    BY StartIsOnce, <1>1, <1>2, PTL DEF Bridge!Spec
================================================================================
