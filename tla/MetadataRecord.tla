--------------------------- MODULE MetadataRecord ---------------------------
(***************************************************************************)
(* What one hook report says of a session, and how the record of a session *)
(* takes it in: the two pure functions of agent/metadata.rs.  Observers    *)
(* and agents are numbers, whose order is the order of their identifiers.  *)
(* The generation of a record is left out: every delta carries zero.       *)
(***************************************************************************)
EXTENDS Integers, Sequences, FiniteSets

CONSTANTS MaxObservers,   \* MAX_METADATA_OBSERVERS
          MaxAgents,      \* MAX_METADATA_AGENTS
          None            \* no record

ASSUME RecordBounds == MaxObservers \in Nat \ {0} /\ MaxAgents \in Nat \ {0}

Unset == "unset"
Lifecycles == {"open", "ended", "failed"}
Activities == {"working", "waiting", "idle"}

-----------------------------------------------------------------------------
(* Projection *)

\* An observation: its kind, the value it sets ("clear" for Activity's Clear), when
\* it was made and the agent it names.
Sets(o, kind) == o.kind = kind

\* The last observation that sets one of the values, 0 when none does.
LastSet(obs, kind, values) ==
    LET hits == {i \in 1..Len(obs) : Sets(obs[i], kind) /\ obs[i].value \in values}
    IN  IF hits = {} THEN 0 ELSE CHOOSE i \in hits : \A j \in hits : j <= i

Latest(obs) == CHOOSE t \in {obs[i].at : i \in 1..Len(obs)} :
                  \A i \in 1..Len(obs) : obs[i].at <= t

\* project_metadata, for the observations of one session in an envelope.  A delta is
\* structural when it tells the life of the session or of one of its agents; the
\* others may be skipped when the record was written a moment ago.
ProjectMetadata(session, observer, obs) ==
    LET lifecycle == LastSet(obs, "lifecycle", Lifecycles)
        activity  == LastSet(obs, "activity", Activities \cup {"clear"})
        terminal  == LastSet(obs, "lifecycle", Lifecycles \ {"open"})
        opens     == LastSet(obs, "lifecycle", {"open"}) # 0
    IN  [session   |-> session,
         observer  |-> observer,
         at        |-> Latest(obs),
         discovery |-> IF opens THEN 1 ELSE 0,
         lifecycle |-> IF lifecycle = 0 THEN Unset ELSE obs[lifecycle].value,
         activity  |-> IF activity = 0 \/ obs[activity].value = "clear" THEN Unset
                       ELSE obs[activity].value,
         event     |-> obs[Len(obs)].kind,
         agents    |-> {<<obs[i].agent, obs[i].at>> :
                          i \in {j \in 1..Len(obs) : obs[j].agent # 0}},
         terminal  |-> IF terminal = 0 THEN 0 ELSE obs[terminal].at,
         class     |-> IF lifecycle # 0 \/ \E i \in 1..Len(obs) : Sets(obs[i], "agent")
                       THEN "structural" ELSE "activity"]

-----------------------------------------------------------------------------
(* Merge *)

\* The first n of a set: what a sorted list keeps when it is truncated.
Smallest(S, n) == {x \in S : Cardinality({y \in S : y < x}) < n}

Earlier(a, b) == IF a <= b THEN a ELSE b
Later(a, b) == IF a >= b THEN a ELSE b

\* The record merge_record starts from when there is no file.
EmptyRecord(d) ==
    [observers |-> {}, discovery |-> d.discovery, first |-> d.at, last |-> d.at,
     lifecycle |-> Unset, activity |-> Unset, event |-> d.event,
     agents |-> [a \in {} |-> 0], started |-> FALSE, terminal |-> 0,
     revived |-> FALSE, partial |-> FALSE]

\* What only the newest delta so far may change.  A terminal is 0 or its time.
TakeNewest(r, d) ==
    LET revives == r.terminal # 0 /\ d.at > r.last /\ d.terminal = 0
        ends    == d.terminal # 0 /\ d.terminal >= r.terminal
    IN  [r EXCEPT
           !.last      = d.at,
           !.event     = d.event,
           !.discovery = Later(r.discovery, d.discovery),
           !.started   = r.started \/ d.discovery = 1,
           !.lifecycle = IF d.lifecycle = Unset THEN r.lifecycle ELSE d.lifecycle,
           !.activity  = IF d.activity = Unset THEN r.activity ELSE d.activity,
           !.terminal  = IF ends THEN d.terminal ELSE r.terminal,
           !.revived   = ~ends /\ (r.revived \/ revives)]

\* The agents after a delta: each keeps its first and its last report.
MergeAgents(agents, updates) ==
    LET known   == DOMAIN agents \cup {u[1] : u \in updates}
        times(a) == {u[2] : u \in {v \in updates : v[1] = a}}
                      \cup (IF a \in DOMAIN agents
                              THEN {agents[a].first, agents[a].last} ELSE {})
        least(T) == CHOOSE t \in T : \A x \in T : t <= x
        most(T)  == CHOOSE t \in T : \A x \in T : x <= t
    IN  [a \in Smallest(known, MaxAgents) |->
           [first |-> least(times(a)), last |-> most(times(a))]]

\* Mutant: every delta is taken for the newest.
TakeAny(r, d) == TakeNewest(r, d)

\* The newest delta changes more than an older one that arrives late.
TakeInOrder(r, d) == IF d.at >= r.last THEN TakeNewest(r, d) ELSE r

\* merge_record
MergeRecord(previous, d) ==
    LET base      == IF previous = None THEN EmptyRecord(d) ELSE previous
        aged      == [base EXCEPT !.first = Earlier(base.first, d.at)]
        taken     == TakeInOrder(aged, d)
        observers == base.observers \cup {d.observer}
        agents    == DOMAIN base.agents \cup {u[1] : u \in d.agents}
    IN  [taken EXCEPT
           !.observers = Smallest(observers, MaxObservers),
           !.agents    = MergeAgents(base.agents, d.agents),
           !.partial   = base.partial \/ Cardinality(observers) > MaxObservers
                                      \/ Cardinality(agents) > MaxAgents]

\* What a later record of a session may never take back: its earliest and its latest
\* report, that its start was seen, and that and when it ended.
Grows(r, s) ==
    /\ s.first <= r.first
    /\ s.last >= r.last
    /\ s.discovery >= r.discovery
    /\ r.started => s.started
    /\ s.terminal >= r.terminal
    /\ r.partial => s.partial
    /\ \/ r.observers \subseteq s.observers
       \/ s.partial
=============================================================================
