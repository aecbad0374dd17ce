----------------------------- MODULE SessionRecord -----------------------------
(* What the reducer keeps of one session and what it shows of it                *)
(* (src/agent/state.rs): the evidence of every source for the lifecycle and the *)
(* activity, and the sources that know each agent and each turn.  Artifacts and *)
(* changes are kept the way turns are, and are left out.                        *)
EXTENDS Naturals, FiniteSets, Functions, SequencesExt, TLC

CONSTANTS
    Sources,       \* observer instances
    MaxObservers,  \* MAX_OBSERVERS_PER_SESSION
    MaxAgents,     \* MAX_METADATA_AGENTS
    MaxTurns,      \* MAX_LIVE_TURNS_PER_SESSION
    None

Fields == {"lifecycle", "activity"}

NewRecord ==
    [evidence |-> [d \in Fields |-> [x \in Sources |-> None]],
     agents |-> <<>>, turns |-> <<>>, live |-> {}, truncated |-> FALSE, dropped |-> FALSE]

\* insert_candidate: an older report does not replace a newer one.
Candidate(r, x, o) ==
    LET old == r.evidence[o.domain][x] IN
    IF old # None /\ old.at > o.at THEN r
    ELSE [r EXCEPT !.evidence[o.domain][x] =
              [value |-> o.value, authority |-> o.authority, at |-> o.at, until |-> o.until]]

Cleared(r, x, d) == [r EXCEPT !.evidence[d][x] = None]

\* The entities that are known, each with the sources that know it and on what authority
Knowers(entities, e) == IF e \in DOMAIN entities THEN entities[e] ELSE <<>>
With(entities, e, x, authority) == (e :> ((x :> authority) @@ Knowers(entities, e))) @@ entities
Without(knowers, x) == Restrict(knowers, DOMAIN knowers \ {x})
Withdrawn(entities, gone, x) ==
    [e \in DOMAIN entities |-> IF e \in gone THEN Without(entities[e], x) ELSE entities[e]]
Kept(entities) == Restrict(entities, {e \in DOMAIN entities : DOMAIN entities[e] # {}})

\* observe_agent: an agent that was known keeps its place when nobody sees it any more.
AgentSeen(r, x, o) ==
    IF o.value \in DOMAIN r.agents \/ Cardinality(DOMAIN r.agents) < MaxAgents
    THEN [r EXCEPT !.agents = With(@, o.value, x, o.authority)]
    ELSE [r EXCEPT !.truncated = TRUE, !.dropped = TRUE]
AgentReleased(r, x, a) == [r EXCEPT !.agents = Withdrawn(@, {a}, x)]

\* insert_turn and remove_entity_source: a turn that nobody reports is forgotten.
TurnSeen(r, x, o) ==
    IF o.value \in DOMAIN r.turns \/ Cardinality(DOMAIN r.turns) < MaxTurns
    THEN [r EXCEPT !.turns = With(@, o.value, x, o.authority)]
    ELSE [r EXCEPT !.dropped = TRUE]
TurnOver(r, x, t) == [r EXCEPT !.turns = Kept(Withdrawn(@, {t}, x))]

\* apply_observation_to_record
Report(r, x, o) ==
    CASE o.op = "set" /\ o.domain \in Fields -> Candidate(r, x, o)
      [] o.op = "clear"    -> Cleared(r, x, o.domain)
      [] o.op = "observed" -> AgentSeen(r, x, o)
      [] o.op = "released" -> AgentReleased(r, x, o.value)
      [] o.op \in {"started", "updated"} /\ o.value # None  -> TurnSeen(r, x, o)
      [] o.op \in {"completed", "failed"} /\ o.value # None -> TurnOver(r, x, o.value)
      [] OTHER             -> r

\* apply_observations: a source beyond the limit of observers is not heard.
Observed(r, x, o) ==
    IF x \notin r.live /\ Cardinality(r.live) >= MaxObservers
    THEN [r EXCEPT !.dropped = TRUE]
    ELSE Report([r EXCEPT !.live = @ \cup {x}], x, o)

ObservedAll(r, x, observations) == FoldLeft(LAMBDA rec, o : Observed(rec, x, o), r, observations)

\* apply_delete of a session, an agent or a turn
DeletedFields(r, x, ds) ==
    [r EXCEPT !.evidence = [d \in Fields |-> IF d \in ds THEN [@[d] EXCEPT ![x] = None] ELSE @[d]]]

\* apply_complete_snapshot_tombstones: what a source does not list within the scope
\* of its complete snapshot, it no longer says.
Listed(observations, d) == {o.value : o \in {o \in Range(observations) : o.domain = d}}
Reaped(r, x, ds, observations) ==
    LET silent    == {d \in ds \cap Fields : Listed(observations, d) = {}}
        lostAgent == IF "agent" \in ds THEN DOMAIN r.agents \ Listed(observations, "agent") ELSE {}
        lostTurn  == IF "turn" \in ds THEN DOMAIN r.turns \ Listed(observations, "turn") ELSE {}
    IN  [DeletedFields(r, x, silent) EXCEPT
            !.agents = Withdrawn(@, lostAgent, x), !.turns = Kept(Withdrawn(@, lostTurn, x))]

\* apply_contract_update: what the contract c of a source, a highest authority for every
\* domain, no longer bears out
Permits(most, authority) ==
    most = "Authoritative" \/ (most = "Observational" /\ authority = "Observational")
Unproven(entities, x, most) ==
    {e \in DOMAIN entities : x \in DOMAIN entities[e] /\ ~Permits(most, entities[e][x])}
Vetted(r, x, c) ==
    [r EXCEPT
        !.evidence = [d \in Fields |->
            IF @[d][x] # None /\ ~Permits(c[d], @[d][x].authority)
            THEN [@[d] EXCEPT ![x] = None] ELSE @[d]],
        !.agents = Withdrawn(@, Unproven(@, x, c["agent"]), x),
        !.turns = Kept(Withdrawn(@, Unproven(@, x, c["turn"]), x))]

-------------------------------------------------------------------------------
(* What is shown *)

Claims(r, d, authority) ==
    {r.evidence[d][x] : x \in {x \in Sources : r.evidence[d][x] # None
                                             /\ r.evidence[d][x].authority = authority}}
Agreed(claims) == IF Cardinality({c.value : c \in claims}) = 1
                  THEN (CHOOSE c \in claims : TRUE).value ELSE "unknown"

\* arbitrate and arbitrate_activity: observations only count where no authority speaks,
\* and only for the activity.
Shown(r, d) ==
    LET said == Claims(r, d, "Authoritative") IN
    IF said # {} \/ d = "lifecycle" THEN Agreed(said) ELSE Agreed(Claims(r, d, "Observational"))

Conflict(r) == \E d \in Fields : Cardinality({c.value : c \in Claims(r, d, "Authoritative")}) > 1

LiveAgents(r) == {a \in DOMAIN r.agents : DOMAIN r.agents[a] # {}}
===============================================================================
