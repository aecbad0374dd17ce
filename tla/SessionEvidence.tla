---------------------------- MODULE SessionEvidence ----------------------------
(* Several observers of one session and of the panes around it                  *)
(* (src/agent/state.rs, src/agent/contract.rs): events, complete snapshots,     *)
(* deletions and new contracts of each of them, in any order.                   *)
(*                                                                              *)
(* Streams, epochs and chunks are AgentState's; here every envelope has passed   *)
(* them.  A pane is Here, Elsewhere or Nowhere yet, and the scope of a snapshot  *)
(* is every workspace, "Selected", or only this one, "Explicit".                 *)
EXTENDS SessionRecord

CONSTANTS
    Agents, Turns, Panes,
    WhereIs,     \* the workspace of each pane
    Notes,       \* the observations that are made
    Offers,      \* the contracts that a probe can find
    Scopes       \* the domains that a snapshot can cover

VARIABLES
    record,      \* SessionRecord
    presences,   \* the panes that are seen, each by a source
    contract,    \* the contract of each source
    said         \* what each source says, kept for the properties

evidenceVars == <<record, presences, contract, said>>

Domains == Fields \cup {"agent", "turn", "presence"}

\* validate_observation: what destroys needs authority (is_destructive).
Admitted(x, o) ==
    /\ Permits(contract[x][o.domain], o.authority)
    /\ o.op \in {"clear", "released"} => o.authority = "Authoritative"

\* What a source has reported and not taken back, each with the authority it claimed
Same(w, v)   == w[1] = v[1] /\ w[2] = v[2]
Say(words, v) == {w \in words : ~Same(w, v)} \cup {v}
After(words, o) ==
    CASE o.op \in {"observed", "started"}   -> Say(words, <<o.domain, o.value, o.authority>>)
      [] o.op \in {"released", "completed"} -> {w \in words : ~Same(w, <<o.domain, o.value>>)}
      [] OTHER -> words

Init ==
    /\ record = NewRecord
    /\ presences = {}
    /\ contract \in [Sources -> Offers]
    /\ said = [x \in Sources |-> {}]

\* apply_event with an upsert
Observe(x, o) ==
    /\ Admitted(x, o)
    /\ record' = Observed(record, x, o)
    /\ said' = [said EXCEPT ![x] = After(@, o)]
    /\ UNCHANGED <<presences, contract>>

SeePane(x, p) ==
    /\ contract[x]["presence"] # None
    /\ presences' = presences \cup {<<p, x>>}
    /\ said' = [said EXCEPT ![x] = Say(@, <<"presence", p, "Observational">>)]
    /\ UNCHANGED <<record, contract>>

\* apply_delete: a session's fields, an agent, a turn or a pane
Delete(x, d, e) ==
    /\ contract[x][d] = "Authoritative"
    /\ record' = CASE d \in Fields -> DeletedFields(record, x, {d})
                   [] d = "agent"  -> AgentReleased(record, x, e)
                   [] d = "turn"   -> TurnOver(record, x, e)
                   [] OTHER        -> record
    /\ presences' = presences \ (IF d = "presence" THEN {<<e, x>>} ELSE {})
    /\ said' = [said EXCEPT ![x] = {w \in @ : ~Same(w, <<d, e>>)}]
    /\ UNCHANGED contract

\* scope_covers_presence: a pane whose workspace is not known yet belongs to every scope.
Covers(scope, p) == scope = "Selected" \/ WhereIs[p] \in {"Here", "Nowhere"}

\* apply_snapshot of a complete snapshot: first what it lists, then the tombstones.
Snapshot(x, scope, ds, notes, panes) ==
    /\ \A d \in ds : contract[x][d] # None
    /\ \A i \in DOMAIN notes : Admitted(x, notes[i]) /\ notes[i].domain \in ds
    /\ panes # {} => "presence" \in ds
    /\ \A p \in panes : scope = "Selected" \/ WhereIs[p] # "Elsewhere"
    /\ record' = Reaped(ObservedAll(record, x, notes), x, ds, notes)
    /\ presences' = {q \in presences \cup (panes \X {x}) :
          q[2] # x \/ "presence" \notin ds \/ ~Covers(scope, q[1]) \/ q[1] \in panes}
    /\ said' = [said EXCEPT ![x] =
          {w \in @ : w[1] \notin ds \/ (w[1] = "presence" /\ ~Covers(scope, w[2]))}
          \cup (UNION {After({}, o) : o \in Range(notes)})
          \cup ({"presence"} \X panes \X {"Observational"})]
    /\ UNCHANGED contract

\* apply_contract_update
UpdateContract(x, c) ==
    /\ c # contract[x]
    /\ contract' = [contract EXCEPT ![x] = c]
    /\ record' = Vetted(record, x, c)
    /\ presences' = {q \in presences : q[2] # x \/ c["presence"] # None}
    /\ said' = [said EXCEPT ![x] = {w \in @ : Permits(c[w[1]], w[3])}]

Next ==
    \E x \in Sources :
       \/ \E o \in Notes : Observe(x, o)
       \/ \E p \in Panes : SeePane(x, p)
       \/ \E d \in Domains, e \in Agents \cup Turns \cup Panes : Delete(x, d, e)
       \/ \E scope \in {"Selected", "Explicit"}, ds \in Scopes, panes \in SUBSET Panes,
             notes \in {<<>>} \cup {<<o>> : o \in Notes} : Snapshot(x, scope, ds, notes, panes)
       \/ \E c \in Offers : UpdateContract(x, c)

-------------------------------------------------------------------------------
(* Properties *)

Pairs(entities, d, x) ==
    {<<d, e, entities[e][x]>> : e \in {e \in DOMAIN entities : x \in DOMAIN entities[e]}}
Known(x) ==
    Pairs(record.agents, "agent", x) \cup Pairs(record.turns, "turn", x)
    \cup {<<"presence", q[1], "Observational">> : q \in {q \in presences : q[2] = x}}

\* What is known from a source is what it said and has not taken back, whatever the
\* others do, and what it said is missing only from a record that says that it dropped
\* something.
WhatWasSaid ==
    \A x \in Sources :
       /\ Known(x) \subseteq said[x]
       /\ said[x] \subseteq Known(x) \/ record.dropped

\* What is shown rests on what the contracts of its sources bear out.
ShownIsPermitted ==
    \A x \in Sources :
       /\ \A w \in Known(x) : Permits(contract[x][w[1]], w[3])
       /\ \A d \in Fields : record.evidence[d][x] # None
                               => Permits(contract[x][d], record.evidence[d][x].authority)

\* The limits hold, and with them the sizes of what is shown.
WithinLimits ==
    /\ Cardinality(DOMAIN record.agents) <= MaxAgents
    /\ Cardinality(DOMAIN record.turns) <= MaxTurns
    /\ Cardinality(record.live) <= MaxObservers
===============================================================================
