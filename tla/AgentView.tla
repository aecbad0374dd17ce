-------------------------------- MODULE AgentView --------------------------------
(* What the UI shows of the sessions of code agents (src/agent/state.rs,          *)
(* project_session), and what it promises about it: how what is shown relates to  *)
(* what the providers know, which the UI thread never sees.                       *)
EXTENDS Naturals, FiniteSets, Sequences

CONSTANT None

VARIABLES
    sessions,     \* what is known of each session, or None
    streams,      \* the position in the stream of each source, or None
    provider,     \* what each provider knows and has to say
    completions   \* what is on its way from the agent runtime to the UI thread

Claims(r, authority) ==
    {r.evidence[x] : x \in {x \in DOMAIN r.evidence : r.evidence[x] # None
                                                      /\ r.evidence[x].authority = authority}}

\* Authoritative evidence that disagrees, arbitrate_activity.
Conflict(r) == Cardinality({c.value : c \in Claims(r, "Authoritative")}) > 1

Reconciling(r) == \E x \in r.live : streams[x] # None /\ streams[x].reconciling

\* project_session
Completeness(r) ==
    IF Conflict(r) \/ r.metadata \/ r.dropped \/ Reconciling(r) THEN "Partial"
    ELSE IF /\ \E x \in r.live : streams[x] # None
            /\ \A x \in r.live : streams[x] # None => streams[x].complete
         THEN "Complete" ELSE "Unknown"

ShownComplete(s) == sessions[s] # None /\ Completeness(sessions[s]) = "Complete"

Shown(s, x) ==
    IF sessions[s].evidence[x] = None THEN None ELSE sessions[s].evidence[x].value

----------------------------------------------------------------------------------
\* A session that is shown as completely observed shows, of each of its providers
\* whose contract has the activity, what that provider knew at the position of its
\* stream: no loss, full queue, restart or cut snapshot goes unnoticed once a later
\* event was applied.
CompletenessIsHonest ==
    \A s \in DOMAIN sessions : ShownComplete(s) =>
        \A p \in sessions[s].live \cap DOMAIN provider :
            LET at  == streams[p]
                its == provider[p].revisions[at.epoch]
            IN  its.most # None => Shown(s, p) = its.known[at.last][s]

\* The worker sends events of a stream only after its snapshot, so that the
\* reducer never meets an event of another epoch and never loses one to that.
EventsFollowSnapshots ==
    completions # <<>> /\ Head(completions).kind = "Event" =>
        LET e == Head(completions).body
        IN  e.source \in DOMAIN provider =>
               streams[e.source] # None /\ streams[e.source].epoch = e.epoch

KeepsNewer ==
    \A s \in DOMAIN sessions :
        sessions[s] # None /\ sessions'[s] # None =>
            \A x \in DOMAIN sessions[s].evidence :
                sessions[s].evidence[x] # None /\ sessions'[s].evidence[x] # None
                => sessions[s].evidence[x].at <= sessions'[s].evidence[x].at

\* An event that arrives late never replaces the evidence of a later one.
EvidenceNeverGoesBack == [][KeepsNewer]_sessions
==================================================================================
