------------------------------ MODULE HookSessions ------------------------------
(* A code agent, the hooks that it runs and a viewer: every event of a session    *)
(* starts a process (emit_hook_invocation in src/agent/hook.rs), these processes  *)
(* finish in any order, are lost or run twice, and the viewer's reducer takes      *)
(* what arrives (src/agent/state.rs).                                             *)
(*                                                                               *)
(* What a hook says is the work of the adapters, which turn a native hook event   *)
(* of Claude Code, Codex, TraeX and OpenCode into observations                    *)
(* (src/agent/claude.rs, codex.rs, traex.rs, opencode.rs) within the contract     *)
(* that each of them gives, as the checks of an envelope demand                   *)
(* (src/agent/contract.rs, src/agent/model.rs).  A payload is a record of the     *)
(* fields that the adapters read, None where the native JSON has no such field;   *)
(* keys are the native ids themselves.                                            *)
(*                                                                               *)
(* The agent is not part of this repository; it does what the adapters expect of  *)
(* it.  A hook ends, one way or the other, before a lease does, and the scheduler *)
(* removes what has run out at once.                                              *)
EXTENDS Naturals, Sequences, SequencesExt, FiniteSets, TLC, TLAPS

CONSTANTS
    None,
    Lease,       \* ACTIVITY_LEASE_MILLIS
    MaxEvents,   \* bounds: events of the agent,
    MaxResumes,  \*   how often it resumes an ended session,
    Window,      \*   hooks that run at a time,
    MaxFaults    \*   hooks that are lost or run twice

VARIABLES
    vendor,      \* the agent, which does not change
    agent,       \* what it does
    hooks,       \* the hooks that run
    record,      \* what the viewer keeps of the session, SessionRecord
    seen,        \* the ids of the events that the stream has seen
    taken,       \* the events that were applied,
    refused,     \*   and those that were taken for duplicates
    late,        \* a hook was overtaken by a later one,
    lost,        \*   or lost
    faults, now

hookVars == <<vendor, agent, hooks, record, seen, taken, refused, late, lost, faults, now>>

Reducer == INSTANCE SessionRecord WITH
    Sources <- {vendor}, MaxObservers <- 1, MaxAgents <- 3, MaxTurns <- 4

Vendors == {"claude", "codex", "traex", "opencode"}

\* Option fields of a payload: parse, with set_optional_once
Optional == {"turn", "tool", "agent", "kind", "source", "trigger", "name",
             "parent", "permission", "status", "reply"}

--------------------------------------------------------------------------------
(* Contracts *)

Cap(support, authority) == [support |-> support, authority |-> authority]

\* contract_template: all but the support of four domains is the same for every vendor.
Template(lifecycle, activity, tool) ==
    [session    |-> Cap("Confirmed", "Observational"),
     lifecycle  |-> Cap(lifecycle, "Authoritative"),
     activity   |-> Cap(activity, "Authoritative"),
     turn       |-> Cap("Partial", "Authoritative"),
     permission |-> Cap("Partial", "Authoritative"),
     tool       |-> Cap(tool, "Authoritative"),
     agent      |-> Cap("Partial", "Authoritative")]
ClaudeContract   == Template("Confirmed", "Partial", "Confirmed")
CodexContract    == Template("Partial", "Partial", "Partial")
TraexContract    == Template("Confirmed", "Partial", "Confirmed")
OpenCodeContract == Template("Confirmed", "Confirmed", "Confirmed")

Contract(v) == CASE v = "claude" -> ClaudeContract [] v = "codex" -> CodexContract
                 [] v = "traex" -> TraexContract   [] v = "opencode" -> OpenCodeContract

\* CapabilitySupport::permits and EvidenceAuthority::permits
SupportPermits(most, support) == most = "Confirmed" \/ (most = "Partial" /\ support = "Partial")
AuthorityPermits(most, authority) ==
    most = "Authoritative" \/ (most = "Observational" /\ authority = "Observational")

\* validate_shape: what an observation has to name, and what may expire.
WellShaped(o) ==
    /\ o.domain = "agent" => o.value # None
    /\ o.domain = "turn" /\ o.op # "unattributed" => o.value # None
    /\ o.leased => o.domain = "activity"
    \* an agent and a turn belong to the session of the observation
    /\ o.owner = o.session

\* validate_observation: what destroys needs authority, and only an activity may be
\* leased, as no hook contract backs an open session with a lease.
Destructive(o) == o.op \in {"clear", "released"}
Admitted(v, o) ==
    LET most == Contract(v)[o.domain] IN
    /\ SupportPermits(most.support, o.support)
    /\ AuthorityPermits(most.authority, o.authority)
    /\ Destructive(o) => o.authority = "Authoritative"
    /\ WellShaped(o)

--------------------------------------------------------------------------------
(* Observations *)

Said(p, d, op, value, support) ==
    [domain |-> d, op |-> op, value |-> value, support |-> support,
     authority |-> IF d = "session" THEN "Observational" ELSE "Authoritative",
     leased |-> FALSE, session |-> p.session, owner |-> p.session]

SessionSeen(p)          == Said(p, "session", "set", "present", "Confirmed")
Opened(p, support)      == Said(p, "lifecycle", "set", "open", support)
Ended(p)                == Said(p, "lifecycle", "set", "ended", "Confirmed")
TurnIs(p, op)           == Said(p, "turn", op, p.turn, "Partial")
PermissionIs(p, op)     == Said(p, "permission", op, None, "Partial")
ToolIs(p, op, support)  == Said(p, "tool", op, None, support)
AgentIs(p, op)          == Said(p, "agent", op, p.agent, "Partial")
\* Mutant: an activity that a hook implies holds until another one is reported.
ActiveForGood(p, value) == Said(p, "activity", "set", value, "Partial")
\* An activity of a hook that implies it holds for a time only.
Active(p, value)        == [Said(p, "activity", "set", value, "Partial") EXCEPT !.leased = TRUE]
ActivityOver(p)         == Said(p, "activity", "clear", None, "Partial")

Over(p, op) == IF p.turn = None THEN <<>> ELSE <<TurnIs(p, op)>>

--------------------------------------------------------------------------------
(* Claude Code *)

ClaudeNeeds(e) ==
    CASE e = "SessionStart" -> {"source"}
      [] e \in {"PreToolUse", "PostToolUse", "PostToolUseFailure", "PermissionDenied"} ->
            {"name", "tool"}
      [] e = "PermissionRequest" -> {"name"}
      [] e \in {"SubagentStart", "SubagentStop"} -> {"agent", "kind"}
      [] OTHER -> {}

ClaudeFacts(p) ==
    CASE p.event = "SessionStart"       -> <<SessionSeen(p), Opened(p, "Confirmed")>>
      [] p.event = "UserPromptSubmit"   ->
            <<TurnIs(p, IF p.turn = None THEN "unattributed" ELSE "started"), Active(p, "working")>>
      [] p.event = "PreToolUse"         -> <<ToolIs(p, "started", "Confirmed"), Active(p, "working")>>
      [] p.event = "PermissionRequest"  -> <<PermissionIs(p, "requested"), Active(p, "waiting")>>
      [] p.event = "PermissionDenied"   -> <<PermissionIs(p, "denied"), Active(p, "working")>>
      [] p.event = "PostToolUse"        -> <<ToolIs(p, "completed", "Confirmed"), Active(p, "working")>>
      [] p.event = "PostToolUseFailure" -> <<ToolIs(p, "failed", "Confirmed"), Active(p, "working")>>
      [] p.event = "SubagentStart"      -> <<AgentIs(p, "observed")>>
      [] p.event = "SubagentStop"       -> <<AgentIs(p, "released")>>
      [] p.event = "Stop"               -> Append(Over(p, "completed"), Active(p, "idle"))
      [] p.event = "StopFailure"        -> Append(Over(p, "failed"), Active(p, "idle"))
      [] p.event = "SessionEnd"         -> <<Ended(p), ActivityOver(p)>>
      [] OTHER                          -> <<>>

\* event_identity: what tells one event from another, so that the same hook that runs
\* twice is one event. Fields that are absent leave no trace.
Present(values) == SelectSeq(values, LAMBDA x : x # None)
Native(p) == Present(<<p.turn, p.tool, p.agent, p.source, p.trigger, p.name>>)
ClaudeIdentity(p) ==
    <<p.event, p.session>> \o Native(p)
    \o IF p.event = "PermissionRequest" /\ p.tool = None THEN <<p.at>> ELSE <<>>

--------------------------------------------------------------------------------
(* Codex: no event ends a session, and after a tool its activity is not known. *)

CodexNeeds(e) ==
    CASE e = "SessionStart" -> {"source"}
      [] e \in {"PreToolUse", "PostToolUse"} -> {"turn", "name", "tool"}
      [] e = "PermissionRequest" -> {"turn", "name"}
      [] e \in {"SubagentStart", "SubagentStop"} -> {"turn", "agent", "kind"}
      [] OTHER -> {"turn"}

CodexFacts(p) ==
    CASE p.event = "SessionStart"      -> <<SessionSeen(p), Opened(p, "Partial")>>
      [] p.event = "UserPromptSubmit"  -> <<TurnIs(p, "started"), Active(p, "working")>>
      [] p.event = "PreToolUse"        -> <<ToolIs(p, "started", "Partial"), Active(p, "working")>>
      [] p.event = "PermissionRequest" -> <<PermissionIs(p, "requested"), Active(p, "waiting")>>
      [] p.event = "PostToolUse"       -> <<ToolIs(p, "completed", "Partial"), TurnIs(p, "updated")>>
      [] p.event = "SubagentStart"     -> <<AgentIs(p, "observed")>>
      [] p.event = "SubagentStop"      -> <<AgentIs(p, "released")>>
      [] p.event = "Stop"              -> <<TurnIs(p, "completed"), Active(p, "idle")>>
      [] OTHER                         -> <<>>

CodexIdentity(p) == <<p.event, p.session>> \o Native(p)

--------------------------------------------------------------------------------
(* TraeX *)

TraexNeeds(e) ==
    CASE e = "SessionStart" -> {"source"}
      [] e \in {"UserPromptSubmit", "Stop"} -> {"turn"}
      [] e \in {"PreToolUse", "PostToolUse", "PostToolUseFailure"} -> {"turn", "name", "tool"}
      [] e = "PermissionRequest" -> {"turn", "name"}
      [] e \in {"SubagentStart", "SubagentStop"} -> {"turn", "agent", "kind"}
      [] OTHER -> {}

TraexFacts(p) ==
    CASE p.event = "SessionStart"       -> <<SessionSeen(p), Opened(p, "Confirmed")>>
      [] p.event = "UserPromptSubmit"   -> <<TurnIs(p, "started"), Active(p, "working")>>
      [] p.event = "PreToolUse"         -> <<ToolIs(p, "started", "Confirmed"), Active(p, "working")>>
      [] p.event = "PermissionRequest"  -> <<PermissionIs(p, "requested"), Active(p, "waiting")>>
      [] p.event = "PostToolUse"        -> <<ToolIs(p, "completed", "Confirmed"), Active(p, "working")>>
      [] p.event = "PostToolUseFailure" -> <<ToolIs(p, "failed", "Confirmed"), Active(p, "working")>>
      [] p.event = "SubagentStart"      -> <<AgentIs(p, "observed")>>
      [] p.event = "SubagentStop"       -> <<AgentIs(p, "released")>>
      [] p.event = "Stop"               -> <<TurnIs(p, "completed"), Active(p, "idle")>>
      [] p.event = "SessionEnd"         -> <<Ended(p), ActivityOver(p)>>
      [] OTHER                          -> <<>>

TraexIdentity(p) ==
    <<p.event, p.session>> \o Native(p)
    \o IF p.event = "PermissionRequest" /\ p.tool = None THEN <<p.at>> ELSE <<>>

--------------------------------------------------------------------------------
(* OpenCode: a session that another one started is an agent of that other one. *)

OpenCodeNeeds(e) ==
    CASE e \in {"message.updated", "session.error"}                  -> {"turn"}
      [] e \in {"permission.asked", "permission.replied"}            -> {"permission"}
      [] e \in {"tool.execute.before", "tool.execute.after",
                "message.part.updated"}                              -> {"tool", "name"}
      [] OTHER                                                       -> {}

\* The rest of validate: what the values of a payload have to be.
OpenCodeValues(p) ==
    /\ p.parent # p.session
    /\ p.event = "session.status"       => p.status \in {"busy", "retry", "idle"}
    /\ p.event = "permission.replied"   => p.reply \in {"once", "always", "reject"}
    /\ p.event = "message.part.updated" => p.status = "error"

\* The child is an agent in the session of its parent.
Child(p, op) ==
    IF p.parent = None THEN <<>>
    ELSE <<[Said(p, "agent", op, p.session, "Partial") EXCEPT
               !.session = p.parent, !.owner = p.parent]>>
Reported(p, value) == Said(p, "activity", "set", value, "Confirmed")

OpenCodeFacts(p) ==
    CASE p.event = "session.created" ->
            <<SessionSeen(p), Opened(p, "Confirmed")>> \o Child(p, "observed")
      [] p.event = "session.updated" -> <<SessionSeen(p)>>
      [] p.event = "session.deleted" -> <<Ended(p), ActivityOver(p)>> \o Child(p, "released")
      [] p.event = "session.status" /\ p.status # "idle" -> <<Reported(p, "working")>>
      [] p.event = "session.status" /\ p.status = "idle" ->
            Append(Over(p, "completed"), Reported(p, "idle"))
      [] p.event = "message.updated" -> <<TurnIs(p, "started"), Active(p, "working")>>
      [] p.event = "session.error" -> <<TurnIs(p, "failed"), Active(p, "idle")>>
      [] p.event = "permission.asked" -> <<PermissionIs(p, "requested"), Active(p, "waiting")>>
      [] p.event = "permission.replied" ->
            <<PermissionIs(p, IF p.reply = "reject" THEN "denied" ELSE "granted"),
              Active(p, "working")>>
      [] p.event = "tool.execute.before" -> <<ToolIs(p, "started", "Confirmed"), Active(p, "working")>>
      [] p.event = "tool.execute.after" -> <<ToolIs(p, "completed", "Confirmed"), Active(p, "working")>>
      [] p.event = "message.part.updated" -> <<ToolIs(p, "failed", "Confirmed"), Active(p, "working")>>
      [] OTHER -> <<>>

\* The id is the one OpenCode gave the event, or a number of the plugin.
OpenCodeIdentity(p) == <<p.event, p.session, p.id>>

--------------------------------------------------------------------------------
(* decode_hook *)

Needs(v, e) == CASE v = "claude" -> ClaudeNeeds(e) [] v = "codex" -> CodexNeeds(e)
                 [] v = "traex" -> TraexNeeds(e)   [] v = "opencode" -> OpenCodeNeeds(e)
Facts(v, p) == CASE v = "claude" -> ClaudeFacts(p) [] v = "codex" -> CodexFacts(p)
                 [] v = "traex" -> TraexFacts(p)   [] v = "opencode" -> OpenCodeFacts(p)
Identity(v, p) ==
    CASE v = "claude" -> ClaudeIdentity(p) [] v = "codex" -> CodexIdentity(p)
      [] v = "traex" -> TraexIdentity(p)   [] v = "opencode" -> OpenCodeIdentity(p)

WellFormed(v, p) == /\ \A f \in Needs(v, p.event) : p[f] # None
                    /\ v = "opencode" => OpenCodeValues(p)

\* What a hook tells the viewers: nothing, if its payload is malformed or no fact.
Decoded(v, p) == IF WellFormed(v, p) THEN Facts(v, p) ELSE <<>>

--------------------------------------------------------------------------------
(* The agent *)

\* The session is 1; its subagents, or the sessions that it starts, are 2, 3...
Session     == 1
Subagent(k) == k + 1

Init ==
    /\ vendor \in Vendors
    /\ agent = [phase |-> "new", turn |-> 0, tool |-> 0, sub |-> FALSE, subs |-> 0, resumes |-> 0,
                event |-> 0, since |-> 0]
    /\ hooks = {} /\ record = Reducer!NewRecord /\ seen = {}
    /\ taken = {} /\ refused = {} /\ late = FALSE /\ lost = FALSE /\ faults = 0 /\ now = 0

\* A hook of the event: the fields are those that the vendor's documented events carry.
Common == {"session", "event", "id", "at"}
Hook(session, event, fields) ==
    [f \in Common \cup Optional |->
        CASE f = "session" -> session
          [] f = "event"   -> event
          [] f = "id"      -> agent.event + 1
          [] f = "at"      -> now + 1
          [] OTHER -> IF f \in DOMAIN fields THEN fields[f] ELSE None]

\* The agent goes on, and the hook of its event starts.
Step(next, hook) ==
    /\ agent.event < MaxEvents /\ Cardinality(hooks) < Window
    /\ agent' = [next EXCEPT !.event = @ + 1,
                             !.since = IF next.phase = agent.phase THEN @ ELSE now + 1]
    /\ hooks' = hooks \cup {hook}
    /\ now' = now + 1
    /\ UNCHANGED <<vendor, record, seen, taken, refused, late, lost, faults>>

ByVendor(claude, opencode) == IF vendor = "opencode" THEN opencode ELSE claude
Turn == [turn |-> agent.turn]
Tool == Turn @@ [tool |-> agent.tool, name |-> "tool"]

Start ==
    /\ agent.phase = "new" \/ (agent.phase = "ended" /\ agent.resumes < MaxResumes)
    /\ LET again == agent.phase = "ended" IN
       Step([agent EXCEPT !.phase = "idle", !.resumes = IF again THEN @ + 1 ELSE @],
            ByVendor(Hook(Session, "SessionStart", [source |-> IF again THEN "resume" ELSE "startup"]),
                   Hook(Session, IF again THEN "session.updated" ELSE "session.created", <<>>)))

Prompt ==
    /\ agent.phase = "idle"
    /\ Step([agent EXCEPT !.phase = "working", !.turn = @ + 1],
            LET turn == [turn |-> agent.turn + 1]
            IN  ByVendor(Hook(Session, "UserPromptSubmit", turn), Hook(Session, "message.updated", turn)))

UseTool ==
    /\ agent.phase = "working"
    /\ Step([agent EXCEPT !.phase = "using", !.tool = @ + 1],
            LET tool == Turn @@ [tool |-> agent.tool + 1, name |-> "tool"]
            IN  ByVendor(Hook(Session, "PreToolUse", tool), Hook(Session, "tool.execute.before", tool)))

Ask ==
    /\ agent.phase = "using"
    /\ Step([agent EXCEPT !.phase = "waiting"],
            ByVendor(Hook(Session, "PermissionRequest", Turn @@ [name |-> "tool"]),
                   Hook(Session, "permission.asked", Turn @@ [permission |-> agent.tool])))

\* Only OpenCode tells the answer.
Answer ==
    /\ agent.phase = "waiting"
    /\ IF vendor = "opencode"
       THEN Step([agent EXCEPT !.phase = "running"],
                 Hook(Session, "permission.replied",
                      Turn @@ [permission |-> agent.tool, reply |-> "once"]))
       ELSE /\ agent' = [agent EXCEPT !.phase = "running"]
            /\ UNCHANGED <<vendor, hooks, record, seen, taken, refused, late, lost, faults, now>>

ToolEnds ==
    /\ agent.phase \in {"using", "running"}
    /\ Step([agent EXCEPT !.phase = "working"],
            ByVendor(Hook(Session, "PostToolUse", Tool), Hook(Session, "tool.execute.after", Tool)))

SubagentStarts ==
    /\ agent.phase = "working" /\ ~agent.sub
    /\ LET new == Subagent(agent.subs + 1) IN
       Step([agent EXCEPT !.sub = TRUE, !.subs = @ + 1],
            ByVendor(Hook(Session, "SubagentStart", Turn @@ [agent |-> new, kind |-> "explore"]),
                     Hook(new, "session.created", [parent |-> Session])))

SubagentStops ==
    /\ agent.phase = "working" /\ agent.sub
    /\ LET old == Subagent(agent.subs) IN
       Step([agent EXCEPT !.sub = FALSE],
            ByVendor(Hook(Session, "SubagentStop", Turn @@ [agent |-> old, kind |-> "explore"]),
                     Hook(old, "session.deleted", [parent |-> Session])))

Stop ==
    /\ agent.phase = "working" /\ ~agent.sub
    /\ Step([agent EXCEPT !.phase = "idle"],
            ByVendor(Hook(Session, "Stop", Turn),
                   Hook(Session, "session.status", Turn @@ [status |-> "idle"])))

\* OpenCode reports while it works that it is busy.
Busy ==
    /\ vendor = "opencode" /\ agent.phase \in {"working", "running"}
    /\ Step(agent, Hook(Session, "session.status", Turn @@ [status |-> "busy"]))

\* Codex has no event for the end of a session.
End ==
    /\ agent.phase = "idle" /\ vendor # "codex"
    /\ Step([agent EXCEPT !.phase = "ended"],
            ByVendor(Hook(Session, "SessionEnd", <<>>), Hook(Session, "session.deleted", <<>>)))

--------------------------------------------------------------------------------
\* apply_observations: an observation with the lease of its adapter
Timed(o, at) ==
    o @@ [at |-> at, until |-> IF o.leased THEN at + Lease ELSE None]
Applied(r, p) ==
    FoldLeft(LAMBDA rec, o : IF o.session = Session
                             THEN Reducer!Observed(rec, vendor, Timed(o, p.at)) ELSE rec,
             r, Decoded(vendor, p))

\* The viewer takes an event unless it has seen its id (prepare_event_stream).
Take(h) ==
    IF Identity(vendor, h) \in seen
    THEN /\ refused' = refused \cup {h}
         /\ UNCHANGED <<record, seen, taken>>
    ELSE /\ record' = Applied(record, h)
         /\ seen' = seen \cup {Identity(vendor, h)}
         /\ taken' = taken \cup {h.id}
         /\ UNCHANGED refused

Overtakes(h) == \E other \in hooks : other.at < h.at

Deliver(h) ==
    /\ Take(h)
    /\ hooks' = hooks \ {h}
    /\ late' = (late \/ Overtakes(h))
    /\ UNCHANGED <<vendor, agent, lost, faults, now>>

\* The same hook is installed twice, and its first run is done.
DeliverOnce(h) ==
    /\ faults < MaxFaults
    /\ Take(h)
    /\ late' = (late \/ Overtakes(h))
    /\ faults' = faults + 1
    /\ UNCHANGED <<vendor, agent, hooks, lost, now>>

\* The hook fails, or does not reach the viewer before its deadline.
Lose(h) ==
    /\ faults < MaxFaults
    /\ hooks' = hooks \ {h}
    /\ lost' = TRUE
    /\ faults' = faults + 1
    /\ UNCHANGED <<vendor, agent, record, seen, taken, refused, late, now>>

\* Once, the agent runs no hook for as long as a lease.
Pause ==
    /\ hooks = {} /\ now = agent.event
    /\ now' = now + Lease
    /\ UNCHANGED <<vendor, agent, hooks, record, seen, taken, refused, late, lost, faults>>

\* The user does nothing.
Rest == hooks = {} /\ UNCHANGED hookVars

Next ==
    \/ Start \/ Prompt \/ UseTool \/ Ask \/ Answer \/ ToolEnds
    \/ SubagentStarts \/ SubagentStops \/ Stop \/ Busy \/ End
    \/ \E h \in hooks : Deliver(h) \/ DeliverOnce(h) \/ Lose(h)
    \/ Pause \/ Rest

--------------------------------------------------------------------------------
(* Properties *)

\* The evidence that has not run out
Current ==
    LET e == record.evidence["activity"][vendor] IN
    IF e # None /\ e.until # None /\ e.until <= now
    THEN [record EXCEPT !.evidence["activity"][vendor] = None] ELSE record
Activity  == Reducer!Shown(Current, "activity")
Lifecycle == Reducer!Shown(Current, "lifecycle")
Told      == hooks = {} /\ ~lost

\* Every observation of every hook fits the contract of the adapter that makes it.
FactsAreAdmitted ==
    \A h \in hooks : \A i \in DOMAIN Decoded(vendor, h) : Admitted(vendor, Decoded(vendor, h)[i])

\* No event is taken for one that was there before, but for two kinds that carry nothing
\* to tell them apart: a session that is resumed starts and ends again, and Codex asks
\* again for the same tool in one turn.
OnlyRepeatsAreRefused ==
    \A h \in refused :
       \/ h.id \in taken
       \/ h.event \in {"SessionStart", "SessionEnd"} /\ agent.resumes > 0
       \/ h.event = "PermissionRequest" /\ vendor = "codex"

\* Once the hooks of an agent have arrived, in whatever order, the viewer shows that it
\* waits for its user, if it says anything, and whether its session is open.
RestIsShown ==
    Told /\ agent.resumes = 0 =>
       /\ agent.phase = "idle" => Activity \in {"idle", "unknown"} /\ Lifecycle = "open"
       /\ agent.phase = "ended" => Lifecycle = "ended"

\* If they arrived in their order, it also knows the turn and the agents that are there.
WorkIsShown ==
    Told /\ ~late /\ agent.resumes = 0 =>
       /\ DOMAIN record.turns = IF agent.phase \in {"working", "using", "waiting", "running"}
                                THEN {agent.turn} ELSE {}
       /\ Reducer!LiveAgents(record) = IF agent.sub THEN {Subagent(agent.subs)} ELSE {}
       /\ agent.phase = "ended" => Activity = "unknown"

\* A hook that is lost misleads for the time of a lease: OpenCode apart, whose reported
\* activity has none.
WrongForALeaseOnly ==
    /\ vendor # "opencode" /\ agent.phase \in {"idle", "ended"} /\ now >= agent.since + Lease
    => Activity \notin {"working", "waiting"}

--------------------------------------------------------------------------------
(* What does not hold: see the README *)

\* Every event of the agent counts.
EveryEventCounts == \A h \in refused : h.id \in taken

\* The end of a session that was resumed is shown.
EndIsShown ==
    Told /\ agent.phase = "ended" => Lifecycle = "ended"

--------------------------------------------------------------------------------
(* Proofs: what the adapters say is within the contracts they give. *)

\* What stands for no value is not a session.
HookShape == None \notin Nat

\* Every fact fits the contract of the vendor.
AllAdmitted(v, facts) == \A i \in DOMAIN facts : Admitted(v, facts[i])

\* None, one or two facts that fit
LEMMA OneAdmitted == ASSUME NEW v, NEW o, Admitted(v, o) PROVE AllAdmitted(v, <<o>>)
BY DEF AllAdmitted

LEMMA TwoAdmitted ==
    ASSUME NEW v, NEW o, NEW q, Admitted(v, o), Admitted(v, q) PROVE AllAdmitted(v, <<o, q>>)
BY DEF AllAdmitted

LEMMA NoneAdmitted == ASSUME NEW v PROVE AllAdmitted(v, <<>>)
BY DEF AllAdmitted

\* What the contracts of the vendors have in common, and where Codex and OpenCode differ
LEMMA ContractsOf ==
    ASSUME NEW v \in Vendors
    PROVE  /\ Contract(v)["session"] = Cap("Confirmed", "Observational")
           /\ Contract(v)["lifecycle"].authority = "Authoritative"
           /\ Contract(v)["activity"].authority = "Authoritative"
           /\ Contract(v)["tool"].authority = "Authoritative"
           /\ Contract(v)["turn"] = Cap("Partial", "Authoritative")
           /\ Contract(v)["permission"] = Cap("Partial", "Authoritative")
           /\ Contract(v)["agent"] = Cap("Partial", "Authoritative")
           /\ Contract(v)["lifecycle"].support = IF v = "codex" THEN "Partial" ELSE "Confirmed"
           /\ Contract(v)["tool"].support = IF v = "codex" THEN "Partial" ELSE "Confirmed"
           /\ Contract(v)["activity"].support = IF v = "opencode" THEN "Confirmed" ELSE "Partial"
BY DEF Contract, ClaudeContract, CodexContract, TraexContract, OpenCodeContract, Template, Cap, Vendors

\* Each kind of observation that an adapter makes fits, if it names what it is about; Codex
\* never says that an end, an open session or a tool is certain.
LEMMA FactsFit ==
    ASSUME NEW v \in Vendors, NEW p, p.session # None
    PROVE  /\ Admitted(v, SessionSeen(p))
           /\ Admitted(v, Opened(p, "Partial"))
           /\ v # "codex" => Admitted(v, Opened(p, "Confirmed")) /\ Admitted(v, Ended(p))
           /\ p.turn # None => \A op \in {"started", "completed", "failed", "updated"} : Admitted(v, TurnIs(p, op))
           /\ Admitted(v, TurnIs(p, "unattributed"))
           /\ \A op \in {"requested", "denied", "granted"} : Admitted(v, PermissionIs(p, op))
           /\ \A op \in {"started", "completed", "failed"} :
                  /\ Admitted(v, ToolIs(p, op, "Partial"))
                  /\ v # "codex" => Admitted(v, ToolIs(p, op, "Confirmed"))
           /\ p.agent # None => \A op \in {"observed", "released"} : Admitted(v, AgentIs(p, op))
           /\ \A value : Admitted(v, Active(p, value))
           /\ v = "opencode" => \A value : Admitted(v, Reported(p, value))
           /\ Admitted(v, ActivityOver(p))
<1> USE ContractsOf DEF Admitted, SupportPermits, AuthorityPermits, Destructive, WellShaped, Cap
<1>1. Admitted(v, SessionSeen(p)) 
  BY DEF SessionSeen, Said
<1>2. Admitted(v, Opened(p, "Partial")) /\ (v # "codex" => Admitted(v, Opened(p, "Confirmed")) /\ Admitted(v, Ended(p)))
  BY DEF Opened, Ended, Said
<1>3. p.turn # None => \A op \in {"started", "completed", "failed", "updated"} : Admitted(v, TurnIs(p, op))
  BY DEF TurnIs, Said
<1>4. Admitted(v, TurnIs(p, "unattributed"))
  BY DEF TurnIs, Said
<1>5. \A op \in {"requested", "denied", "granted"} : Admitted(v, PermissionIs(p, op))
  BY DEF PermissionIs, Said
<1>6. \A op \in {"started", "completed", "failed"} :
                  /\ Admitted(v, ToolIs(p, op, "Partial"))
                  /\ v # "codex" => Admitted(v, ToolIs(p, op, "Confirmed"))
  BY DEF ToolIs, Said
<1>7. p.agent # None => \A op \in {"observed", "released"} : Admitted(v, AgentIs(p, op))
  BY DEF AgentIs, Said
<1>8. \A value : Admitted(v, Active(p, value))
  BY DEF Active, Said
<1>9. v = "opencode" => \A value : Admitted(v, Reported(p, value))
  BY DEF Reported, Said
<1>10. Admitted(v, ActivityOver(p))
  BY DEF ActivityOver, Said
<1> HIDE DEF Admitted
<1>11. QED
  BY <1>1, <1>2, <1>3, <1>4, <1>5, <1>6, <1>7, <1>8, <1>9, <1>10

\* What ends a turn, if it is known which, before what follows from it
LEMMA OverFits ==
    ASSUME NEW v \in Vendors, NEW p, p.session # None, NEW op \in {"completed", "failed"},
           NEW o, Admitted(v, o)
    PROVE  AllAdmitted(v, Append(Over(p, op), o))
<1>1. CASE p.turn = None
  <2>1. Append(<<>>, o) = <<o>>
    OBVIOUS
  <2>2. QED
    BY <1>1, <2>1, OneAdmitted DEF Over
<1>2. CASE p.turn # None
  <2> DEFINE q == TurnIs(p, op)
             s == Append(<<q>>, o)
  <2>2. Admitted(v, TurnIs(p, op))
    BY <1>2, FactsFit
  <2>3. QED
    <3>1. Over(p, op) = <<q>>
      BY <1>2 DEF Over
    <3> HIDE DEF q
    <3>2. <<q>> \in Seq({q, o}) /\ o \in {q, o} /\ Len(<<q>>) = 1
      OBVIOUS
    <3>3. s \in Seq({q, o}) /\ Len(s) = 2 /\ s[1] = q /\ s[2] = o
      BY <3>2
    <3> HIDE DEF s
    <3>4. \A i \in DOMAIN s : s[i] = q \/ s[i] = o
      BY <3>3
    <3>5. AllAdmitted(v, s)
      BY <2>2, <3>4 DEF AllAdmitted, q
    <3>6. QED
      BY <3>1, <3>5 DEF s
<1>3. QED
  BY <1>1, <1>2

\* The events of Claude Code, one group after the other
LEMMA ClaudeFits ==
    ASSUME NEW p, p.session # None, WellFormed("claude", p)
    PROVE  AllAdmitted("claude", ClaudeFacts(p))
<1> DEFINE v == "claude"
<1>1. v \in Vendors /\ v # "codex"
  BY DEF Vendors
<1>2. p.event \in {"SubagentStart", "SubagentStop"} => p.agent # None
  BY DEF WellFormed, Needs, ClaudeNeeds
<1>3. CASE p.event = "SessionStart"
  BY <1>1, <1>3, FactsFit, TwoAdmitted DEF ClaudeFacts
<1>4. CASE p.event = "UserPromptSubmit"
  BY <1>1, <1>4, FactsFit, TwoAdmitted DEF ClaudeFacts
<1>5. CASE p.event \in {"PreToolUse", "PostToolUse", "PostToolUseFailure"}
  BY <1>1, <1>5, FactsFit, TwoAdmitted DEF ClaudeFacts
<1>6. CASE p.event \in {"PermissionRequest", "PermissionDenied"}
  BY <1>1, <1>6, FactsFit, TwoAdmitted DEF ClaudeFacts
<1>7. CASE p.event \in {"SubagentStart", "SubagentStop"}
  BY <1>1, <1>2, <1>7, FactsFit, OneAdmitted DEF ClaudeFacts
<1>8. CASE p.event \in {"Stop", "StopFailure"}
  BY <1>1, <1>8, FactsFit, OverFits DEF ClaudeFacts
<1>9. CASE p.event = "SessionEnd"
  BY <1>1, <1>9, FactsFit, TwoAdmitted DEF ClaudeFacts
<1>10. CASE p.event \notin {"SessionStart", "UserPromptSubmit", "PreToolUse", "PostToolUse",
                            "PostToolUseFailure", "PermissionRequest", "PermissionDenied",
                            "SubagentStart", "SubagentStop", "Stop", "StopFailure", "SessionEnd"}
  BY <1>10, NoneAdmitted DEF ClaudeFacts
<1>11. QED
  BY <1>3, <1>4, <1>5, <1>6, <1>7, <1>8, <1>9, <1>10

\* Those of Codex
LEMMA CodexFits ==
    ASSUME NEW p, p.session # None, WellFormed("codex", p)
    PROVE  AllAdmitted("codex", CodexFacts(p))
<1> DEFINE v == "codex"
<1>1. v \in Vendors
  BY DEF Vendors
<1>2. /\ p.event \in {"SubagentStart", "SubagentStop"} => p.agent # None
      /\ p.event \in {"UserPromptSubmit", "PostToolUse", "Stop"} => p.turn # None
  BY DEF WellFormed, Needs, CodexNeeds
<1>3. CASE p.event = "SessionStart"
  BY <1>1, <1>3, FactsFit, TwoAdmitted DEF CodexFacts
<1>4. CASE p.event \in {"UserPromptSubmit", "Stop"}
  BY <1>1, <1>2, <1>4, FactsFit, TwoAdmitted DEF CodexFacts
<1>5. CASE p.event \in {"PreToolUse", "PostToolUse"}
  BY <1>1, <1>2, <1>5, FactsFit, TwoAdmitted DEF CodexFacts
<1>6. CASE p.event = "PermissionRequest"
  BY <1>1, <1>6, FactsFit, TwoAdmitted DEF CodexFacts
<1>7. CASE p.event \in {"SubagentStart", "SubagentStop"}
  BY <1>1, <1>2, <1>7, FactsFit, OneAdmitted DEF CodexFacts
<1>8. CASE p.event \notin {"SessionStart", "UserPromptSubmit", "PreToolUse", "PostToolUse",
                           "PermissionRequest", "SubagentStart", "SubagentStop", "Stop"}
  BY <1>8, NoneAdmitted DEF CodexFacts
<1>9. QED
  BY <1>3, <1>4, <1>5, <1>6, <1>7, <1>8

\* Those of TraeX
LEMMA TraexFits ==
    ASSUME NEW p, p.session # None, WellFormed("traex", p)
    PROVE  AllAdmitted("traex", TraexFacts(p))
<1> DEFINE v == "traex"
<1>1. v \in Vendors /\ v # "codex"
  BY DEF Vendors
<1>2. /\ p.event \in {"SubagentStart", "SubagentStop"} => p.agent # None
      /\ p.event \in {"UserPromptSubmit", "Stop"} => p.turn # None
  BY DEF WellFormed, Needs, TraexNeeds
<1>3. CASE p.event \in {"SessionStart", "SessionEnd"}
  BY <1>1, <1>3, FactsFit, TwoAdmitted DEF TraexFacts
<1>4. CASE p.event \in {"UserPromptSubmit", "Stop"}
  BY <1>1, <1>2, <1>4, FactsFit, TwoAdmitted DEF TraexFacts
<1>5. CASE p.event \in {"PreToolUse", "PostToolUse", "PostToolUseFailure"}
  BY <1>1, <1>5, FactsFit, TwoAdmitted DEF TraexFacts
<1>6. CASE p.event = "PermissionRequest"
  BY <1>1, <1>6, FactsFit, TwoAdmitted DEF TraexFacts
<1>7. CASE p.event \in {"SubagentStart", "SubagentStop"}
  BY <1>1, <1>2, <1>7, FactsFit, OneAdmitted DEF TraexFacts
<1>8. CASE p.event \notin {"SessionStart", "UserPromptSubmit", "PreToolUse", "PostToolUse",
                           "PostToolUseFailure", "PermissionRequest", "SubagentStart",
                           "SubagentStop", "Stop", "SessionEnd"}
  BY <1>8, NoneAdmitted DEF TraexFacts
<1>9. QED
  BY <1>3, <1>4, <1>5, <1>6, <1>7, <1>8

\* A session that another one started is an agent of that one: before it come one or two
\* facts of its own.
LEMMA ChildFits ==
    ASSUME NEW p, p.session # None, NEW op \in {"observed", "released"},
           NEW o, NEW q, Admitted("opencode", o), Admitted("opencode", q)
    PROVE  AllAdmitted("opencode", <<o, q>> \o Child(p, op))
<1> DEFINE v == "opencode"
<1>1. CASE p.parent = None
  <2>1. <<o, q>> \o <<>> = <<o, q>>
    OBVIOUS
  <2>2. QED
    BY <1>1, <2>1, TwoAdmitted DEF Child
<1>2. CASE p.parent # None
  <2> DEFINE c == [Said(p, "agent", op, p.session, "Partial") EXCEPT
                      !.session = p.parent, !.owner = p.parent]
  <2>1. Admitted(v, c)
    <3>1. v \in Vendors
      BY DEF Vendors
    <3>2. Contract(v)["agent"] = Cap("Partial", "Authoritative")
      BY <3>1, ContractsOf
    <3>3. /\ c.domain = "agent" /\ c.support = "Partial" /\ c.authority = "Authoritative"
          /\ c.value = p.session /\ c.op = op /\ ~c.leased /\ c.session = c.owner
      BY DEF Said
    <3> HIDE DEF c
    <3>4. QED
      BY <3>2, <3>3 DEF Admitted, SupportPermits, AuthorityPermits, Destructive, WellShaped, Cap
  <2>2. Child(p, op) = <<c>>
    BY <1>2 DEF Child
  <2> HIDE DEF c
  <2>3. ASSUME NEW i \in DOMAIN (<<o, q>> \o <<c>>) PROVE Admitted(v, (<<o, q>> \o <<c>>)[i])
    <3>1. i \in 1..3 /\ (<<o, q>> \o <<c>>)[i] = <<o, q, c>>[i]
      OBVIOUS
    <3>2. QED
      BY <2>1, <3>1
  <2>4. QED
    BY <2>2, <2>3 DEF AllAdmitted
<1>3. QED
  BY <1>1, <1>2

\* The events of OpenCode
LEMMA OpenCodeFits ==
    ASSUME NEW p, p.session # None, WellFormed("opencode", p)
    PROVE  AllAdmitted("opencode", OpenCodeFacts(p))
<1> DEFINE v == "opencode"
<1>1. v \in Vendors /\ v # "codex"
  BY DEF Vendors
<1>2. p.event \in {"message.updated", "session.error"} => p.turn # None
  BY DEF WellFormed, Needs, OpenCodeNeeds
<1>3. CASE p.event \in {"session.created", "session.deleted"}
  BY <1>1, <1>3, FactsFit, ChildFits DEF OpenCodeFacts
<1>4. CASE p.event = "session.updated"
  BY <1>1, <1>4, FactsFit, OneAdmitted DEF OpenCodeFacts
<1>5. CASE p.event = "session.status"
  BY <1>1, <1>5, FactsFit, OneAdmitted, OverFits DEF OpenCodeFacts
<1>6. CASE p.event \in {"message.updated", "session.error"}
  BY <1>1, <1>2, <1>6, FactsFit, TwoAdmitted DEF OpenCodeFacts
<1>7. CASE p.event \in {"permission.asked", "permission.replied"}
  BY <1>1, <1>7, FactsFit, TwoAdmitted DEF OpenCodeFacts
<1>8. CASE p.event \in {"tool.execute.before", "tool.execute.after", "message.part.updated"}
  BY <1>1, <1>8, FactsFit, TwoAdmitted DEF OpenCodeFacts
<1>9. CASE p.event \notin {"session.created", "session.deleted", "session.updated",
                           "session.status", "message.updated", "session.error",
                           "permission.asked", "permission.replied", "tool.execute.before",
                           "tool.execute.after", "message.part.updated"}
  BY <1>9, NoneAdmitted DEF OpenCodeFacts
<1>10. QED
  BY <1>3, <1>4, <1>5, <1>6, <1>7, <1>8, <1>9

\* Whatever an agent's payload says, what its adapter makes of it fits its contract.
THEOREM AdaptersFit ==
    ASSUME NEW v \in Vendors, NEW p, p.session # None PROVE AllAdmitted(v, Decoded(v, p))
<1>1. CASE ~WellFormed(v, p)
  BY <1>1, NoneAdmitted DEF Decoded
<1>2. CASE WellFormed(v, p)
  <2>1. Decoded(v, p) = Facts(v, p)
    BY <1>2 DEF Decoded
  <2>2. v = "claude" \/ v = "codex" \/ v = "traex" \/ v = "opencode"
    BY DEF Vendors
  <2>3. QED
    BY <1>2, <2>1, <2>2, ClaudeFits, CodexFits, TraexFits, OpenCodeFits DEF Facts
<1>3. QED
  BY <1>1, <1>2

\* The agent, its hooks and the viewer
HookSpec == Init /\ [][Next]_hookVars

\* Every hook names the session that it is about, and the agent keeps its parts: what the
\* adapters need to know of the hooks.
AgentParts == {"phase", "turn", "tool", "sub", "subs", "resumes", "event", "since"}
HooksAreNamed ==
    /\ vendor \in Vendors
    /\ DOMAIN agent = AgentParts /\ agent.subs \in Nat
    /\ \A h \in hooks : h.session \in Nat

\* A hook names its session.
LEMMA HookNamed ==
    ASSUME NEW session, NEW event, NEW fields PROVE Hook(session, event, fields).session = session
BY DEF Hook, Common

\* The agent goes on: its parts stay, and it numbers its subagents.
Goes(next) == DOMAIN next = AgentParts /\ next.subs \in Nat

\* A step of the agent whose hook names a session leaves them all named.
LEMMA StepNamed ==
    ASSUME HooksAreNamed, NEW next, Goes(next), NEW session \in Nat, NEW event, NEW fields,
           Step(next, Hook(session, event, fields))
    PROVE  HooksAreNamed'
<1> DEFINE h == Hook(session, event, fields)
<1>1. /\ agent' = [next EXCEPT !.event = @ + 1,
                              !.since = IF next.phase = agent.phase THEN @ ELSE now + 1]
      /\ hooks' = hooks \cup {h} /\ vendor' = vendor
  BY DEF Step
<1>2. h.session = session
  BY HookNamed
<1> HIDE DEF h
<1>3. Goes(agent')
  BY <1>1 DEF AgentParts, Goes
<1>4. QED
  BY <1>1, <1>2, <1>3 DEF HooksAreNamed, Goes

\* What each action makes of the agent has its parts.
LEMMA AgentGoes ==
    ASSUME HooksAreNamed
    PROVE  /\ Goes(agent)
           /\ \A x : Goes([agent EXCEPT !.phase = x])
           /\ \A x, y : /\ Goes([agent EXCEPT !.phase = x, !.resumes = y])
                        /\ Goes([agent EXCEPT !.phase = x, !.turn = y])
                        /\ Goes([agent EXCEPT !.phase = x, !.tool = y])
           /\ Goes([agent EXCEPT !.sub = TRUE, !.subs = @ + 1])
           /\ Goes([agent EXCEPT !.sub = FALSE])
BY DEF HooksAreNamed, Goes, AgentParts

\* Every step of the agent, of a hook and of the viewer leaves the hooks named.
LEMMA HooksStayNamed == HooksAreNamed /\ [Next]_hookVars => HooksAreNamed'
<1> SUFFICES ASSUME HooksAreNamed, [Next]_hookVars PROVE HooksAreNamed'
  OBVIOUS
<1>1. Session \in Nat /\ Subagent(agent.subs) \in Nat /\ Subagent(agent.subs + 1) \in Nat
  BY DEF Session, Subagent, HooksAreNamed
<1>2. CASE Start
  <2>1. PICK resumes, event, fields :
          Step([agent EXCEPT !.phase = "idle", !.resumes = resumes], Hook(Session, event, fields))
    BY <1>2 DEF Start, ByVendor
  <2>2. QED
    BY <1>1, <2>1, AgentGoes, StepNamed
<1>3. CASE Prompt
  <2>1. PICK turn, event, fields :
          Step([agent EXCEPT !.phase = "working", !.turn = turn], Hook(Session, event, fields))
    BY <1>3 DEF Prompt, ByVendor
  <2>2. QED
    BY <1>1, <2>1, AgentGoes, StepNamed
<1>4. CASE UseTool
  <2>1. PICK tool, event, fields :
          Step([agent EXCEPT !.phase = "using", !.tool = tool], Hook(Session, event, fields))
    BY <1>4 DEF UseTool, ByVendor
  <2>2. QED
    BY <1>1, <2>1, AgentGoes, StepNamed
<1>5. CASE Ask \/ ToolEnds \/ Stop \/ End
  <2>1. PICK phase, event, fields :
          Step([agent EXCEPT !.phase = phase], Hook(Session, event, fields))
    BY <1>5 DEF Ask, ToolEnds, Stop, End, ByVendor
  <2>2. QED
    BY <1>1, <2>1, AgentGoes, StepNamed
<1>6. CASE Answer
  <2> DEFINE next == [agent EXCEPT !.phase = "running"]
  <2>1. \/ \E event, fields : Step(next, Hook(Session, event, fields))
        \/ agent' = next /\ UNCHANGED <<vendor, hooks>>
    BY <1>6 DEF Answer
  <2>2. Goes(next)
    BY AgentGoes
  <2> HIDE DEF next
  <2>3. QED
    BY <1>1, <2>1, <2>2, StepNamed DEF HooksAreNamed, Goes
<1>7. CASE SubagentStarts
  <2>1. \E event, fields, session :
          /\ session \in {Session, Subagent(agent.subs + 1)}
          /\ Step([agent EXCEPT !.sub = TRUE, !.subs = @ + 1], Hook(session, event, fields))
    BY <1>7 DEF SubagentStarts, ByVendor
  <2>2. QED
    BY <1>1, <2>1, AgentGoes, StepNamed
<1>8. CASE SubagentStops
  <2>1. \E event, fields, session :
          /\ session \in {Session, Subagent(agent.subs)}
          /\ Step([agent EXCEPT !.sub = FALSE], Hook(session, event, fields))
    BY <1>8 DEF SubagentStops, ByVendor
  <2>2. QED
    BY <1>1, <2>1, AgentGoes, StepNamed
<1>9. CASE Busy
  <2>1. PICK event, fields : Step(agent, Hook(Session, event, fields))
    BY <1>9 DEF Busy
  <2>2. QED
    BY <1>1, <2>1, AgentGoes, StepNamed
<1>10. CASE \E h \in hooks : Deliver(h) \/ DeliverOnce(h) \/ Lose(h)
  BY <1>10 DEF Deliver, DeliverOnce, Lose, HooksAreNamed
<1>11. CASE Pause \/ Rest \/ UNCHANGED hookVars
  BY <1>11 DEF Pause, Rest, hookVars, HooksAreNamed
<1>12. QED
  BY <1>2, <1>3, <1>4, <1>5, <1>6, <1>7, <1>8, <1>9, <1>10, <1>11 DEF Next

\* What the adapters say is always within the contracts they give, whatever the agent does
\* and however its hooks are ordered, lost or repeated.
THEOREM AdaptersKeepTheirContracts ==
    ASSUME HookShape PROVE HookSpec => []FactsAreAdmitted
<1>1. Init => HooksAreNamed
  BY DEF Init, HooksAreNamed, AgentParts
<1>2. HooksAreNamed => FactsAreAdmitted
  <2>1. SUFFICES ASSUME HooksAreNamed, NEW h \in hooks
                 PROVE  AllAdmitted(vendor, Decoded(vendor, h))
    BY DEF FactsAreAdmitted, AllAdmitted
  <2>2. vendor \in Vendors /\ h.session # None
    BY HookShape, <2>1 DEF HooksAreNamed, HookShape
  <2>3. QED
    BY <2>2, AdaptersFit
<1>3. QED
  BY <1>1, <1>2, HooksStayNamed, PTL DEF HookSpec
================================================================================
