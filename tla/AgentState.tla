------------------------------- MODULE AgentState -------------------------------
(* The reducer of agent observations (src/agent/state.rs): what the UI knows of   *)
(* the sessions of code agents, from the events of hooks, the events and         *)
(* snapshots of providers, expired leases and reloaded metadata.                 *)
(*                                                                               *)
(* A source is an observer and its instance.  One evidence domain, the activity, *)
(* stands for all of them, one observation for the up to eight of an event, and  *)
(* the counters that are only displayed are left out.  The actions take what the *)
(* UI thread takes from the completion queue of AgentRuntime.                    *)
EXTENDS AgentView

CONSTANTS
    Sessions,  \* keys of the sessions of the selected workspace
    Sources,   \* observer instances
    Values     \* reported activities

VARIABLE pending  \* the snapshot that each source is in the middle of, or None

stateVars == <<sessions, streams, pending>>

Authorities == {"Authoritative", "Observational"}

\* An observation with the value None clears the activity.
Observation == [session : Sessions, value : Values \cup {None},
                authority : Authorities, at : Nat, until : Nat \cup {None}]
Evidence    == [value : Values, authority : Authorities, at : Nat, until : Nat \cup {None}]
Record      == [mode : {"MetadataOnly", "LiveObserved"},
                evidence : [Sources -> Evidence \cup {None}], live : SUBSET Sources,
                expired : BOOLEAN, metadata : BOOLEAN, dropped : BOOLEAN]
EventId     == [kind : {"Upsert", "Gap", "Reset"}, seq : Nat]
Stream      == [epoch : Nat, last : Nat \cup {None}, seen : SUBSET EventId,
                reconciling : BOOLEAN, complete : BOOLEAN]
Pending     == [next : Nat, watermark : Nat, complete : BOOLEAN, covers : BOOLEAN,
                items : SUBSET Observation]
Event       == [source : Sources, epoch : Nat, id : EventId, seq : Nat \cup {None},
                op : {"Upsert", "Gap", "Reset"}, item : Observation \cup {None}]
Chunk       == [source : Sources, epoch : Nat, index : Nat, final : BOOLEAN, watermark : Nat,
                complete : BOOLEAN, covers : BOOLEAN, items : SUBSET Observation]
ExpiryKey   == [session : Sessions, source : Sources]

\* What the constants have to be; a module that instantiates this one assumes it.
NoneIsNothing == None \notin Nat \cup Values \cup Evidence \cup Record \cup Stream

----------------------------------------------------------------------------------
(* Evidence about one session *)

NewRecord ==
    [mode |-> "LiveObserved", evidence |-> [x \in Sources |-> None],
     live |-> {}, expired |-> FALSE, metadata |-> FALSE, dropped |-> FALSE]

MetadataRecord ==
    [NewRecord EXCEPT !.mode = "MetadataOnly", !.metadata = TRUE]

\* Mutant: the order of arrival decides.
LastToArrive(old, o) == TRUE

\* insert_candidate: an older observation does not replace a newer one.
NotOlder(old, o) == old = None \/ old.at <= o.at

\* The evidence of a source after its observation o.
Updated(old, o) ==
    IF o.value = None THEN None
    ELSE IF NotOlder(old, o)
         THEN [value |-> o.value, authority |-> o.authority, at |-> o.at, until |-> o.until]
         ELSE old

\* apply_observations for one observation of a record that may not exist yet.
Observed(old, x, o) ==
    LET r == IF old = None THEN NewRecord ELSE old
    IN  [r EXCEPT !.mode = "LiveObserved", !.live = @ \cup {x}, !.expired = FALSE,
                  !.evidence[x] = Updated(@, o)]

----------------------------------------------------------------------------------
(* Events *)

FreshStream(epoch) ==
    [epoch |-> epoch, last |-> None, seen |-> {}, reconciling |-> FALSE, complete |-> FALSE]

StreamOf(x, epoch) == IF streams[x] = None THEN FreshStream(epoch) ELSE streams[x]

\* Mutant: only what goes backwards is noticed.
NeverSkips(st, e) == FALSE

WrongEpoch(st, e) == st.epoch # e.epoch
Duplicate(st, e)  == e.id \in st.seen
Stale(st, e)      == e.op = "Upsert" /\ st.last # None /\ (e.seq = None \/ e.seq <= st.last)
SkipsAhead(st, e) == st.last # None /\ e.seq # st.last + 1

Accepted(e) ==
    LET st == StreamOf(e.source, e.epoch)
    IN  ~WrongEpoch(st, e) /\ ~Duplicate(st, e) /\ ~Stale(st, e)

\* A refused event changes nothing, but one of another epoch starts the stream
\* anew in that epoch.
RefuseEvent(e) ==
    LET st == StreamOf(e.source, e.epoch) IN
    /\ ~Accepted(e)
    /\ streams' = [streams EXCEPT ![e.source] =
                     IF WrongEpoch(st, e)
                     THEN [st EXCEPT !.epoch = e.epoch, !.last = None, !.seen = {},
                                     !.reconciling = TRUE]
                     ELSE st]
    /\ UNCHANGED <<sessions, pending>>

\* Gap and Reset say that events were lost; they are not sequenced.
ApplyControl(e) ==
    LET st == StreamOf(e.source, e.epoch) IN
    /\ Accepted(e) /\ e.op \in {"Gap", "Reset"}
    /\ streams' = [streams EXCEPT ![e.source] =
                     [st EXCEPT !.seen = @ \cup {e.id}, !.reconciling = TRUE]]
    /\ UNCHANGED <<sessions, pending>>

\* A sequence number that skips ahead reports a gap, the event still applies.
ApplyUpsert(e) ==
    LET st == StreamOf(e.source, e.epoch) IN
    /\ Accepted(e) /\ e.op = "Upsert"
    /\ streams' = [streams EXCEPT ![e.source] =
                     [st EXCEPT !.seen = @ \cup {e.id},
                                !.last = IF e.seq = None THEN @ ELSE e.seq,
                                !.reconciling = @ \/ SkipsAhead(st, e)]]
    /\ sessions' = [sessions EXCEPT ![e.item.session] = Observed(@, e.source, e.item)]
    /\ UNCHANGED pending

ApplyEvent(e) == RefuseEvent(e) \/ ApplyControl(e) \/ ApplyUpsert(e)

----------------------------------------------------------------------------------
(* Snapshots *)

\* A snapshot of another epoch starts the stream anew; unlike an event it keeps
\* the event ids that were seen.
SnapshotStream(c) ==
    LET st == StreamOf(c.source, c.epoch)
    IN  IF st.epoch = c.epoch THEN st
        ELSE [st EXCEPT !.epoch = c.epoch, !.last = None, !.reconciling = TRUE]

\* The snapshot that the chunk continues, or begins.
PendingBefore(c) ==
    IF pending[c.source] = None \/ StreamOf(c.source, c.epoch).epoch # c.epoch
    THEN [next |-> 0, watermark |-> c.watermark, complete |-> c.complete,
          covers |-> c.covers, items |-> {}]
    ELSE pending[c.source]

\* Snapshots of one stream are told apart by their watermark; their id and their
\* time, which the code compares too, say no more, as a snapshot whose chunk did
\* not fit is not continued.
ShapeMatches(p, c) ==
    /\ p.next = c.index /\ p.watermark = c.watermark
    /\ p.complete = c.complete /\ p.covers = c.covers

\* A chunk that does not follow the ones before drops them: that is a gap.
DropSnapshot(c) ==
    /\ ~ShapeMatches(PendingBefore(c), c)
    /\ pending' = [pending EXCEPT ![c.source] = None]
    /\ streams' = [streams EXCEPT ![c.source] = [SnapshotStream(c) EXCEPT !.reconciling = TRUE]]
    /\ UNCHANGED sessions

CollectChunk(c) ==
    LET p == PendingBefore(c) IN
    /\ ShapeMatches(p, c) /\ ~c.final
    /\ pending' = [pending EXCEPT ![c.source] =
                     [p EXCEPT !.next = @ + 1, !.items = @ \cup c.items]]
    /\ streams' = [streams EXCEPT ![c.source] = SnapshotStream(c)]
    /\ UNCHANGED sessions

About(items, s) == {o \in items : o.session = s}

\* Mutant: only what is reported changes.
KeptEvidence(r, x) == r

\* apply_complete_snapshot_tombstones: a source that no longer reports a session
\* gives up its evidence, within the scope of the snapshot.
Tombstoned(r, x) == IF r = None THEN r ELSE [r EXCEPT !.evidence[x] = None]

\* The last chunk applies the whole snapshot.
ApplySnapshot(c) ==
    LET p     == PendingBefore(c)
        x     == c.source
        items == p.items \cup c.items IN
    /\ ShapeMatches(p, c) /\ c.final
    /\ sessions' = [s \in Sessions |->
          IF About(items, s) # {}
          THEN Observed(sessions[s], x, CHOOSE o \in About(items, s) : TRUE)
          ELSE IF c.complete /\ c.covers THEN Tombstoned(sessions[s], x) ELSE sessions[s]]
    /\ streams' = [streams EXCEPT ![x] =
          [SnapshotStream(c) EXCEPT !.last = c.watermark, !.complete = c.complete,
                                    !.reconciling = ~c.complete]]
    /\ pending' = [pending EXCEPT ![x] = None]

ApplyChunk(c) == DropSnapshot(c) \/ CollectChunk(c) \/ ApplySnapshot(c)

----------------------------------------------------------------------------------
(* Other completions *)

\* Loaded metadata replaces the record of each of its sessions.
BootstrapMetadata(loaded) ==
    /\ sessions' = [s \in Sessions |-> IF s \in loaded THEN MetadataRecord ELSE sessions[s]]
    /\ UNCHANGED <<streams, pending>>

Expires(s, keys) == {k.source : k \in {k \in keys : k.session = s}}

\* expire_evidence: the evidence that the keys name is removed, whatever its lease.
ExpireEvidence(keys) ==
    /\ sessions' = [s \in Sessions |->
          IF sessions[s] = None THEN None
          ELSE LET gone == {x \in Expires(s, keys) : sessions[s].evidence[x] # None}
               IN  [sessions[s] EXCEPT
                      !.evidence = [x \in Sources |-> IF x \in gone THEN None ELSE @[x]],
                      !.expired = @ \/ gone # {}]]
    /\ UNCHANGED <<streams, pending>>

\* What a contract with a highest authority for the activity, or None, permits.
Permits(most, authority) ==
    most = "Authoritative" \/ (most = "Observational" /\ authority = "Observational")

\* Mutant: only a lower authority is considered, not that there is none any more.
Lowered(e, most) == e # None /\ most = "Observational" /\ e.authority = "Authoritative"

Unpermitted(e, most) == e # None /\ ~Permits(most, e.authority)

\* apply_contract_update: evidence that the new contract does not permit goes.
ApplyContractUpdate(x, most) ==
    /\ pending' = [pending EXCEPT ![x] = None]
    /\ streams' = [streams EXCEPT ![x] =
          IF @ = None THEN None ELSE [@ EXCEPT !.reconciling = TRUE, !.complete = FALSE]]
    /\ sessions' = [s \in Sessions |->
          IF sessions[s] # None /\ Unpermitted(sessions[s].evidence[x], most)
          THEN [sessions[s] EXCEPT !.evidence[x] = None]
          ELSE sessions[s]]

\* record_live_drop: events that could not be attributed count for every session.
RecordLiveDrop(dropped, unattributed) ==
    /\ sessions' = [s \in Sessions |->
          IF sessions[s] # None /\ (unattributed \/ s \in dropped)
          THEN [sessions[s] EXCEPT !.dropped = TRUE]
          ELSE sessions[s]]
    /\ UNCHANGED <<streams, pending>>

StateInit ==
    /\ sessions = [s \in Sessions |-> None]
    /\ streams = [x \in Sources |-> None]
    /\ pending = [x \in Sources |-> None]

StateTypeOK ==
    /\ sessions \in [Sessions -> Record \cup {None}]
    /\ streams \in [Sources -> Stream \cup {None}]
    /\ pending \in [Sources -> Pending \cup {None}]
==================================================================================
