---------------------------- MODULE MetadataIndex ----------------------------
(***************************************************************************)
(* What the store of session metadata promises its users: one record per   *)
(* session, that takes in each delta that is merged as if nobody else      *)
(* wrote, that is never more than the install may hold, and that is only   *)
(* forgotten once it has outlived its retention.                           *)
(***************************************************************************)
EXTENDS MetadataRecord

CONSTANTS Workspaces, Keys, Deltas, MaxSessions, MaxPerWorkspace,
          EndedRetention, OpenRetention

VARIABLES records, now

\* A session is known by its workspace and its key.
Sessions == Workspaces \X Keys

Recorded(S) == {s \in Sessions : S[s] # None}

Expired(r, t) ==
    t - r.last > IF r.terminal # 0 THEN EndedRetention ELSE OpenRetention

Init ==
    /\ records = [s \in Sessions |-> None]
    /\ now = 0

HasRoom(s) ==
    /\ Cardinality(Recorded(records)) < MaxSessions
    /\ Cardinality({t \in Recorded(records) : t[1] = s[1]}) < MaxPerWorkspace

Merge(d) ==
    /\ records[d.session] # None \/ HasRoom(d.session)
    /\ records' = [records EXCEPT ![d.session] = MergeRecord(@, d)]
    /\ UNCHANGED now

\* Any number of expired records of a workspace at once.
Forget ==
    \E gone \in SUBSET {s \in Recorded(records) : Expired(records[s], now)} :
        /\ records' = [s \in Sessions |-> IF s \in gone THEN None ELSE records[s]]
        /\ UNCHANGED now

Tick == now' = now + 1 /\ UNCHANGED records

Next == (\E d \in Deltas : Merge(d)) \/ Forget \/ Tick

Spec == Init /\ [][Next]_<<records, now>>
=============================================================================
