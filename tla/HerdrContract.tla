----------------------------- MODULE HerdrContract -----------------------------
(* What the provider of Herdr shows the agent runtime, and what the runtime has   *)
(* taken of it (agent/herdr_provider.rs, agent/runtime.rs).  Nothing yet is the   *)
(* empty set.                                                                     *)
EXTENDS Naturals

VARIABLES
    state,      \* ProviderState
    registry,   \* the contract the runtime has registered: revision and version
    delivered   \* the last snapshot: the revision it went under, and that of its list

\* probe: the contract bears the revision and the version of now.
ProbeFails == state.health = "Unavailable" \/ ~state.shape \/ state.cache = {}

\* discover, probe, and upsert, which refuses an older revision, and another
\* contract for the same one.
Contract == [revision |-> state.epoch, version |-> state.version]
Accepts  == \A known \in registry : state.epoch > known.revision \/ Contract = known

--------------------------------------------------------------------------------
\* Whenever a contract is offered, the registry of the runtime takes it: a
\* revision never shows a version other than the one it was registered with, which
\* would keep the instance out for ever with StaleContractRevision.
ContractsAreAccepted == ~ProbeFails => Accepts

\* The list that is delivered was taken under the revision whose contract it was
\* delivered with, although the thread may find out a restart between the probe
\* and the snapshot.
SnapshotFitsContract == \A d \in delivered : d.of = d.revision

\* The registry takes every contract that is offered, and the list that is delivered
\* was taken under the revision of its contract.
ListsFitContracts == ContractsAreAccepted /\ SnapshotFitsContract
================================================================================
