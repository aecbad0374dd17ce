------------------------------ MODULE SendOutcome ------------------------------
(* What the picker of agents and the background worker hold while the selected    *)
(* text is sent (send_agent.rs, runtime.rs), and what is promised about it.  A    *)
(* slot, and the worker, hold at most one request: none is the empty set.         *)

VARIABLES
    picker,     \* SendToAgentState
    pending,    \* the pending request of each slot, agent_discover, agent_send
    working,    \* what the worker is doing, and for which slot
    completed,  \* the completion of each slot that waits for the interface
    drafts      \* the drafts that reached a composer

\* However often the picker is opened, cancelled and confirmed, one opening puts
\* at most one draft into one composer: repeated confirmations are ignored, and
\* neither a replaced request nor a late completion sends again.
\* (accept_send_to_agent_selection; docs/design/send-to-agent.md, 5.)
OneDraftPerOpening ==
    \A d, e \in drafts : d.opening = e.opening => d = e

\* The rows of the picker come from the discovery of this very opening, so that
\* a draft is never confirmed against the list of a picker that was closed, and
\* the row that is confirmed is among them. (apply_discovery, select_index)
ListIsItsOwn ==
    picker.phase \in {"Picking", "Sending"} =>
        picker.listed = picker.opening /\ picker.selected \in picker.targets

\* A picker that waits is waiting for a request that is queued, being served, or
\* completed and not yet taken: it is not left open on an answer that a newer
\* request replaced or that carries another generation.
Coming(s, g) ==
    \/ \E r \in pending[s] : r.generation = g
    \/ \E w \in working : w.slot = s /\ w.request.generation = g
    \/ \E c \in completed[s] : c.generation = g
PickerIsAwaited ==
    /\ picker.phase = "Discovering" => Coming("discover", picker.generation)
    /\ picker.phase = "Sending" => Coming("send", picker.generation)

\* An opening of the picker sends one draft at most, to an agent of its own list, and
\* a picker that waits has a request or an answer on the way.
SendingIsSound == OneDraftPerOpening /\ ListIsItsOwn /\ PickerIsAwaited
==============================================================================
