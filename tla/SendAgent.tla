------------------------------ MODULE SendAgent ------------------------------
(* Sending the selected text to an agent: the picker (Closed, Discovering,     *)
(* Picking, Sending), the two one-place queues of the background worker, and   *)
(* the terminal manager that lists the panes and takes the draft.              *)
(*                                                                             *)
(* The picker works on a snapshot of the selection; the tab below it may lose  *)
(* its selection, and another process may bring another tab to the front.  A   *)
(* backend call that is killed at its deadline may have delivered the draft.   *)
EXTENDS SendOutcome, Naturals

CONSTANTS
    Panes,      \* the panes in which an agent may run
    Tabs,       \* the tabs of the viewer
    Texts,      \* the texts that may be selected
    None,       \* no selection, no target, no status
    MaxOpenings \* bound: how often the picker is opened

States == {"idle", "blocked", "gone"}

VARIABLES
    active,     \* the tab in front
    selection,  \* the text selected in each tab
    requests,   \* send_to_agent_requests: the last generation given out
    panes,      \* the state of each pane, outside the viewer
    status      \* the last message: whose send it reports, and how it ended
vars == <<active, selection, picker, requests, pending, working, completed,
          panes, drafts, status>>

Queues == {"discover", "send"}

Closed == [phase |-> "Closed", generation |-> 0, opening |-> 0, text |-> None,
           targets |-> {}, listed |-> 0, selected |-> None]

Pickers == [phase : {"Closed", "Discovering", "Picking", "Sending"}, generation : Nat,
            opening : Nat, text : Texts \cup {None}, targets : SUBSET Panes,
            listed : Nat, selected : Panes \cup {None}]

TypeOK ==
    /\ active \in Tabs /\ selection \in [Tabs -> Texts \cup {None}]
    /\ picker \in Pickers /\ requests \in Nat
    /\ DOMAIN pending = Queues /\ DOMAIN completed = Queues
    /\ panes \in [Panes -> States]

Init ==
    /\ active \in Tabs /\ selection = [t \in Tabs |-> None]
    /\ picker = Closed /\ requests = 0
    /\ pending = [s \in Queues |-> {}] /\ working = {}
    /\ completed = [s \in Queues |-> {}]
    /\ panes \in [Panes -> {"idle", "blocked"}]
    /\ drafts = {} /\ status = None

------------------------------------------------------------------------------
\* The interface

\* The user selects in the tab in front, or its content is replaced.
Select(x) ==
    /\ picker.phase = "Closed" /\ selection[active] # x
    /\ selection' = [selection EXCEPT ![active] = x]
    /\ UNCHANGED <<active, picker, requests, pending, working, completed, panes,
                   drafts, status>>

\* A completion replaces the content of a tab, and with it the selection.
ContentReplaced(t) ==
    /\ selection[t] # None
    /\ selection' = [selection EXCEPT ![t] = None]
    /\ UNCHANGED <<active, picker, requests, pending, working, completed, panes,
                   drafts, status>>

\* Another tab comes to the front: by a key while the picker is closed, by a
\* request of another process at any time.
SwitchTab(t) ==
    /\ t # active /\ active' = t
    /\ UNCHANGED <<selection, picker, requests, pending, working, completed,
                   panes, drafts, status>>

\* open_send_to_agent_picker, by its key or by releasing an armed drag
Open ==
    /\ picker.phase = "Closed" /\ selection[active] # None
    /\ picker' = [Closed EXCEPT !.phase = "Discovering", !.generation = requests + 1,
                                !.opening = requests + 1,
                                !.text = selection[active]]
    /\ requests' = requests + 1
    /\ pending' = [pending EXCEPT !["discover"] = {[generation |-> requests + 1]}]
    /\ UNCHANGED <<active, selection, working, completed, panes, drafts, status>>

\* move_selection, select_index: to a row that can be selected.
Choose(p) ==
    /\ picker.phase = "Picking" /\ p \in picker.targets /\ p # picker.selected
    /\ picker' = [picker EXCEPT !.selected = p]
    /\ UNCHANGED <<active, selection, requests, pending, working, completed,
                   panes, drafts, status>>

\* begin_sending, and the request it makes
Sends ==
    /\ picker' = [picker EXCEPT !.phase = "Sending", !.generation = requests + 1]
    /\ requests' = requests + 1
    /\ pending' = [pending EXCEPT !["send"] =
           {[generation |-> requests + 1, opening |-> picker.opening,
             pane |-> picker.selected, text |-> picker.text]}]
    /\ UNCHANGED <<active, selection, working, completed, panes, drafts, status>>

\* Mutant: a second confirmation is not ignored while the first is delivered.
ConfirmAgain ==
    picker.phase \in {"Picking", "Sending"} /\ picker.selected # None /\ Sends

\* accept_send_to_agent_selection
Confirm == picker.phase = "Picking" /\ picker.selected # None /\ Sends

\* close_send_to_agent_picker
Cancel ==
    /\ picker.phase # "Closed"
    /\ picker' = Closed /\ requests' = requests + 1
    /\ UNCHANGED <<active, selection, pending, working, completed, panes,
                   drafts, status>>

\* apply_agent_discovery_completion: without a target that can be selected, or
\* after a failure, the picker closes; a generation that the picker no longer
\* waits for is ignored.
Discovered(p, c) ==
    IF p.phase # "Discovering" \/ c.generation # p.generation THEN p
    ELSE IF c.targets = {} THEN Closed
    ELSE [p EXCEPT !.phase = "Picking", !.targets = c.targets,
                   !.listed = c.generation, !.selected = CHOOSE x \in c.targets : TRUE]

TakeDiscovery(p) ==
    IF completed["discover"] = {} THEN p
    ELSE Discovered(p, CHOOSE c \in completed["discover"] : TRUE)

\* apply_agent_send_completion: success clears the selection of the tab that is
\* in front now, failure keeps it.
Ended(p) == {c \in completed["send"] : c.generation = p.generation}
TakeSend(p) ==
    IF Ended(p) = {} THEN picker' = p /\ UNCHANGED <<status, selection>>
    ELSE \E c \in Ended(p) :
        /\ picker' = Closed
        /\ status' = [generation |-> c.generation, sent |-> c.ok]
        /\ selection' = IF c.ok THEN [selection EXCEPT ![active] = None] ELSE selection

\* poll_background: both completions are taken, the discovery first.
TakeCompletions ==
    /\ \E s \in Queues : completed[s] # {}
    /\ TakeSend(TakeDiscovery(picker))
    /\ completed' = [s \in Queues |-> {}]
    /\ UNCHANGED <<active, requests, pending, working, panes, drafts>>

------------------------------------------------------------------------------
\* The worker and the backend

\* take_next_work: a discovery before a send.
TakeNext(s) ==
    /\ working = {} /\ pending[s] # {}
    /\ s = "send" => pending["discover"] = {}
    /\ working' = {[slot |-> s, request |-> r] : r \in pending[s]}
    /\ pending' = [pending EXCEPT ![s] = {}]
    /\ UNCHANGED <<active, selection, picker, requests, completed, panes, drafts,
                   status>>

\* What the worker has served is the completion of its slot, over one that the
\* interface has not taken.
Completes(s, c) ==
    /\ completed' = [completed EXCEPT ![s] = {c}] /\ working' = {}
    /\ UNCHANGED <<active, selection, picker, requests, pending, status>>

Serves(s) == {w.request : w \in {v \in working : v.slot = s}}

\* HerdrProvider::discover: the panes that can be selected, or none when the
\* call fails.
ListPanes ==
    \E r \in Serves("discover"), targets \in {{}, {p \in Panes : panes[p] = "idle"}} :
        /\ Completes("discover", [generation |-> r.generation, targets |-> targets])
        /\ UNCHANGED <<panes, drafts>>

\* HerdrProvider::send_draft, focus_pane: the draft is in the composer.  The
\* call answers, or it is killed at its deadline and reported as failed.
Deliver ==
    \E r \in Serves("send"), ok \in BOOLEAN :
        /\ panes[r.pane] # "gone"
        /\ drafts' = drafts \cup {r}
        /\ Completes("send", [generation |-> r.generation, ok |-> ok])
        /\ UNCHANGED panes

\* The pane is gone, the command cannot be run, or it is killed before it has
\* done anything.
Refuse ==
    \E r \in Serves("send") :
        /\ Completes("send", [generation |-> r.generation, ok |-> FALSE])
        /\ UNCHANGED <<panes, drafts>>

\* An agent starts, waits for an answer, or ends.
PaneChanges(p, s) ==
    /\ panes[p] # s /\ panes[p] # "gone"
    /\ panes' = [panes EXCEPT ![p] = s]
    /\ UNCHANGED <<active, selection, picker, requests, pending, working,
                   completed, drafts, status>>

Bound == requests < 3 * MaxOpenings

Next ==
    \/ \E x \in Texts : Select(x)
    \/ \E t \in Tabs : ContentReplaced(t) \/ SwitchTab(t)
    \/ Bound /\ Open
    \/ \E p \in Panes : Choose(p)
    \/ Confirm \/ Cancel \/ TakeCompletions
    \/ \E s \in Queues : TakeNext(s)
    \/ ListPanes \/ Deliver \/ Refuse
    \/ \E p \in Panes, s \in States : PaneChanges(p, s)

Spec == Init /\ [][Next]_vars

------------------------------------------------------------------------------
\* What the docs say and the code does not keep: see the README

\* A draft that was cancelled is not sent (docs/design/send-to-agent.md, 5.5: "Esc
\* cancels, keeps the selection and does not send"): Esc while it is being sent
\* closes the picker and leaves the request in its queue.
CancelSendsNothing ==
    [][\A d \in drafts' \ drafts : picker.opening = d.opening]_vars

\* Success clears the selection that was sent, and no other.
SelectionClearedIsTheSent ==
    [][\A t \in Tabs : selection[t] # None /\ selection'[t] = None /\ status' # status
           => selection[t] = picker.text]_vars
==============================================================================
