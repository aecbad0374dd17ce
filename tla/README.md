# Latte Lens, modelled, checked and proved

TLA+ models of [Latte Lens](../src/README.md), a terminal viewer for repositories that also
shows what code agents are doing in them, with TLC configurations that check them and TLAPS
proofs about them. Every definition is written from the code under `src/`; comments name the
function a definition stands for, and `PROJECT.json` maps each to its lines.

Contents: [the system](#the-system), [the modules](#the-modules),
[what each module models](#what-each-module-models), [the runs](#the-runs),
[divergences](#divergences), [the proofs](#the-proofs),
[what is not modelled](#what-is-not-modelled).

## The system

The program is one Rust binary. Its state lives on one UI thread; everything slow runs on other
threads (a content worker, an agent runtime, a language server manager, a search thread) or in
other processes (the hooks of code agents, language servers, a Herdr server, other instances of
the program). What is hard about it happens between them: answers that arrive late, queues that
coalesce or overflow, files that change underneath, leases that run out, processes that die
between two writes.

| Component | State | Operations | What makes it correct |
|---|---|---|---|
| background worker (`runtime.rs`) | request slots, coalescing queues, completions, registry, shutdown flag, under one mutex; one condition variable | request, cancel, take, wait, drop; wait, install, take next, execute, publish | no lost wake-up, request or result; each tab keeps its order; drop and wait return |
| content tabs (`app.rs`, `preview.rs`) | tabs with content, selection, request generations, staged navigation; picker | keys, polls, requests of other instances | what was asked for last is shown; edit buffers are spared; "Loading" ends unless a refresh fails |
| edit session (`edit.rs`, `app.rs`) | buffer, caret, selection, undo and redo of line deltas, dirty and saved flags, baseline | twelve keys, paste, undo, redo, save, leave | undo leads back through the texts there were; neither leaving nor saving loses any |
| agent state (`agent/state.rs`, `contract.rs`) | sessions with evidence by source, streams with epoch and sequence, pending snapshots | event, snapshot chunk, expiry, contract, drop, metadata | what is shown as complete is complete; late or repeated events do no harm |
| agent runtime (`agent/runtime.rs`, `provider.rs`) | bounded channels, a drop notice, active providers, timers | requests, polling, refresh, reconciliation, reload, expiry | the UI agrees with the providers again after any loss; leases end |
| agent metadata store (`agent/metadata.rs`) | a file for each session and workspace, lock files | merge, prune | merges commute with crashes and each other; nothing but what expired is forgotten |
| live events (`agent/live.rs`, `dispatcher.rs`, `transport.rs`) | manifests with leases, sockets, backlogs | publish, acknowledge, receive, fall back | all viewers that are found get an event, or the store does |
| hook adapters (`agent/claude.rs`, `codex.rs`, `opencode.rs`, `traex.rs`) | none | a hook's payload to observations | contracts are kept, events are told apart |
| hook setup (`agent/hook_setup.rs`) | configurations of the agents, backups with a journal | setup, restore | transactions are whole; no edit of the user that was seen is lost |
| Herdr provider (`agent/herdr*.rs`) | a cached list, inferred epochs | poll, probe, snapshot | lists fit the revision of the contract they are shown under |
| language server client (`lsp*.rs`) | sessions, pending and retired ids, open texts, a revalidation lane | request, cancel, answer, fail, restart, clean up | an answer belongs to its request and text; one process held for a key; cleanups that claim success left nothing |
| text search (`search.rs`, `app.rs`) | popup with two saved sessions, the search thread's inventory | query, batches, preview, close, refresh | what is shown answers the query; closing gives the tab back |
| send to agent (`send_agent.rs`, `app.rs`) | picker, two one-place queues | discover, choose, confirm, cancel, deliver | one draft at most for an opening, to a target of its own list; the size limit |
| instance control (`ipc.rs`, `app.rs`) | sockets, slots, inboxes | probe, choose, send, answer, give up | success means done once; slots are returned; commands end |
| repository tree (`tree.rs`, `app.rs`) | a bounded scan, lazily loaded directories, a view of each tab | refresh, load, expand, reveal | entries hang together, loads are awaited, the selection stays |
| source folding (`folding.rs`) | none | fold regions, symbols, tokens of a parse | regions and symbols nest as the text does, within the limits |
| opening files (`system_preview.rs`, `content_safety.rs`, `runtime.rs`, `app.rs`) | an order's generation, an offer with its deadline, the last opening; one slot, one answer | order, confirm, cancel, look, look again, launch | what is opened is what the user was asked about, once; nothing that runs is opened |
| review scope (`repo_graph.rs`, `git.rs`, `app.rs`) | repositories found, rows, what is expanded, selected, ignored, reviewed | discover, relate, project, select, toggle, ignore, mark | each change is shown once, under its repository; selection and marks survive refreshes |
| terminal interface (`app.rs`, `ui.rs`) | what is open, the focus, a question to quit, a first Esc over unsaved changes | keys, clicks, the wheel, pastes, arrivals | what is on top hears the keys; unsaved changes go, and the program ends, only after a warning |
| code navigation (`navigation.rs`), parsing (`agent/hook_json.rs` …), rendering (`preview/`), configuration and entry point | caches, or none | functions | not modelled, see [below](#what-is-not-modelled) |

How they interact. The UI thread calls the worker and polls its finished work once for each
frame; the worker never touches the UI's state. The agent runtime shares with the UI two bounded
channels that never block and a notice of what did not fit. Hooks are short processes that
publish to the sockets of the live viewers or fall back to the metadata store, which every
viewer loads again every two seconds. Other instances connect to a control socket, whose
requests wait in an inbox for the event loop. The language server manager owns its server
processes; the UI hears of them through a bounded queue of completions.

Where the difficulty lies is listed by line in `PROJECT.json` under `hazards`, each with the
properties that would notice it going wrong, or the reason why none does.

## The modules

| Module | Models | Uses |
|---|---|---|
| `RequestQueues` | coalescing queues and request generations, as operators | |
| `WorkerRuntime` | the background worker and its most general client | `RequestQueues` |
| `ContentTabs` | the client the program has: tabs, navigation, edit guard, refresh | `RequestQueues` |
| `EditSession` | editing one file while other processes write it | |
| `AppShell` | which layer of the terminal interface hears a key, a click, an arrival, and what follows | |
| `SendPayload` | how a selection becomes a message of bounded size | |
| `SourceOutline` | fold regions, symbols and tokens of a parse | |
| `AgentView` | what the UI shows of sessions and promises about it | |
| `AgentState` | the reducer: streams, epochs, sequences, snapshots | `AgentView` |
| `AgentRuntime` | providers, hooks, the runtime's thread, the channels and the UI thread | `AgentState` |
| `SessionRecord`, `SessionEvidence` | one session's record, filled by several observers | |
| `HookSessions` | the vendors' hook events, and a session whose hooks are late, lost or repeated | `SessionRecord` |
| `MetadataIndex` | the abstract store: an atomic index of records | |
| `MetadataRecord` | how a record takes in a delta | |
| `MetadataStore` | the store with its locks, files and crashes | `MetadataRecord`, implements `MetadataIndex` |
| `EventDelivery` | what a hook's answer promises about its event | |
| `LiveBridge` | manifests, sockets, backlogs, acknowledgements | `EventDelivery` |
| `LspClient` | the language server manager | |
| `CleanupReport` | what the cleanup of servers reports and promises | |
| `ServerCleanup` | the phases that end a batch of servers, on Unix and Windows | `CleanupReport` |
| `FilesTree` | the lazily loaded tree and the views of the tabs | `RequestQueues` |
| `RepositoryGraph` | the repositories of a workspace, the rows made of them and the review scope | |
| `SearchPopup` | the popup and the search thread | |
| `SendOutcome` | what the picker and the worker hold while a draft is sent, and the promises about it | |
| `SendAgent` | the picker, its queues, the backend | `SendOutcome` |
| `ControlOutcome` | what a command and a viewer hold of an exchange, and the promises about it | |
| `InstanceControl` | commands and the control sockets of viewers | `ControlOutcome` |
| `HerdrContract` | what the Herdr provider offers, what the runtime has taken of it, and the promise | |
| `HerdrSnapshots` | the poller, probes and snapshots of the Herdr provider | `HerdrContract` |
| `ExternalOpen` | orders to open a file with another program, the looks of the worker, and who else changes the file | `RequestQueues` |
| `SetupOutcome` | what setup and restore promise about the configurations | |
| `HookSetup` | setup and restore as journalled transactions | `SetupOutcome` |
| `WorkerRuntimeProofs`, `EditSessionProofs`, `AgentRuntimeProofs`, `MetadataStoreProofs`, `LspClientProofs`, `HandoffProofs`, `InstanceControlProofs` | theorems | the module they are named after; `EditSessionProofs` also those of `AppShell`; `HandoffProofs` those of `HookSetup`, `SendAgent` and `ExternalOpen`; `MetadataStoreProofs` also those of `LiveBridge`, `LspClientProofs` those of `ServerCleanup`, `InstanceControlProofs` those of `HerdrSnapshots` |
| `MC…` | instances for TLC, see [the runs](#the-runs) | |

`AgentView`, `EventDelivery`, `CleanupReport`, `SetupOutcome`, `SendOutcome`, `ControlOutcome` and
`HerdrContract` hold the variables an outsider sees and the promises about them, so that the run
and the theorem are about the same formula.

An operator whose comment begins with "Mutant" is a defect the code does not have. It stands next
to the definition it can replace, and the property it is paired with in `PROJECT.json` fails
when it does.

## What each module models

In general: an action is a whole handler, or the whole of a critical section; what runs outside
of a lock, or waits for another thread or process, is cut where others can come between. Data
is reduced to what the properties tell apart: a text is its number, a payload its length, a file
its contents' kind. Every bound is a constant named in a guard. History variables, which no
action reads, are said to be so where they are declared.

**`WorkerRuntime`.** A critical section of `SharedState` is one action. The work runs outside of
the lock: `WorkerStarts` and `WorkerFinishes` have any number of client calls between them.
`waiters` is the set of threads blocked on the condition variable; `notify_one` removes any one
of them, so that a notification that reaches the wrong thread is explored. Requests carry the
number of their call. Results are reduced to whether the work succeeded. The client is the most
general one: it makes any call at any time.

**`ContentTabs`.** The UI thread's state is one record, and every method of `App` that matters is
an operator from one such record to the next, composed as the code composes them. A key, a
request of another process and a poll of the finished work are one action each. What a tab shows
is an information text, "Loading f", document f, an error about f, or an edit buffer; `wanted`
remembers what the tab asked for last, and `refreshError` that the last refresh failed. A language server's answer is a choice at a poll.

**`EditSession`.** Lines are sequences of characters of one byte; a caret is a line and a byte. A
delta replaces whole lines, as in the code. Saving is three actions (`SaveChecks`,
`SaveWritesTemporary`, `SaveRenames`), between which another process may write the file and each
of which may fail. The clock and the merging window are explicit. `strayed` remembers a redo
that was applied to another text than the one it was recorded on (see [divergences](#divergences)).

**`AppShell`.** The UI thread as a whole: one record says what is open, what each tab shows and waits
for, and where the focus is, and an operator for each method of `App` goes from one record to the
records it may leave. The lists of layers (`KeyOrder`, `MouseOrder`, `FooterOrder`, `DrawnOrder`) are
the orders in which `handle_key`, `handle_mouse`, `draw_footer` and `draw` ask. Texts, rows and
selections are left out: what depends on them goes either way, and `ContentTabs`, `FilesTree`,
`SearchPopup`, `SendAgent` and `ExternalOpen` have the detail of each. A behaviour keeps to one set
of topics (`habit`): what the user does in it, and which arrivals nobody asked for.

**`SendPayload`, `SourceOutline`.** Pure functions: the line-wise truncation of a message within
its budget, and the regions, symbols and tokens of a parsed source file or Markdown page. They
are compared with reference definitions over all inputs of a bounded size. The parsers and the
grammars' node kinds are external.

**`AgentView`, `AgentState`, `AgentRuntime`.** A source is an observer with its instance; one
evidence domain, the activity of a session, stands for all. Providers follow the contract of the
trait `ObservationProvider`; `history` is what a provider knew at each sequence number of each
epoch, and is what the properties compare with. Events may be lost with a report (a gap) or
without one, probes and snapshots may fail or be late, a snapshot may be truncated; each such
fault counts against `MaxFaults`. Hooks' events arrive in any order. The worker's loop is an
action for each thing a turn may do, and a refresh is followed step by step (`worker.pc`:
refresh, snapshot, emit, gap), because the UI thread meanwhile takes from the completion queue
and so decides what still fits. The timers of 50 ms, 2 s and 30 s fire while at most `Backlog`
completions wait: they are slow compared with a frame. `Init` is the state after the selection
of the workspace has been handled.

**`SessionRecord`, `SessionEvidence`.** The other domains of one session (agents, turns, lifecycle,
presences, the parent of a handoff), with the limits of observers, agents and turns, filled by
events, complete snapshots, deletions and new contracts of several observers.

**`HookSessions`.** What each of the four vendors' adapters makes of a hook's event:
its facts, its id and its lease. An agent runs its session, each event starts a process, and these
end in any order, are lost or run twice; the reducer is `SessionRecord`'s. The agent is external.

**`MetadataIndex`, `MetadataRecord`, `MetadataStore`.** A merge and a prune are sequences of file
operations, one action each, under the session's, the workspace's and the store's lock; a deadline
or a crash may come before any. Locks are the system's and go with the process; files stay. A later
process may have the number, and so the temporary file's name, of a dead one. `MetadataIndex`
replaces records at once, and `ImplementsIndex` says that each step of the store is one of its
steps or none.

**`EventDelivery`, `LiveBridge`.** A viewer binds its socket and rewrites its manifest (torn while it
does) with a lease; a hook reads the directory, offers its event to each viewer found, waits for
acknowledgements, and falls back to the store. The queue of the terminal is `QueueCap` long.

**`LspClient`.** One action per handler of the manager's loop and of a session's three threads. Ids
are the numbers of requests; a text is its version. `held` counts the processes of a key that the
client owns; a spawn that fails after its process has started drops it, and the clean-up of what is
dropped may fail unnoticed, which `astray` counts. The revalidation lane is one disk read at a
time with a deadline. **`CleanupReport`, `ServerCleanup`**: the phases (close input, wait, signal,
kill, reap, join) shared by a batch of sessions, with a process that heeds signals or not, its kin
in the group, and strays that left it. A reader or a writer may also end while its pipe is held, on a
broken frame, a full channel or a failed write.

**`FilesTree`.** The disk, the snapshot, the lazily loaded directories, and each tab's view. The
worker is that of `WorkerRuntime`, reduced to refreshes and directory loads. **`SearchPopup`**: the
popup with its two sessions, and the search thread with its three atomics. **`SendOutcome`,
`SendAgent`**: the picker over two one-place queues; a call killed at its deadline may have delivered.
**`ControlOutcome`, `InstanceControl`**: sockets with a thread per connection, a bounded number of
slots, an inbox the main loop drains once per frame, and commands that probe, choose and send. Which viewer is chosen
(`ClosestRootIsChosen`) is an assumption of `MCWorkspace`, evaluated for every answer that up to
three viewers can give. **`HerdrSnapshots`**: a
poller thread and the probes and snapshots of the agent runtime; a restart of the server is
inferred. **`SetupOutcome`, `HookSetup`**: setup and restore write one file at a time under a
journal; any write may fail, the process may die, and the user may edit at any time, also between a
look at a file (`BeginSetup`, `UndoFile`) and the write that follows it (`WriteFile`, `PutBack`).
`seen` is history: how many versions the user had written when the process last looked.

**`RepositoryGraph`.** Discovery, relations and rows are functions of a disk, which says of every
directory what kind of `.git` it has, what its `.gitmodules` declares, and which files changed. A
path is a sequence of numbers, so that paths are ordered; what Git answers (`Status`) is external.
A refresh is two actions, so that the user and the disk come between its look and its rows. The
agents scope, ahead and behind counts and the text of a diff are left out.

**`ExternalOpen`.** An order is a generation with a target, a label and what it confirms. The worker
looks at the file twice; each look is four steps (resolve the path, inspect it, open it and note its
identity, permission and stamp, verify that the path still leads there, read the beginning), and
other programs may write the file, change its permission, remove it or put another file or a link in
its place before each. A write need not change the stamp, so that a file may change unseen. Extensions
and beginnings stand for the kinds the code tells apart. `prompts` and `launches` are history. The host
is external: a launch ends well or not. An order in the Files scope follows links, the others do not
and stay below their root.

## The runs

Eight runs must pass and four must be violated. A run explores several parts, each by itself: the
variable `part` says which, and what does not run keeps one initial state.

| Run | Instance | Properties, and what they say |
|---|---|---|
| `worker` | two keys, three requests | `NoLostWakeup`, `ClientWaitsForWork`: a blocked thread has nothing to do. `RequestsKeepTheirOrder`: coalescing and priorities lose no request and keep each tab's order. `StartsWithNewestRegistry`. `CallsComeToAnEnd`: drop, wait and pending work do not wait for ever |
| `editing` | a file of two lines, a paste of two, a stack of two deltas, 5 keys, 1 tick, 1 foreign write; two files and an outside one, 2 tabs, 3 steps of every kind, 5 of navigation; 9,361 messages; trees of up to ten nodes, pages of up to five blocks; the UI with two tabs, a clock of two and eight sets of topics | `UndoIsSound`, `UnmodifiedIsBaseline`, `SaveDetectsConflict`: undo leads back, neither leaving nor saving loses text. `CompletionsFit`, `LoadsAreAwaited`: late results go where they should and whoever waits has something coming. `MessagesAndOutlinesAreExact` (`PayloadIsExact`, `OutlineIsSound`): the functions agree with their references. `ShellIsSound`: the popup that is drawn on top hears the keys (`DrawnHearsKeys`), a hidden tree does not (`FocusIsShown`), an edit's text is shown only with its session (`BufferHasSession`). `LossIsAnnounced`: unsaved changes go, and the program ends, only after the footer has said so |
| `agent_safety` | two sessions and a queue of three; a provider of two epochs and a queue of two; a changing contract and a queue of twelve; two observers of a session; three panes; a session of up to six hook events of each vendor | `CompletenessIsHonest`, `EventsFollowSnapshots`. `SaidIsHeld`: evidence keeps to contracts and limits and is not lost silently (`EvidenceIsSound`), the viewer follows the hooks of a session (`SessionsAreFollowed`) |
| `agent_live` | a queue of five with two faults; a hook of two versions, two events, a clock of two | `ViewSettles`: the view agrees with the providers in the end (`ViewConvergesInTheEnd`), leases end (`LeasesRunOut`). `LeasesAreTimed`, `EvidenceNeverGoesBack` |
| `stores` | two processes, two workspaces, two keys, three merges, one prune, one crash; two viewers and one event, one viewer and two | `ImplementsIndex`, `IndexedByWorkspace`, `RecordsGrow`, `EventsReachViewers` |
| `programs` | one key, two requests, two texts, two failures until disabled; the cleanup of one session; two orders to open a file that others change twice, in the tree of all files and below a root; three orders for two files that nobody changes, with a clock of two | `AnswersFit`, `EveryRequestIsAnswered`, `CleanupsAreProven`. `OneProcessPerKey`: the client holds one process of a key at most. `OpensAreMeant`: what is opened was confirmed as it is (`UnknownIsConfirmed`) and does not run (`NothingRuns`), an offer is of the last order (`OffersAreCurrent`), whoever waits is on the way to an answer (`OrderIsAwaited`) |
| `progress` | two commands and one viewer with one slot; a server with one pane that restarts once; tabs for four steps, refreshes among them | `EveryCommandEnds`, `ListsKeepComing`, `ListsFitContracts`. `LoadingEnds`: a "Loading" text goes away, and stays only where a refresh has withdrawn its load and failed or found another tab active |
| `workspace` | trees of four and of three paths; two files and two queries; two panes, two tabs and two openings; two commands with one viewer, one with two; setups for two agents, three transactions, an edit and a fault; 2,800 workspaces of five directories and two links, half of them with limits; two repositories, four keys and a change of a file | `TreeHoldsTogether`, `QuietLoadKeepsSelection`, `SearchIsSound`, `SendingIsSound`, `CommandsAreServed`, `TransactionsAreWhole`. `ReplacedIsKept`: what setup and restore replace has a backup or was written by the user since their last look at it |
| `tabs_edit_buffer`, `edit_redo`, `agent_reload`, `tree_load_selection` | as above | see [divergences](#divergences) |

Why the bounds are enough. Three requests over two keys are the least with one that runs, one that
waits for the same tab and one for another. Queues are one to three entries shorter than what a
refresh posts, so that every kind of message is the one that does not fit. Two sessions are the
least for a snapshot of two chunks, two epochs for a late answer of the old one. Two processes, one
of which crashes, reach every pair of steps that the locks have to separate. Two directories, one
in the other, are the least for a load below a load. Five keys are the least for a merged edit, an
eviction and the undo of both. Where a run uses a queue in which everything fits (`Capacity` 12,
in "contracts" and "leases"), the property does not hold with a shorter one, and
[divergences](#divergences) says so.

The workspaces of "repositories" have a directory around the workspace, one in it with one of its
own, a link out of it and a link back to it, and on every side of every boundary each kind of
`.git` and each declaration of a submodule that the code distinguishes: itself, its parent, its
child, a missing one and one behind a link. "limits" stops their discovery at two repositories,
three directories and a depth of two.

The sets of topics of the UI (`ShellHabits`) bring together what shares state: popups that open over
one another, the find bar, the search and the edit session that each put something in the content's
place, two tabs of which one is edited, quitting during each. Nine topics at once are more than
a run can finish; their first fourteen steps were explored without a violation.

Deadlock is checked where the system never stops: the worker and the agents. The others stop when
the user does.

**Fairness** is stated where progress is asked for, and only of what the code's scheduling
guarantees.

| Where | Fairness | Why |
|---|---|---|
| `WorkerRuntime` | weak, of `WorkerStep`, `ClientWakes`, `Join` | threads are scheduled, each piece of work returns; nothing makes the client call |
| `ContentTabs` | weak, of `WorkerStarts` and `WorkerFinishes`; finished work is polled again and again | the event loop polls every frame |
| `AgentRuntime` | weak, of `UiTurns`, `GoesOn`, `Tick`; strong, of `HandleRequest`, `PollReceiver`, `Poll`, `EmitDueExpiries`, `Reconcile`, `Reprobe` | each turn of the loop tries all of its steps, and no step keeps the thread, so that what is possible again and again is done; faults are bounded |
| `HerdrSnapshots` | weak, of `Poll` and `Snapshot` | one thread polls, the runtime asks again and again |
| `InstanceControl` | weak, of `Accept`, `Respond`, `GiveUp`, `Release` and each command's steps | threads with deadlines; the main loop may stay slow |
| `LspClient` | weak, of `HandleRequest`, `HandleCancel`, `DiskAnswers`, `Wedge` and each `Expire(k)` | the manager's loop and its deadlines; no server has to answer |

## Divergences

Where the code does not do what its documents, comments or tests say. Four have a run that TLC must
find violated:

| Run | Property | What happens |
|---|---|---|
| `tabs_edit_buffer` | `EditBufferKept` | a refresh that completes during an edit puts "Loading" in place of the buffer, against the comment at `app.rs:10341` |
| `edit_redo` | `RedoFitsText` | an edit that is merged with the one before leaves the redo stack, and redo replaces what was typed, against `edit.rs:962` |
| `agent_reload` | `LiveStaysLive` | reloading the metadata replaces sessions that are observed live, against `code-agent-observability.md:66` and `:149` |
| `tree_load_selection` | `LoadKeepsSelection` | a directory that has loaded moves the selection back to the file the tab shows, against the comment at `app.rs:7456` |

The following are stated in the modules too. No run checks them; TLC finds each violated when it is
checked in the run named, with the constants given.

| Property (module) | Where | What happens |
|---|---|---|
| `LoadingMeansInFlight` (`ContentTabs`) | `editing` | cancelling a navigation drops the tab's queued preview, and the tab counts as loading with nothing in flight; a refresh mends it unless it fails |
| `LoadingAlwaysEnds` (`ContentTabs`) | `progress` | a refresh drops the queued preview of the tab, and if it fails nothing loads it again: "Loading" stays until the user selects something |
| `DetachedGetsOwnTab` (`ContentTabs`) | `editing` | at the tab limit a detached file replaces the active tab, against `app.rs:1772` |
| `ExitShowsFile` (`EditSession`) | `edit_redo` | discarding edits made after a save restores the text from before the save |
| `CaretInBuffer` (`EditSession`) | `edit_redo` | undoing half of a paste over a selection leaves the caret outside of the buffer |
| `PayloadKeepsEnds` (`SendPayload`) | `editing` | a selection that is cut may keep only its head or only its tail where a line of both would fit, against `send_agent.rs:27` |
| `GapReconciles` (`AgentRuntime`) | `agent_safety`, `MaxFaults` 2 in "chunks" | the second gap of an epoch has the id of the first and counts as a duplicate |
| `EvidenceIsPermitted` (`AgentRuntime`) | `agent_safety`, `Capacity` 2 in "contracts" | a contract update that does not fit the queue is not sent again |
| `ExpiryTakesOnlyExpired` (`AgentRuntime`) | `agent_live`, `MaxTime` 3, no store, in "leases" | an expiry already queued removes evidence whose lease was renewed |
| `LeasesRunOut` (`AgentRuntime`) | `agent_live`, `Capacity` 1, no store, in "leases" | an expiry that does not fit the queue is lost with its timer |
| `EveryEventCounts`, `EndIsShown` (`HookSessions`) | `agent_safety`, "session" | the second end of a session that was resumed has the id of the first and is dropped, against `claude.rs:94`; so is Codex's second request for the same permission in one turn |
| `HealthyViewersHear`, `AcknowledgedIsKept` (`LiveBridge`) | `stores` | a viewer that renews its manifest late is not asked, and an acknowledged event is lost when the terminal's queue is full, against `code-agent-observability.md` and `transport.rs:577` |
| `SignalledBeforeReaped` (`ServerCleanup`) | `programs` | a leader that exits by itself is reaped before its group is signalled, when its number may have been given away, against `code-navigation.md` |
| `NoSecondServer` (`LspClient`) | `programs` | a spawn that fails after its process has started drops the process and ignores that the clean-up failed (`lsp_process_unix.rs:146`), and the next request starts another, against `code-navigation.md:863` |
| `PendingIsAwaited` (`FilesTree`) | `workspace` | a refresh forgets that a reveal waits for a directory |
| `RefreshKeepsRows` (`FilesTree`) | `workspace`, `ScanDepth` 2, `ScanLimit` 4, `MaxRefreshes` 3 in "one view" | a refresh of an unchanged workspace takes rows out of the tree that the user had opened |
| `EachTabOwnsItsContent` (`SearchPopup`) | `workspace` | closing the search restores what the popup's preview replaced into the tab that is active then, against `README.md:201` |
| `CancelSendsNothing` (`SendAgent`) | `workspace` | Esc while a draft is on its way does not stop it, against `send-to-agent.md:298` |
| `SelectionClearedIsTheSent` (`SendAgent`) | `workspace`, two texts | success clears the selection of the tab in front, whatever was sent |
| `LateIsNotOpened` (`InstanceControl`) | `workspace` | a request whose command has given up is performed all the same |
| `DetachedHasItsTab` (`InstanceControl`) | `workspace` | a file outside of the root replaces the active tab at the limit |
| `EditsAreKept` (`SetupOutcome`) | `workspace` | an edit between the look at a configuration and its write is overwritten, by setup and by restore, against `code-agent-observability-test-gates.md:63` |
| `FailureIsUndone` (`HookSetup`) | `workspace` | a setup that cannot write the last entry of its journal fails and leaves what it has installed, against `hook-setup.md:27` |
| `RestoredIsOriginal` (`HookSetup`) | `workspace` | a process that dies between writing a file and noting it leaves a hook that the restore of the transaction does not remove, against `README.md:150` |

`RowsAreTheChanges` (`RepositoryGraph`) holds under two conditions that its comments name, `NoLoops`
and `NoneBetween`. Without the first, of two repositories whose `.gitmodules` declare each other, or
of one that declares itself through a link, no row is shown, and `app.rs:7304` asserts that this does
not happen; without the second, what a repository reports of a submodule with another repository
between them is shown twice. A mark is dropped with the repository that is ignored because it cannot be read.

`ShellIsSound` (`AppShell`) has exceptions that its parts name, and each is reached: a click opens the
menu of new tabs below the palette, which hears no key while the menu, which is not drawn, does; the
targets of a navigation arrive over the picker of agents, which goes on hearing the keys; a search is opened
from the find bar of an edit session, is drawn over it, hears nothing while it lasts, and gives the
edit's text back to the tab in front when it is closed; and a click on the path above the content moves
the focus to a tree that is hidden, against `app.rs:1947`.

Read in the code, without a module that states it:

- when another tab has unsaved changes, the warning that the first `q` leaves (`app.rs:2818`) is not seen
  in time: the footer shows the question to quit in its place until that is over;
- `s` after the first Esc is typed, where `keyboard-shortcuts.md:124` says that it saves;
- a cancellation of a language server request is lost when the channel is full
  (`code-navigation.md:611`), a completion too many drops the oldest, and one invalid envelope ends a
  server, where `code-navigation.md:554` allows three;
- Space marks the version the last refresh found, also when the diff shown is newer (`README.md:239`);
- an order to open a file while another is on its way is not refused, as `external-file-open.md:190`
  says, but replaces it (`app.rs:8758`), and only the file opened last is remembered;
- on the first Herdr beat `probe` fails before `snapshot`, so that the provider is degraded where the
  design says reconciling.

## The proofs

Each of the theorems below holds for every value of the constants that satisfies the assumption
named; `PROJECT.json` lists them under `theorems`. The state predicates and actions they state are
the definitions the runs check, unless the table says that it is the inductive invariant.

| Module | Theorem | States | Assumes |
|---|---|---|---|
| `WorkerRuntimeProofs` | `TypeCorrect` | `TypeOK` | there are keys, a number of requests, `None` is not a request |
| | `NoWakeupIsLost`, `ClientNeverWaitsInVain` | `NoLostWakeup`, `ClientWaitsForWork` | |
| | `JobsStartUpToDate` | `StartsWithNewestRegistry` | |
| | `RequestsAreKept` | `RequestsKeepTheirOrder` | |
| `EditSessionProofs` | `NothingTypedIsLost`, `SaveOverwritesNoConflict` | `UnmodifiedIsBaseline`, `SaveDetectsConflict` | texts are not empty, the bounds are numbers |
| | `UndoLeadsHome` | `UndoIsSound` | |
| | `ChangesAreNotLostSilently`, `LayersAgree` | `LossIsAnnounced`, `ShellIsSound` (of `AppShell`) | the limits of tabs are positive numbers, the times numbers |
| `AgentRuntimeProofs` | `ViewFollowsProviders` | the invariant | `Shape`: hooks and providers are disjoint, sessions finite, capacities positive |
| | `CompleteIsTheTruth` | `CompletenessIsHonest` | |
| | `SnapshotsComeFirst` | `EventsFollowSnapshots` | |
| | `LateArrivalsLose` | `EvidenceNeverGoesBack` | |
| `HookSessions` | `AdaptersFit`, `AdaptersKeepTheirContracts` | for every payload; `FactsAreAdmitted` | `HookShape`: `None` is not a number |
| `MetadataStoreProofs` | `OwnersKnow` | the invariant | the names are numbers and finitely many, the bounds are numbers |
| | `SessionsAreIndexed`, `RecordsOnlyGrow` | `IndexedByWorkspace`, `RecordsGrow` | |
| | `StoreImplementsIndex` | `ImplementsIndex`, the refinement | |
| | `EventsAreTakenOnce` | `EventsReachViewers` | |
| `LspClientProofs` | `ClientIsSound` | the invariant | the bounds are numbers |
| | `OneProcessIsHeld`, `AnswersAlwaysFit` | `OneProcessPerKey`, `AnswersFit` | |
| | `ProgressIsTrue` | the invariant of the cleanup | |
| | `CleanupsTellTheTruth` | `CleanupsAreProven` | |
| `InstanceControlProofs` | `CommandsAreTold` | `CommandsAreServed` | the limit of connections is a number |
| | `ListsAreTrue` | `SnapshotFitsContract` always, `ListsFitContracts` before the last revision | `Shape`: the last revision is a positive number, the bounds are numbers |
| `HandoffProofs` | `OutcomesAreTrue`, `SeenEditsAreKept` | `TransactionsAreWhole`, `ReplacedIsKept` | `Shape`: agents are a sequence, binaries numbers, `None` is no file and no journal |
| | `DraftsAreSound` | `SendingIsSound` | |
| | `HandoversAreMeant` | `OpensAreMeant` | `OpenShape`: each path has an extension, links lead out of the targets, what is not followed is below the root, the windows and bounds are numbers |

How each argument goes, and what the invariant adds to the property:

- *Worker.* `WakeInv` joins the types and the two facts about the condition variable. That
  `notify_one` cannot wake the wrong thread follows from the client's calls being made by a client
  that does not wait. Calls that notify all leave nobody blocked (`NobodyBlocked`), those that
  notify one reach the only one there can be (`NotifyOneReachesAll`), those that notify nobody only
  take work away (`CancelWakesNobody`). `RegistryInv` says which number the registry has that waits
  or is installed. `RequestsInv` places every request that was asked for: withdrawn, waiting, being
  worked on, finished or delivered, with the queues in the order of their calls.
- *Editing.* `SaveInv` says that what a save has checked stays the baseline until the rename.
  `UndoInv` is about the stacks: from the text of now, each delta of the undo stack leads to an
  earlier text of the session, with line counts that fit one another along both stacks, and the
  last leads to where the session began or to where the limit dropped deltas. It is stated step by
  step along the stack, with a function from positions to texts, so that no recursion is needed.
  States after a stale redo (`strayed`, the finding `edit_redo`) are exempt; reaching them takes
  more keys than the run's five.
- *Agent runtime.* `Inv` reads the system from the view back to the worker: `Types`; `History` (the
  revisions of a provider are ordered and its outbox holds true events); `Leases` (only hooks have
  timers); `Queue` (every message is a position in a provider's history, in order, for a registered
  source); `Working` (what the worker is about to emit is true and not older than what it has
  emitted); `Views` (what the view shows of a provider is what the provider knew at the position of
  the stream, and no message behind it is ahead). Faults of every kind are steps like others, so
  that the theorem holds for any number of losses. `CompletenessIsHonest` speaks of revisions whose
  contract has the activity.
- *Hook adapters.* Whatever fields a payload has, if it names its session and passes the vendor's
  `validate`, every observation made of it is one its contract admits (`AdaptersFit`): each kind of
  observation fits if it names what it is about (`FactsFit`), and `validate` asks for the turn or the
  subagent wherever an adapter names one. The hooks of the model's agent name their session
  (`HooksAreNamed`), so the invariant follows for all runs of it.
- *Metadata store.* `StoreInv` says which locks a process holds at each of its steps, that what it
  has read under them is what the disk still holds, and that a session's file is never ahead of its
  workspace's. The session lock plays no part: the workspace lock suffices. The refinement maps the
  rename of the session's file to the abstract step and everything else to a stutter.
- *Live events.* `BridgeInv` keeps, for each hook, the set of viewers found and the set that took the
  event, and that an acknowledgement comes after the taking.
- *Language servers.* `Inv` names what each request waits for (`Books`), which threads and
  processes the client holds for a session (`Lives`), which ids a server may still answer (`Expects`) and which text it
  has open at each point of its input (`Reads`). A process that a failed spawn has dropped is not held,
  and nothing is promised of it. Without `Reads`, a text that was superseded in the
  queue would be indistinguishable from the one a request was made for.
- *Cleanup.* What the progress notes of a group (exited, reaped, empty) is true of it, and stays so.
- *Hook setup.* `Backed` (a configuration a transaction has written has its original in a backup on
  disk), `Writing` (what is not yet written is as it was read, or the user has written it since, and
  what is written is marked), `Undoing` (what is still marked is still to be undone, and what is about
  to be put back was seen to be as setup had left it, or the user has written it since), `Reported` (an
  outcome in the journal is true). It holds for any number of transactions, edits and faults. Nothing
  in the code notices an edit between a look and the write that follows; `Newer` is what the
  invariant says of such a file, and all that `SeenEditsAreKept` leaves open.
- *Terminal interface.* Most handlers leave the sessions and the end of the program alone
  (`MostAreQuiet`). What remains is told by the lists: whenever the edit session, or the base, is what
  hears a key, it is also what the footer speaks of (`FooterHears`), though the two lists differ. The
  invariant is only that sessions have one of their states; the theorem asks nothing of tabs, popups or
  completions, so that it holds whatever they do.
  That the layers agree (`LayersAgree`) needs more: `Sound` adds that a search covers neither a find bar
  nor a context menu, that a context menu comes with a tree and without the menu of tabs, and that what
  closing a search puts back is itself as it should be, which is what a search opened from an edit session
  breaks. Most handlers are compositions of a few moves, each of which opens nothing, keeps the layout and
  the search, gives no tab an edit's text and sends the focus only where it shows (`Moved`); that relation is
  transitive (`MovedTwice`) and keeps `Sound` (`SoundIfMoved`), so that only the events that do more are
  argued one by one. The order lists enter twice: a layer that hears has nothing above it (`HeardByKeys`,
  `HeardByClicks`), and with `Sound` the orders of drawing and of keys differ only in the three ways the
  property names (`SoundIsDrawn`).
- *Send to agent.* `SendInv` says of a picker that waits that its request is the last of its slot,
  wherever it is (`Waits`): a completion is never overwritten while the picker still waits for it.
  `Once` counts the drafts confirmed, delivered or not, by the opening they belong to.
- *Opening files.* `OpenInv` tells orders apart by their generation: what waits in the slot, is being
  served or has its answer ready is of a generation that was begun, each of another, and an offer
  belongs to the generation whose answer it is, so that the order which takes it up is the only one
  that carries it. What has passed a look is harmless as it was read, and confirmed if it is not known.
  The theorem holds for any number of orders and of changes by other programs.
- *Control channel.* `ControlInv` says that no thread, queue or answer is of an exchange to come
  (`Begun`), that a request is in the inbox at most once and not while it counts as performed
  (`Once`), that every slot in use has its thread (`Counted`), and that an answer on its way says
  success only of what was performed (`Told`). It holds for any number of viewers and commands.
- *Herdr.* `HerdrInv` says that a contract is registered only after a first list, and that under the
  revision it bears the version is still the one it names (`Registered`); and that during a pull
  the revision either stays or changes with the list dropped (`Pulled`). A pull sees the end of at
  most one poll, which is where the five seconds between polls come in. At the last revision, where the
  counter saturates, a restart can no longer be announced: the theorem excludes that revision, which
  in the code is the largest number there is.

What stays with TLC, and why:

- liveness (`CallsComeToAnEnd`, `ViewConvergesInTheEnd`, `LeasesRunOut`, `EveryRequestIsAnswered`,
  `EveryCommandEnds`, `ListsKeepComing`, `LoadingEnds`): fairness and `ENABLED` are beyond the prover;
- what folds and recursive functions compute for every input (`PayloadIsExact`, `OutlineIsSound`, and
  `SearchIsSound` and the rows of the review scope, whose modules fold over lists): induction over data is beyond it;
- `LeasesAreTimed` and `EvidenceIsSound` hold for queues that do not fill, and how many messages a
  turn can post is not stated in the model, only in its constants;
- `LoadsAreAwaited`, `CompletionsFit`, `TreeHoldsTogether` and `QuietLoadKeepsSelection`: a step of
  the program takes all the completions that have arrived, which is a fold over them (`Reduced` in
  `ContentTabs`, `Poll` in `FilesTree`), and a fold over a sequence of any length is induction over data;
- what `SessionsAreFollowed` says of the viewer beyond `FactsAreAdmitted`: a hook's observations are
  applied by a fold.

## What is not modelled

| Part | Why |
|---|---|
| parsing of hook payloads, diagnostics (`hook_json.rs`, `doctor`) | functions from text to records; the adapters are modelled from the records on |
| code navigation's ranking and locators (`navigation.rs`) | data; its requests are in `LspClient`, its answers a choice in `ContentTabs` |
| layout, previews, Markdown (`ui.rs`, `preview/`, `text_layout.rs`) | no state that others read; what is drawn on top is in `AppShell` |
| selecting rows and text with the mouse, dragging, the hits of the find bar | `AppShell` leaves open what they decide |
| configuration, clipboard, entry point | run once, or pure input and output |
| Git, Herdr, language servers, parsers, the agents | programs of others: modelled as far as the code depends on what they do |
| loading a workspace's metadata, its encoding, the installation's identity | `MetadataStore` has merging and pruning |
| selecting another workspace, shutting the agent runtime down, its maintenance | `AgentRuntime` begins when a workspace is selected |
| the completion queue's eviction and the payload budgets of the language server client; the frame decoder | `LspClient` counts frames |
| the text of diffs, the agents scope, the Markdown toggle | `ContentTabs` and `FilesTree` have the Files scope, `RepositoryGraph` the review scope |
| outdent, word motion, CRLF, wide characters, permissions | `EditSession` has bytes and lines |

`PROJECT.json` gives each component a status and a note.
