----------------------------- MODULE SearchPopup -----------------------------
(* The search popup and the thread that searches the text of the workspace.    *)
(*                                                                             *)
(* The interface keeps one popup in one of two modes, with a saved session for *)
(* each; a text query is answered by a worker that owns an inventory of the    *)
(* candidate files, sends its matches in batches, and learns only through      *)
(* three atomics that a query was replaced or the inventory is old.  The popup *)
(* previews its selected result in the tab it covers, and closing it gives the *)
(* tab back what it showed.                                                    *)
(*                                                                             *)
(* A query stands for its words and its options; 0 is the empty one.  A result *)
(* is the number of its file.  The disk is the number of its changes, and an   *)
(* inventory the number that it saw.                                           *)
EXTENDS Integers, Sequences, SequencesExt, FiniteSets

CONSTANTS
    Queries,      \* the queries a user types, numbered from 1
    Bad,          \* those that are no regular expression
    Files,        \* how many candidate files there are
    Hits,         \* the files each query finds
    BatchSize,    \* BATCH_SIZE
    MaxResults,   \* MAX_SEARCH_RESULTS
    Threads,      \* how many files are read at a time
    MaxEdits,     \* bound: changes of the query and the mode, and openings
    MaxChanges,   \* bound: changes of the disk
    MaxRefreshes, \* bound: snapshots applied
    MaxOpens,     \* bound: files that another process opens in a new tab
    None          \* no popup, no session, no hint, no request

Modes == {"files", "text"}
Tabs  == 1 .. 1 + MaxOpens

VARIABLES
    ui,       \* the interface: popup, sessions, the tabs' contents
    commands, \* the channel to the worker
    events,   \* the channel from it
    latest,   \* latest_generation
    epoch,    \* inventory_epoch
    ready,    \* inventory_ready
    worker,   \* the worker: where it is, its request, its inventory, its scan
    disk      \* the changes made so far, and how many the tree knows
vars == <<ui, commands, events, latest, epoch, ready, worker, disk>>

\* The files of an answer, in the order of their paths, up to the cap.
Answer(q) ==
    LET all == SelectSeq([f \in 1 .. Files |-> f],
                         LAMBDA f : q \notin Bad \cup {0} /\ f \in Hits[q])
    IN  SubSeq(all, 1, IF Len(all) < MaxResults THEN Len(all) ELSE MaxResults)

------------------------------------------------------------------------------
\* The previews of the tab that the popup covers

\* dispatch_content_request: the tab waits for the newest request alone.
Ask(s, f) == [s EXCEPT !.tabs[s.active].asked = f]

\* preview_search_selection
Preview(s) ==
    IF s.popup.selected = 0 THEN s
    ELSE Ask(s, s.popup.results[s.popup.selected])

\* restore_search_selection: the result of the hint, or the one in its place.
RestoreSelection(s, hint) ==
    LET r == s.popup.results
        i == IF hint = None THEN 1
             ELSE IF \E k \in DOMAIN r : r[k] = hint.file
                  THEN CHOOSE k \in DOMAIN r : r[k] = hint.file
                  ELSE IF hint.index <= Len(r) THEN hint.index ELSE Len(r)
    IN  IF r = <<>> THEN [s EXCEPT !.popup.selected = 0]
        ELSE Preview([s EXCEPT !.popup.selected = i])

\* apply_streaming_search_selection: the first result, or the hinted one as
\* soon as it is there.
StreamSelection(s) ==
    LET p == s.popup
        At(f) == {k \in DOMAIN p.results : p.results[k] = f}
    IN  IF p.results = <<>> \/ p.selected # 0 THEN s
        ELSE IF p.hint = None THEN Preview([s EXCEPT !.popup.selected = 1])
        ELSE IF At(p.hint.file) = {} THEN s
        ELSE Preview([s EXCEPT !.popup.selected = CHOOSE k \in At(p.hint.file) : TRUE,
                               !.popup.hint = None])

------------------------------------------------------------------------------
\* Results of the current query

\* rebuild_file_search_results: from the entries of the tree, at once.
RebuildFiles(s) ==
    RestoreSelection(
        [s EXCEPT !.popup = [@ EXCEPT !.results = Answer(s.popup.query), !.inv = s.seen,
                                      !.searching = FALSE, !.due = FALSE,
                                      !.hint = None]],
        s.popup.hint)

\* schedule_text_search: a new generation, due in 150 ms.
ScheduleText(s) ==
    LET g == s.generation + 1
        asks == s.popup.query # 0
    IN  [s EXCEPT !.generation = g,
                  !.popup = [@ EXCEPT !.results = <<>>, !.generation = g,
                                      !.searching = asks, !.due = asks,
                                      !.selected = 0, !.inv = s.seen,
                                      !.hint = IF asks THEN @ ELSE None]]

\* rebuild_search_results
Rebuild(s) ==
    CASE s.popup.mode = "files" -> RebuildFiles(s)
      [] s.popup.mode = "text"  -> ScheduleText(s)

\* current_search_selection_hint, or the hint that is still to be found.
CurrentHint(p) ==
    IF p.selected # 0 THEN [file |-> p.results[p.selected], index |-> p.selected]
    ELSE p.hint

------------------------------------------------------------------------------
\* Sessions: what each mode keeps while it is not shown

NewSession(s) ==
    [query |-> 0, results |-> <<>>, selected |-> 0, hint |-> None,
     tree |-> s.treeEpoch, stale |-> FALSE, inv |-> s.seen]

Saved(s, stale) ==
    [s EXCEPT !.sessions[s.popup.mode] =
        [query |-> s.popup.query, results |-> s.popup.results,
         selected |-> s.popup.selected, hint |-> CurrentHint(s.popup),
         tree |-> s.treeEpoch, stale |-> stale, inv |-> s.popup.inv]]

\* store_search_session
Store(s) == Saved(s, s.popup.searching \/ s.popup.due)

\* A session is searched again when it was interrupted or the tree has changed
\* since; otherwise its results are shown as they are.
IsStale(s, saved) == saved.stale \/ saved.tree # s.treeEpoch

\* activate_search: the session of the mode becomes the popup.  A hint whose
\* result was not found keeps its place 0, the first.
Activate(s, mode, restore) ==
    LET old   == s.sessions[mode]
        saved == IF old = None THEN NewSession(s) ELSE old
        again == IsStale(s, saved)
        p == [mode |-> mode, query |-> saved.query, results |-> saved.results,
              selected |-> saved.selected, searching |-> FALSE, due |-> FALSE,
              generation |-> 0, inv |-> saved.inv, restore |-> restore,
              hint |-> IF again /\ saved.hint # None
                       THEN [file |-> saved.hint.file,
                             index |-> IF saved.selected = 0 THEN 1 ELSE saved.selected]
                       ELSE None]
        s1 == [s EXCEPT !.popup = p, !.sessions[mode] = None]
    IN  IF old = None \/ again THEN Rebuild(s1) ELSE Preview(s1)

\* The next generation, which no request has: what runs is cancelled.
NextGeneration(s) == [s EXCEPT !.generation = @ + 1]

------------------------------------------------------------------------------
\* Events of the worker

Applied(s, e) ==
    IF e.kind = "batch"
    THEN StreamSelection([s EXCEPT !.popup.results = @ \o e.matches])
    ELSE LET s1 == [s EXCEPT !.popup.searching = FALSE, !.popup.inv = e.inv,
                             !.popup.hint = None]
         IN  IF s.popup.hint = None THEN s1 ELSE RestoreSelection(s1, s.popup.hint)

\* Mutant: the events of every text search are applied.
ApplyAnyEvent(s, e) ==
    IF s.popup = None \/ s.popup.mode # "text" THEN s ELSE Applied(s, e)

\* apply_search_events for one event: of the popup's own generation.
ApplyEvent(s, e) ==
    IF s.popup = None \/ s.popup.mode # "text" \/ s.popup.generation # e.generation
    THEN s ELSE Applied(s, e)

------------------------------------------------------------------------------
Init ==
    /\ ui = [popup |-> None, sessions |-> [m \in Modes |-> None],
             generation |-> 0, treeEpoch |-> 0, seen |-> 0, step |-> "free",
             active |-> 1, tabs |-> [t \in Tabs |-> [shown |-> -t, asked |-> 0]],
             kept |-> None, edits |-> 0, refreshes |-> 0]
    /\ commands = <<>> /\ events = <<>>
    /\ latest = 0 /\ epoch = 0 /\ ready = FALSE
    /\ worker = [at |-> "idle", pending |-> None, request |-> None, inv |-> 0,
                 epoch |-> 0, next |-> 1, running |-> {}, found |-> {},
                 done |-> 0, batch |-> <<>>, count |-> 0]
    /\ disk = 0

\* The interface acts; it is not in the middle of applying a snapshot.
Interface == ui.step = "free"

\* A step that touches the worker only through the generation it cancels with.
Becomes(s) ==
    /\ ui' = s
    /\ latest' = IF s.generation # ui.generation THEN s.generation ELSE latest
    /\ UNCHANGED <<commands, events, epoch, ready, worker, disk>>

Edit == Interface /\ ui.edits < MaxEdits
Counted(s) == [s EXCEPT !.edits = @ + 1]

\* open_search: what the tab shows is captured.
Open(mode) ==
    /\ Edit /\ ui.popup = None
    /\ LET now == [tab |-> ui.active, shown |-> ui.tabs[ui.active].shown,
                   asked |-> ui.tabs[ui.active].asked]
       IN  Becomes(Counted(Activate([ui EXCEPT !.kept = now], mode, now)))

\* set_search_mode
Switch(mode) ==
    /\ Edit /\ ui.popup # None /\ ui.popup.mode # mode
    /\ Becomes(Counted(Activate(NextGeneration(Store(ui)), mode, ui.popup.restore)))

\* A key that edits the query, or in text mode one of its options.
Type(q) ==
    /\ Edit /\ ui.popup # None /\ ui.popup.query # q
    /\ Becomes(Counted(Rebuild([ui EXCEPT !.popup.query = q, !.popup.hint = None])))

\* clear_search
Clear ==
    /\ Edit /\ ui.popup # None /\ ui.popup.query # 0
    /\ LET s == [ui EXCEPT !.popup = [@ EXCEPT !.query = 0, !.results = <<>>,
                     !.searching = FALSE, !.due = FALSE, !.hint = None,
                     !.selected = 0]]
       IN  Becomes(Counted(Rebuild(NextGeneration(s))))

\* move_search_selection, or a click on a result
Move(i) ==
    /\ Interface /\ ui.popup # None
    /\ i \in DOMAIN ui.popup.results /\ i # ui.popup.selected
    /\ Becomes(Preview([ui EXCEPT !.popup.selected = i, !.popup.hint = None]))

\* accept_search_selection: the result stays where it was previewed.
Accept ==
    /\ Interface /\ ui.popup # None /\ ui.popup.selected # 0
    /\ LET s == NextGeneration(Store(ui))
       IN  Becomes([Ask(s, ui.popup.results[ui.popup.selected])
                       EXCEPT !.popup = None, !.kept = None])

\* close_search(true): every preview on its way is forgotten, and the tab gets
\* back what it showed, or asks again for what it was loading.
GivenBack(s, r) ==
    [s EXCEPT !.tabs = [t \in Tabs |->
        IF t = s.active THEN [shown |-> r.shown, asked |-> r.asked]
        ELSE [@[t] EXCEPT !.asked = 0]]]

Close ==
    /\ Interface /\ ui.popup # None
    /\ Becomes([GivenBack(NextGeneration(Store(ui)), ui.popup.restore)
                   EXCEPT !.popup = None])

\* poll_instance_requests: another process opens a file, in a tab of its own,
\* whether or not the popup is open.
InstanceOpens ==
    /\ Edit /\ ui.active < Len(ui.tabs)
    /\ Becomes(Counted([ui EXCEPT !.active = @ + 1]))

\* dispatch_search_if_due, with SearchRuntime::search
Dispatch ==
    /\ Interface /\ ui.popup # None /\ ui.popup.due
    /\ ui' = [ui EXCEPT !.popup.due = FALSE]
    /\ latest' = ui.popup.generation
    /\ commands' = Append(commands, [kind |-> "search",
           generation |-> ui.popup.generation, query |-> ui.popup.query])
    /\ UNCHANGED <<events, epoch, ready, worker, disk>>

\* take_events and apply_search_events
TakeEvents ==
    /\ Interface /\ events # <<>>
    /\ ui' = FoldLeft(ApplyEvent, ui, events)
    /\ events' = <<>>
    /\ UNCHANGED <<commands, latest, epoch, ready, worker, disk>>

\* A preview is answered.
ContentArrives(t) ==
    /\ Interface /\ ui.tabs[t].asked # 0
    /\ ui' = [ui EXCEPT !.tabs[t] = [shown |-> ui.tabs[t].asked, asked |-> 0]]
    /\ UNCHANGED <<commands, events, latest, epoch, ready, worker, disk>>

\* apply_refresh_snapshot, which the worker may interleave: refresh_inventory
\* lowers the flag, counts the epoch and sends the command, and only then are
\* the tree replaced and the results of an open popup searched again.
LowerReady ==
    /\ Interface /\ ui.refreshes < MaxRefreshes
    /\ ui' = [ui EXCEPT !.step = "lowered", !.refreshes = @ + 1, !.seen = disk]
    /\ ready' = FALSE
    /\ UNCHANGED <<commands, events, latest, epoch, worker, disk>>

CountEpoch ==
    /\ ui.step = "lowered"
    /\ ui' = [ui EXCEPT !.step = "counted"]
    /\ epoch' = epoch + 1
    /\ UNCHANGED <<commands, events, latest, ready, worker, disk>>

SendReindex ==
    /\ ui.step = "counted"
    /\ ui' = [ui EXCEPT !.step = "sent"]
    /\ commands' = Append(commands, [kind |-> "reindex"])
    /\ UNCHANGED <<events, latest, epoch, ready, worker, disk>>

SearchAgain(s) == Rebuild([s EXCEPT !.popup.hint = CurrentHint(s.popup)])

ReplaceTree ==
    /\ ui.step = "sent"
    /\ LET s == [ui EXCEPT !.step = "free", !.treeEpoch = @ + 1]
       IN  Becomes(IF s.popup = None THEN s ELSE SearchAgain(s))

------------------------------------------------------------------------------
\* The worker

\* What a worker's step leaves to the interface.
Worker(w) == worker' = w /\ UNCHANGED <<ui, latest, epoch, disk>>

\* A request was replaced, or the inventory it runs on has aged.
Current == latest = worker.request.generation /\ epoch = worker.epoch

\* search_loop: every command waiting is taken, and of the requests the newest.
Receive ==
    /\ worker.at = "idle" /\ commands # <<>>
    /\ LET asked == SelectSeq(commands, LAMBDA c : c.kind = "search")
           r == IF asked = <<>> THEN worker.pending ELSE Last(asked)
       IN  Worker([worker EXCEPT !.pending = None, !.request = r,
                       !.at = IF r = None THEN "idle" ELSE "taken"])
    /\ commands' = <<>>
    /\ ready' = (ready /\ \A i \in DOMAIN commands : commands[i].kind # "reindex")
    /\ UNCHANGED events

\* The request is still the newest: the epoch is read, then the flag.
Begin ==
    /\ worker.at = "taken"
    /\ Worker(IF latest # worker.request.generation
              THEN [worker EXCEPT !.at = "idle", !.request = None]
              ELSE [worker EXCEPT !.at = "begun", !.epoch = epoch])
    /\ UNCHANGED <<commands, events, ready>>

Scanning(w) ==
    [w EXCEPT !.at = IF w.request.query \in Bad THEN "report" ELSE "scan",
              !.next = 1, !.running = {}, !.found = {}, !.done = 0,
              !.batch = <<>>, !.count = 0]

\* build_candidate_inventory
Build ==
    /\ worker.at = "begun"
    /\ Worker(IF ready THEN Scanning(worker)
              ELSE [worker EXCEPT !.at = "built", !.inv = disk])
    /\ UNCHANGED <<commands, events, ready>>

\* An inventory that aged while it was built is not used: the request is kept
\* until the next command.
CheckEpoch ==
    /\ worker.at = "built"
    /\ Worker(IF epoch # worker.epoch
              THEN [worker EXCEPT !.at = "idle", !.pending = worker.request,
                                  !.request = None]
              ELSE [worker EXCEPT !.at = "checked"])
    /\ UNCHANGED <<commands, events, ready>>

RaiseReady ==
    /\ worker.at = "checked"
    /\ Worker(Scanning(worker))
    /\ ready' = TRUE
    /\ UNCHANGED <<commands, events>>

\* One of the scan's threads takes the next file.
Claim ==
    /\ worker.at = "scan" /\ Current
    /\ worker.next <= Files /\ Cardinality(worker.running) < Threads
    /\ Worker([worker EXCEPT !.next = @ + 1, !.running = @ \cup {worker.next}])
    /\ UNCHANGED <<commands, events, ready>>

\* The collector puts a file's matches in the order of the candidates: of the
\* files found, those up to the first that is missing.
RECURSIVE Collect(_)
Collect(w) ==
    LET f == w.done + 1
    IN  IF f \notin w.found \/ w.count = MaxResults THEN w
        ELSE Collect([w EXCEPT !.done = f,
                 !.batch = IF f \in Hits[w.request.query] THEN Append(@, f) ELSE @,
                 !.count = IF f \in Hits[w.request.query] THEN @ + 1 ELSE @])

Batch(r, m) == [kind |-> "batch", generation |-> r.generation, matches |-> m]

\* A thread has read its file; full batches are sent at once.
Found(f) ==
    /\ worker.at = "scan" /\ f \in worker.running /\ worker.count < MaxResults
    /\ LET w == Collect([worker EXCEPT !.running = @ \ {f}, !.found = @ \cup {f}])
           full == Len(w.batch) - (Len(w.batch) % BatchSize)
       IN  IF ~Current
           THEN /\ Worker([worker EXCEPT !.running = @ \ {f}])
                /\ UNCHANGED events
           ELSE /\ Worker([w EXCEPT !.batch = SubSeq(@, full + 1, Len(@))])
                /\ events' = IF full = 0 THEN events
                             ELSE Append(events,
                                      Batch(w.request, SubSeq(w.batch, 1, full)))
    /\ UNCHANGED <<commands, ready>>

\* The scan is over: at the cap, after the last file, or because it is stale,
\* and then it ends without a word.
EndScan ==
    /\ worker.at = "scan"
    /\ \/ worker.count = MaxResults
       \/ worker.running = {} /\ (worker.next > Files \/ ~Current)
    /\ Worker(IF Current THEN [worker EXCEPT !.at = "report", !.running = {}]
              ELSE [worker EXCEPT !.at = "idle", !.request = None, !.running = {}])
    /\ UNCHANGED <<commands, events, ready>>

\* The rest of the matches, and the end.
Report ==
    /\ worker.at = "report"
    /\ Worker([worker EXCEPT !.at = "idle", !.request = None, !.batch = <<>>,
                             !.found = {}, !.running = {}, !.count = 0, !.done = 0,
                             !.next = 1])
    /\ events' = events
           \o (IF worker.batch = <<>> THEN <<>> ELSE <<Batch(worker.request, worker.batch)>>)
           \o <<[kind |-> "end", generation |-> worker.request.generation,
                 inv |-> worker.inv]>>
    /\ UNCHANGED <<commands, ready>>

\* The workspace changes; a snapshot that is applied has seen it.
Change ==
    /\ disk < MaxChanges
    /\ disk' = disk + 1
    /\ UNCHANGED <<ui, commands, events, latest, epoch, ready, worker>>

Interfaces ==
    \/ \E m \in Modes : Open(m) \/ Switch(m)
    \/ \E q \in Queries : Type(q)
    \/ Clear
    \/ \E i \in 1 .. MaxResults : Move(i)
    \/ Accept \/ Close \/ InstanceOpens
    \/ Dispatch \/ TakeEvents
    \/ \E t \in Tabs : ContentArrives(t)
    \/ LowerReady \/ CountEpoch \/ SendReindex \/ ReplaceTree

Works ==
    \/ Receive \/ Begin \/ Build \/ CheckEpoch \/ RaiseReady \/ Claim
    \/ \E f \in 1 .. Files : Found(f)
    \/ EndScan \/ Report

Next == Interfaces \/ Works \/ Change

Spec == Init /\ [][Next]_vars

------------------------------------------------------------------------------
\* Properties

\* What a text popup shows is the beginning of the answer to the query that it
\* shows, in the order of the candidates, and all of it once it no longer
\* searches: neither the batches of a query that was replaced, nor the order
\* in which the threads finish, nor a session taken up again mixes answers.
\* (The generations of schedule_text_search and apply_search_events, and the
\* reordering in execute_search.)
AnswersTheQuery ==
    ui.popup # None /\ ui.popup.mode = "text" =>
        /\ IsPrefix(ui.popup.results, Answer(ui.popup.query))
        /\ ~ui.popup.searching => ui.popup.results = Answer(ui.popup.query)

\* A text popup that no longer searches shows matches among the files of an
\* inventory that is no older than the last refresh: an inventory that ages
\* while it is built, while it is searched, or while its popup is closed is
\* not the one whose results stay.  (search_loop's epoch, and the sessions'.)
FinishedIsFresh ==
    ui.step = "free" /\ ui.popup # None /\ ui.popup.mode = "text"
        /\ ui.popup.query # 0 /\ ~ui.popup.searching =>
        ui.popup.inv >= ui.seen

\* A popup that says that it searches is waiting for something: its request is
\* about to be sent, is queued, is kept by the worker, is run on an inventory
\* that has not aged, or has ended with an event that is on its way.
\* ("dropping the request in that gap leaves the UI waiting for an event that
\* never comes", search.rs.)
IsAsked(g) ==
    \/ \E i \in DOMAIN commands :
           commands[i].kind = "search" /\ commands[i].generation = g
    \/ /\ worker.request # None /\ worker.request.generation = g
       /\ worker.at = "taken" \/ worker.epoch = epoch
    \/ \E i \in DOMAIN events : events[i].kind = "end" /\ events[i].generation = g
SearchIsAwaited ==
    ui.step = "free" /\ ui.popup # None /\ ui.popup.searching =>
        ui.popup.due \/ IsAsked(ui.popup.generation)

\* Closing the popup gives the tab back what it showed when the popup opened:
\* from then on it shows that, or what it was already waiting for, and none of
\* the previews that were asked for in between.  It holds of a popup that no
\* file opened by another process came upon.  (close_search.)
CloseGivesBack ==
    ui.popup = None /\ ui.kept # None /\ ui.active = 1 =>
        LET t == ui.tabs[ui.kept.tab]
        IN  \/ t.shown = ui.kept.shown /\ t.asked = ui.kept.asked
            \/ ui.kept.asked # 0 /\ t.shown = ui.kept.asked /\ t.asked = 0

------------------------------------------------------------------------------
\* What the README says and the code does not keep: see the README

\* Each tab keeps its own content: no tab ever shows what another one showed.
\* (README.md of the program, "Each tab owns its own projection (left pane) and
\* content (right pane)"; close_search restores into the tab that is active.)
EachTabOwnsItsContent ==
    \A t \in Tabs : ui.tabs[t].shown < 0 => ui.tabs[t].shown = -t
==============================================================================
