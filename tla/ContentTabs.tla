------------------------------- MODULE ContentTabs -------------------------------
(* The tabs of the terminal UI and the content they show (src/app.rs): Files     *)
(* tabs whose previews are loaded by the background worker, edit mode, semantic  *)
(* navigation (a staged load, a picker with its own preview), refreshes and the  *)
(* open requests that other processes deliver.                                   *)
(*                                                                               *)
(* The state of the UI thread is one record and every method of App that matters *)
(* is an operator from one such record to the next, composed as the code calls   *)
(* them.  A key press, a delivered request and a poll of the finished work are   *)
(* one action each: they run to completion on the UI thread, and their calls to  *)
(* the worker only touch its queues.  WorkerRuntime.tla has those queues in full *)
(* and shows what this module takes from it: requests of a tab coalesce, and     *)
(* completions come in the order of the requests.                                *)
EXTENDS Naturals, Sequences, SequencesExt, RequestQueues

CONSTANTS
    Files,       \* files of the workspace
    Outside,     \* a file outside of it
    Navigable,   \* those whose preview has a navigation source (language known)
    DefaultRow,  \* the row a new tab selects: a file, or "dir"
    MaxTabs,     \* MAX_OPEN_TABS
    MaxSteps,    \* bound on what the user and other processes do
    Features,    \* which of that: "edit", "refresh", "navigate", "tabs", "instance"
    None

\* What the constants have to be; the modules that instantiate this one assume it.
Shape == /\ Navigable \subseteq Files \cup {Outside} /\ Outside \notin Files
         /\ MaxTabs \in Nat \ {0} /\ MaxSteps \in Nat
         /\ DefaultRow \in Files \cup {"dir"}

Documents == Files \cup {Outside}
TabIds    == 1..(MaxSteps + 1)         \* tab ids are never reused

VARIABLES
    ui,       \* the UI thread's state, see UIState
    job,      \* what the worker is executing: a request, a refresh or None
    done,     \* content completions nobody has taken, oldest first
    doneRefresh,  \* the refresh completion nobody has taken, or None
    steps     \* what the user and other processes have done so far

vars == <<ui, job, done, doneRefresh, steps>>

Purposes == {"display", "stage", "preview"}
Request  == [key : TabIds, id : Nat, purpose : Purposes, nav : Nat, file : Documents]

\* content.lines is told apart by what it is: an information text, "Loading f",
\* the document f, an error about f, the buffer of an edit session of f.
Lines   == {"info", "loading", "document", "error", "buffer"}
Content == [lines : Lines, file : Documents \cup {None}, identity : Documents \cup {None}]

\* content.edit: no session, or its dirty and saved flags.
EditStates == {"none", "clean", "dirty", "saved"}

Generation == [latest : Nat, applied : Nat, loading : BOOLEAN]

UIState == [
    tabs       : Seq(TabIds),                       \* in display order
    active     : TabIds,
    nextTab    : Nat,
    generation : [TabIds -> Generation],            \* content_requests
    content    : [TabIds -> Content],
    edit       : [TabIds -> EditStates],
    edited     : [TabIds -> Files \cup {None}],     \* file of the edit session
    stage      : [TabIds -> [nav : Nat, id : Nat, file : Documents] \cup {None}],
    selected   : [TabIds -> Documents \cup {"dir"}],
    nav        : Nat,                               \* navigation_generation
    invocation : [nav : Nat, tab : TabIds] \cup {None},
    picker     : [nav : Nat, tab : TabIds, file : Documents \cup {None},
                  loading : BOOLEAN] \cup {None},
    preview    : Generation,                        \* navigation_preview_requests
    refresh    : Generation,                        \* refresh_requests
    refreshError : BOOLEAN,                         \* last_refresh_error
    queue      : Seq(Request),                      \* the worker's content queue
    slot       : Nat,                               \* its pending refresh, or 0
    wanted     : [TabIds -> Documents \cup {None}]] \* history: the newest request

----------------------------------------------------------------------------------
(* Cancelling *)

Editing(s, t) == s.edit[t] # "none"
Open(s, t) == \E i \in 1..Len(s.tabs) : s.tabs[i] = t

CancelQueued(s, t) == [s EXCEPT !.queue = CancelPendingForTab(@, t)]

InvalidateTab(s, t) ==
    [s EXCEPT !.generation[t] = Invalidate(@), !.wanted[t] = None]

\* next_navigation_generation: the stage of the active tab is dropped, the tab's
\* content generation is not invalidated.
NextNavigationGeneration(s) ==
    [CancelQueued(s, s.active) EXCEPT
        !.preview = Invalidate(@), !.invocation = None, !.stage[s.active] = None,
        !.picker = None, !.nav = @ + 1]

\* cancel_pending_navigation: here it is, if a stage was pending.
CancelPendingNavigation(s) ==
    IF s.stage[s.active] = None THEN NextNavigationGeneration(s)
    ELSE InvalidateTab(NextNavigationGeneration(s), s.active)

----------------------------------------------------------------------------------
(* Loading the selection *)

Submit(s, t, id, purpose, nav, f) ==
    [s EXCEPT !.queue = SubmitContent(@, [key |-> t, id |-> id, purpose |-> purpose,
                                          nav |-> nav, file |-> f])]

\* dispatch_content_request
DispatchContentRequest(s, f) ==
    LET s1 == CancelPendingNavigation(s)
        s2 == [s1 EXCEPT !.generation[s.active] = Begin(@), !.wanted[s.active] = f,
                         !.content[s.active] = [lines |-> "loading", file |-> f,
                                                identity |-> None]]
    IN  Submit(s2, s.active, s2.generation[s.active].latest, "display", 0, f)

\* set_info
SetInfo(s) ==
    LET s1 == CancelPendingNavigation(s)
        s2 == CancelQueued(InvalidateTab(s1, s.active), s.active)
    IN  [s2 EXCEPT !.content[s.active] = [lines |-> "info", file |-> None,
                                          identity |-> None]]

\* load_selected_preview in the Files scope, on the active tab.  A directory keeps
\* the preview that is open.
LoadSelectedPreview(s) ==
    LET row == s.selected[s.active] IN
    IF row # "dir" THEN DispatchContentRequest(s, row)
    ELSE IF s.content[s.active].identity = None THEN SetInfo(s) ELSE s

\* reveal_all_files_selection of a file that is in the loaded tree.
Reveal(s, f) == LoadSelectedPreview([s EXCEPT !.selected[s.active] = f])

----------------------------------------------------------------------------------
(* Tabs *)

\* activate_tab between Files tabs, and populate_tab_projection.
ActivateTab(s, t) ==
    IF ~Open(s, t) \/ s.active = t THEN s
    ELSE LoadSelectedPreview([s EXCEPT !.active = t])

\* open_tab: at the limit it only reports an error.
OpenTab(s) ==
    IF Len(s.tabs) >= MaxTabs THEN s
    ELSE ActivateTab([s EXCEPT !.tabs = Append(@, s.nextTab), !.nextTab = @ + 1],
                     s.nextTab)

\* Closing the active tab activates the one that takes its place, or the last.
ActiveAfterClose(tabs, at) ==
    tabs[IF at < Len(tabs) THEN at + 1 ELSE at - 1]

\* close_tab
CloseTab(s, t) ==
    LET at   == CHOOSE i \in 1..Len(s.tabs) : s.tabs[i] = t
        rest == Remove(s.tabs, t)
    IN  IF Len(s.tabs) <= 1 \/ ~Open(s, t) \/ s.edit[t] = "dirty" THEN s
        ELSE IF s.active # t THEN [s EXCEPT !.tabs = rest]
        ELSE LoadSelectedPreview([s EXCEPT !.tabs = rest,
                                           !.active = ActiveAfterClose(s.tabs, at)])

----------------------------------------------------------------------------------
(* Semantic navigation *)

\* commit_navigation_reveal: the row of a workspace file is selected, not loaded.
CommitReveal(s, f) ==
    [s EXCEPT !.selected[s.active] = IF f \in Files THEN f ELSE @,
              !.invocation = None, !.stage[s.active] = None, !.picker = None]

\* accept_navigation_target, on the active tab: a target in the document shown is
\* revealed, another one is loaded first.
AcceptTarget(s, nav, f) ==
    LET g == Begin(s.generation[s.active]) IN
    IF s.content[s.active].identity = f /\ f \in Navigable THEN CommitReveal(s, f)
    ELSE Submit([s EXCEPT !.generation[s.active] = g, !.wanted[s.active] = f,
                          !.stage[s.active] = [nav |-> nav, id |-> g.latest, file |-> f],
                          !.picker = None],
                s.active, g.latest, "stage", nav, f)

\* The same on the tab that asked, if it is still open.
AcceptTargetFor(s, tab, nav, f) ==
    IF ~Open(s, tab) THEN s
    ELSE [AcceptTarget([s EXCEPT !.active = tab], nav, f) EXCEPT !.active = s.active]

\* Mutant: the picker goes on saying that its preview is loading.
CancelPickerLoad(s) ==
    [CancelQueued(s, s.picker.tab) EXCEPT !.preview = Invalidate(@)]

\* What the selected row needs no load for.
StopPickerLoad(s) ==
    [CancelQueued(s, s.picker.tab) EXCEPT !.preview = Invalidate(@),
                                          !.picker.loading = FALSE]

\* request_navigation_picker_preview for the selected row: nothing for a group,
\* the tab's own lines for the document it shows, a load for another file.
RequestPickerPreview(s) ==
    LET p == s.picker
        shown == Open(s, p.tab) /\ p.file \in Navigable
                   /\ s.content[p.tab].identity = p.file
        g == Begin(s.preview)
    IN  IF p.file = None \/ shown
        THEN StopPickerLoad(s)
        ELSE Submit([s EXCEPT !.preview = g, !.picker.loading = TRUE],
                    p.tab, g.latest, "preview", p.nav, p.file)

\* open_navigation_picker
OpenPicker(s, inv, f) ==
    RequestPickerPreview(
        [s EXCEPT !.picker = [nav |-> inv.nav, tab |-> inv.tab, file |-> f,
                              loading |-> FALSE],
                  !.invocation = None])

\* apply_navigation_completion and reduce_protocol_locations, for an answer to the
\* invocation that is waited for (others are ignored): no target, one, or several
\* of which the picker selects one.
Answers == [kind : {"none"}] \cup [kind : {"one", "many"}, file : Documents]
ApplyAnswer(s, a) ==
    LET inv == s.invocation
        s1  == [s EXCEPT !.invocation = None]
    IN  CASE a.kind = "none" -> s1
          [] a.kind = "one"  -> AcceptTargetFor(s1, inv.tab, inv.nav, a.file)
          [] a.kind = "many" -> OpenPicker(s1, inv, a.file)

\* apply_navigation_stage_completion and install_navigation_snapshot
ApplyStage(s, t, c) ==
    LET st == s.stage[t]
        s1 == [s EXCEPT !.stage[t] = None]
        s2 == [s1 EXCEPT !.content[t] = [lines |-> "document", file |-> c.req.file,
                                         identity |-> c.req.file],
                         !.active = t]
    IN  IF st = None THEN s
        ELSE IF st.nav # c.req.nav \/ st.id # c.req.id \/ s.nav # c.req.nav
                \/ ~c.ok \/ c.req.file \notin Navigable
        THEN s1
        ELSE [CommitReveal(s2, c.req.file) EXCEPT !.active = s.active]

----------------------------------------------------------------------------------
(* Completions *)

\* apply_navigation_preview_completion: for the picker that asked.
ApplyPickerPreview(s, c) ==
    IF s.picker # None /\ s.picker.nav = c.req.nav /\ s.picker.file # None
    THEN [s EXCEPT !.picker.loading = FALSE] ELSE s

\* The tab a completion is for.
TargetTab(s, c) == c.req.key

\* Mutant: nothing is guarded.
GuardNothing(s, t) == FALSE

\* The edit guard of apply_content_completion.
EditGuard(s, t) == Open(s, t) /\ Editing(s, t)

\* apply_content_completion
ApplyContent(s, c) ==
    LET t == TargetTab(s, c)
        s1 == [s EXCEPT !.generation[t] = Accept(@, c.req.id)]
    IN  IF EditGuard(s, t) THEN s
        ELSE IF c.req.purpose = "preview"
        THEN IF Accepts(s.preview, c.req.id)
             THEN ApplyPickerPreview([s EXCEPT !.preview = Accept(@, c.req.id)], c)
             ELSE s
        ELSE IF ~Open(s, t) \/ ~Accepts(s.generation[t], c.req.id) THEN s
        ELSE IF c.req.purpose = "stage" THEN ApplyStage(s1, t, c)
        ELSE [s1 EXCEPT !.content[t] =
                IF c.ok THEN [lines |-> "document", file |-> c.req.file,
                              identity |-> c.req.file]
                ELSE [lines |-> "error", file |-> c.req.file, identity |-> None]]

\* Mutant: what is still loading is not loaded again.
ApplyRefreshShown(s, c) ==
    LET s1 == [s EXCEPT !.refresh = Accept(@, c.id), !.refreshError = ~c.ok] IN
    IF ~Accepts(s.refresh, c.id) THEN s
    ELSE IF ~c.ok \/ s.content[s.active].identity = None THEN s1
    ELSE LoadSelectedPreview(s1)

\* apply_refresh_completion and the end of apply_refresh_snapshot: a document with
\* a navigation source only gets its row selected, anything else is loaded again.
ApplyRefresh(s, c) ==
    LET s1 == [s EXCEPT !.refresh = Accept(@, c.id)]
        s2 == [s1 EXCEPT !.refreshError = FALSE]
        f  == s.content[s.active].identity
    IN  IF ~Accepts(s.refresh, c.id) THEN s
        ELSE IF ~c.ok THEN [s1 EXCEPT !.refreshError = TRUE]
        ELSE IF f \in Navigable \cap Files THEN [s2 EXCEPT !.selected[s.active] = f]
        ELSE LoadSelectedPreview(s2)

----------------------------------------------------------------------------------
(* What the user does: one action per key, with the gates of handle_key *)

Act(feature) ==
    /\ feature \in Features \cup {"select"}
    /\ steps < MaxSteps
    /\ steps' = steps + 1
    /\ UNCHANGED <<job, done, doneRefresh>>

\* The keys of the picker and of the editor never reach the tabs.
Free == ui.picker = None /\ ~Editing(ui, ui.active)
InEditor == ui.picker = None /\ Editing(ui, ui.active)
Doc == ui.content[ui.active]

\* j, k, Enter, a click: a row of the tree is selected and loaded.
SelectRow(row) ==
    /\ Act("select") /\ Free
    /\ ui' = LoadSelectedPreview([ui EXCEPT !.selected[ui.active] = row])

PressNewTab == Act("tabs") /\ Free /\ ui' = OpenTab(ui)

\* 1..9, Ctrl+Tab, a click on a tab.
PressTab(t) == Act("tabs") /\ Free /\ Open(ui, t) /\ ui' = ActivateTab(ui, t)

PressCloseTab(t) == Act("tabs") /\ Free /\ Open(ui, t) /\ ui' = CloseTab(ui, t)

\* r: request_refresh
PressRefresh ==
    LET s == CancelPendingNavigation(ui)
        g == Begin(s.refresh) IN
    /\ Act("refresh") /\ Free
    /\ ui' = [s EXCEPT !.refresh = g, !.slot = g.latest, !.refreshError = FALSE]

\* Ctrl+D, Ctrl+R, Ctrl+O on a document with a navigation source:
\* request_semantic_navigation.  There may be no token at the caret.
PressNavigate(token) ==
    LET s == NextNavigationGeneration(ui) IN
    /\ Act("navigate") /\ Free
    /\ Doc.identity \in Navigable
    /\ ui' = IF token THEN [s EXCEPT !.invocation = [nav |-> s.nav, tab |-> s.active]]
             ELSE s

\* Esc while a navigation is under way.
PressCancelNavigation ==
    /\ Act("navigate") /\ Free
    /\ ui.invocation # None \/ ui.stage[ui.active] # None
    /\ ui' = CancelPendingNavigation(ui)

\* move_navigation_picker: to a result, or to a group (None).
PickerMove(f) ==
    /\ Act("navigate") /\ ui.picker # None
    /\ ui' = RequestPickerPreview([ui EXCEPT !.picker.file = f])

\* close_navigation_picker
PickerClose ==
    /\ Act("navigate") /\ ui.picker # None
    /\ ui' = [CancelQueued(ui, ui.picker.tab) EXCEPT !.preview = Invalidate(@),
                                                     !.picker = None]

\* accept_navigation_picker_selection
PickerAccept ==
    LET p == ui.picker
        s == [CancelQueued(ui, p.tab) EXCEPT !.preview = Invalidate(@), !.picker = None]
    IN
    /\ Act("navigate") /\ p # None
    /\ p.file # None
    /\ ui' = AcceptTargetFor(s, p.tab, p.nav, p.file)

\* i: try_enter_edit_mode on a workspace document.
PressEdit ==
    LET t == ui.active IN
    /\ Act("edit") /\ Free
    /\ Doc.lines = "document" /\ Doc.identity \in Files
    /\ ui' = [InvalidateTab(ui, t) EXCEPT
                !.content[t].lines = "buffer", !.content[t].file = Doc.identity,
                !.edit[t] = "clean", !.edited[t] = Doc.identity]

EditorType ==
    /\ Act("edit") /\ InEditor
    /\ ui' = [ui EXCEPT !.edit[ui.active] = "dirty"]

\* save_edit_session, when the save succeeds.
EditorSave ==
    /\ Act("edit") /\ InEditor
    /\ Doc.identity \in Files
    /\ ui' = [ui EXCEPT !.edit[ui.active] = "saved"]

\* Esc (twice if dirty): exit_edit_mode_without_save restores the preview,
\* exit_edit_mode_after_save loads it again.
EditorExit ==
    LET t == ui.active
        s == [ui EXCEPT !.edit[t] = "none", !.edited[t] = None] IN
    /\ Act("edit") /\ InEditor
    /\ ui' = IF ui.edit[t] # "saved"
             THEN [s EXCEPT !.content[t].lines = "document",
                            !.content[t].file = ui.edited[t]]
             ELSE IF Doc.identity = None THEN s
             ELSE DispatchContentRequest(s, Doc.identity)

----------------------------------------------------------------------------------
(* Open requests of other processes: perform_instance_open.  No gate. *)

\* reveal_instance_path on the active Files tab, or on a new tab.
InstanceReveal(f, newTab) ==
    /\ Act("instance")
    /\ ui' = Reveal(IF newTab THEN OpenTab(ui) ELSE ui, f)

\* open_detached_instance_file
OpenDetached(s) ==
    LET s1 == OpenTab(s)
    IN  DispatchContentRequest([s1 EXCEPT !.selected[s1.active] = Outside], Outside)

InstanceOpenDetached == Act("instance") /\ ui' = OpenDetached(ui)

----------------------------------------------------------------------------------
(* The event loop and the worker *)

\* poll_background: the finished refresh, then the finished content in order, then
\* the answer of the language server if there is one.
Reduced ==
    FoldLeft(ApplyContent,
             IF doneRefresh = None THEN ui ELSE ApplyRefresh(ui, doneRefresh), done)

PollFinished ==
    /\ doneRefresh # None \/ done # <<>>
    /\ ui' = Reduced
    /\ done' = <<>> /\ doneRefresh' = None
    /\ UNCHANGED <<job, steps>>

PollAnswer ==
    /\ ui.invocation # None /\ Reduced.invocation # None
    /\ \E a \in Answers : ui' = ApplyAnswer(Reduced, a)
    /\ done' = <<>> /\ doneRefresh' = None
    /\ UNCHANGED <<job, steps>>

\* take_next_work: a refresh goes first.
WorkerStarts ==
    /\ job = None
    /\ \/ /\ ui.slot # 0
          /\ job' = [refresh |-> ui.slot]
          /\ ui' = [ui EXCEPT !.slot = 0]
       \/ /\ ui.slot = 0 /\ ui.queue # <<>>
          /\ job' = [content |-> Head(ui.queue)]
          /\ ui' = [ui EXCEPT !.queue = Tail(@)]
    /\ UNCHANGED <<done, doneRefresh, steps>>

WorkerFinishes(ok) ==
    /\ job # None
    /\ IF "refresh" \in DOMAIN job
       THEN doneRefresh' = [id |-> job.refresh, ok |-> ok] /\ done' = done
       ELSE done' = Append(done, [req |-> job.content, ok |-> ok])
            /\ doneRefresh' = doneRefresh
    /\ job' = None
    /\ UNCHANGED <<ui, steps>>

----------------------------------------------------------------------------------
Fresh == [latest |-> 0, applied |-> 0, loading |-> FALSE]

\* The first refresh has been applied: the first tab shows the default row.
Init ==
    /\ ui = LoadSelectedPreview([
            tabs |-> <<1>>, active |-> 1, nextTab |-> 2,
            generation |-> [t \in TabIds |-> Fresh],
            content |-> [t \in TabIds |-> [lines |-> "info", file |-> None,
                                           identity |-> None]],
            edit |-> [t \in TabIds |-> "none"],
            edited |-> [t \in TabIds |-> None],
            stage |-> [t \in TabIds |-> None],
            selected |-> [t \in TabIds |-> DefaultRow],
            nav |-> 0, invocation |-> None, picker |-> None,
            preview |-> Fresh, refresh |-> Fresh, refreshError |-> FALSE, queue |-> <<>>, slot |-> 0,
            wanted |-> [t \in TabIds |-> None]])
    /\ job = None /\ done = <<>> /\ doneRefresh = None
    /\ steps = 0

TabAction ==
    \/ PressNewTab
    \/ \E t \in TabIds : PressTab(t) \/ PressCloseTab(t)
    \/ \E row \in Files \cup {"dir"} : SelectRow(row)
    \/ PressRefresh

NavigationAction ==
    \/ \E token \in BOOLEAN : PressNavigate(token)
    \/ PressCancelNavigation
    \/ \E f \in Documents \cup {None} : PickerMove(f)
    \/ PickerClose
    \/ PickerAccept

EditAction == PressEdit \/ EditorType \/ EditorSave \/ EditorExit

InstanceAction ==
    \/ \E f \in Files, newTab \in BOOLEAN : InstanceReveal(f, newTab)
    \/ InstanceOpenDetached

BackgroundStep ==
    \/ PollFinished
    \/ PollAnswer
    \/ WorkerStarts
    \/ \E ok \in BOOLEAN : WorkerFinishes(ok)

Next == TabAction \/ NavigationAction \/ EditAction \/ InstanceAction \/ BackgroundStep

Spec == Init /\ [][Next]_vars

\* The event loop polls every frame and leaves nothing that is finished (fairness
\* of PollFinished, which alone empties both), the worker thread runs and its work
\* returns.  The language server need not answer, the user and other processes do
\* nothing they do not want to.
Fairness == /\ []<>(done = <<>> /\ doneRefresh = None)
            /\ WF_vars(WorkerStarts)
            /\ WF_vars(\E ok \in BOOLEAN : WorkerFinishes(ok))

FairSpec == Spec /\ Fairness

----------------------------------------------------------------------------------
(* Properties *)

TypeOK ==
    /\ ui \in UIState /\ ui.active \in ToSet(ui.tabs)
    /\ \A i \in 1..Len(done) : done[i].req \in Request

\* What is on its way to the UI: queued, executing or finished.
InFlight ==
    ToSet(ui.queue)
    \cup (IF job # None /\ "content" \in DOMAIN job THEN {job.content} ELSE {})
    \cup {done[i].req : i \in 1..Len(done)}

Awaited(t, purposes) ==
    \E r \in InFlight : r.key = t /\ r.id = ui.generation[t].latest
                        /\ r.purpose \in purposes

\* A poll, unlike any other step, leaves the worker and the user alone.
Polled == UNCHANGED <<job, steps>>

\* When finished work changes a tab to a document or an error, it is the one the
\* tab asked for last: a slow load never replaces a newer one, and never lands in
\* another tab, whatever was selected, opened, closed, staged or cancelled since.
ShowsNewest ==
    Polled => \A t \in ToSet(ui'.tabs) :
        ui'.content[t] # ui.content[t] /\ ui'.content[t].lines \in {"document", "error"}
           => ui'.content[t].file = ui'.wanted[t]

\* Finished content never touches the buffer of a tab in edit mode.
SparesEditBuffer ==
    Polled /\ doneRefresh = None => \A t \in ToSet(ui.tabs) :
        Editing(ui, t) => ui'.content[t] = ui.content[t]

\* A tab that shows "Loading f" has its request on the way: queueing, coalescing
\* and cancelling for one tab never strands another.  (A refresh does: see
\* LoadingMeansInFlight.)
LoadingTextIsAwaited ==
    \A t \in ToSet(ui.tabs) :
        ui.content[t].lines = "loading" => Awaited(t, {"display"})

\* A staged navigation that is still current has its load on the way.
StageIsAwaited ==
    \A t \in ToSet(ui.tabs) :
        ui.stage[t] # None /\ ui.stage[t].nav = ui.nav => Awaited(t, {"stage"})

\* A picker that says its preview is loading has that load on the way.
PickerPreviewIsAwaited ==
    ui.picker # None /\ ui.picker.loading
        => \E r \in InFlight : r.purpose = "preview" /\ r.id = ui.preview.latest
                               /\ r.file = ui.picker.file

ShowsLoading(t) == Open(ui, t) /\ ui.content[t].lines = "loading"

\* A refresh has withdrawn the load of the tab, and has failed or found another tab
\* active: it loads the active one again, and a tab of the background is loaded again
\* when it is activated.
Withdrawn(t) ==
    ~Awaited(t, {"display"}) /\ (ui.refreshError \/ ui.active # t)

\* A "Loading" text goes away: the load arrives, the tab shows something else or it is
\* closed.  A refresh may withdraw the load, and then the text stays only where the
\* refresh has failed, which the user is told, or until the tab is active again.  (In an edit session a
\* refresh may put the text in the place of the buffer: see EditBufferKept.)
LoadingEnds == \A t \in TabIds : ShowsLoading(t) ~> (~ShowsLoading(t) \/ Withdrawn(t))

----------------------------------------------------------------------------------
(* What documents and comments say and the code does not keep: see the README.    *)

\* is_any_content_loading, "Whether any tab (active or background) has a content
\* request in flight", says the truth.
LoadingMeansInFlight ==
    \A t \in ToSet(ui.tabs) :
        ui.generation[t].loading => Awaited(t, {"display", "stage"})

\* No "Loading" text stays for ever, whatever becomes of a refresh.
LoadingAlwaysEnds == \A t \in TabIds : ShowsLoading(t) ~> ~ShowsLoading(t)

\* The lines of a tab in edit mode are its edit buffer.
EditBufferKept ==
    \A t \in ToSet(ui.tabs) : Editing(ui, t) => ui.content[t].lines = "buffer"

\* A detached file never replaces what an open tab shows.
DetachedGetsOwnTab ==
    [][InstanceOpenDetached => \A t \in ToSet(ui.tabs) :
          ui'.content[t] = ui.content[t]]_vars
==================================================================================
