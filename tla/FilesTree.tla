------------------------------ MODULE FilesTree ------------------------------
(***************************************************************************)
(* The tree of All Files (app.rs, tree.rs): a snapshot of the workspace to *)
(* a bounded depth, replaced by every refresh; directories below it that   *)
(* are loaded when they are expanded or a path in them is revealed; and    *)
(* what each tab shows of it: its root, its expanded directories, its      *)
(* selected row.  The worker thread is that of WorkerRuntime, reduced to   *)
(* refreshes and directory loads.                                          *)
(***************************************************************************)
EXTENDS Integers, Sequences, FiniteSets, SequencesExt

CONSTANTS Nodes,        \* the paths of the workspace
          Top, None,    \* its root, and nothing
          Dirs, Links,  \* directories, and which of them are symbolic links
          Parent,       \* of every path
          Statuses,     \* paths Git reports, deleted ones among them
          Sources,      \* files that navigation reads
          ScanOrder,    \* all paths as a breadth-first walk meets them
          DisplayOrder, \* all paths in the order of the tree
          Tabs,         \* 1..n
          ScanDepth, ScanLimit,  \* of a refresh, and of each directory load
          MaxRefreshes, MaxChanges

TreeShape ==
    /\ Links \subseteq Dirs /\ Dirs \subseteq Nodes
    /\ Parent \in [Nodes -> Dirs \cup {Top}] /\ Top \notin Nodes /\ None \notin Nodes
    /\ Len(ScanOrder) = Cardinality(Nodes) /\ Len(DisplayOrder) = Cardinality(Nodes)

Ancestors[p \in Nodes] == IF Parent[p] = Top THEN {} ELSE {Parent[p]} \cup Ancestors[Parent[p]]
Depth(p) == 1 + Cardinality(Ancestors[p])
Under(p, d) == d = p \/ d \in Ancestors[p]
RQ == INSTANCE RequestQueues

VARIABLES
    disk,    \* the paths that exist
    changes, \* how often that changed
    tree,    \* entries, unloaded and loading directories, epoch
    tabs,    \* of each tab whether it is open, and its projection and content
    active,  \* the active tab
    reveal,  \* pending_all_scope_path and pending_all_scope_navigation
    refresh, \* the RequestGeneration of refreshes
    worker   \* requests, what runs, completions

vars == <<disk, changes, tree, tabs, active, reveal, refresh, worker>>

Nowhere == [path |-> None, nav |-> FALSE]

\* Tab::new; at is the selected row, content the file that is shown, or asked for.
NewTab == [open |-> FALSE, root |-> None, single |-> None, expanded |-> {}, collapsed |-> {},
           selection |-> None, at |-> 0, content |-> None, shown |-> FALSE]

Init ==
    /\ disk = Nodes /\ changes = 0
    /\ tree = [entries |-> {}, unloaded |-> {}, loading |-> {}, epoch |-> 0]
    /\ tabs = [t \in Tabs |-> [NewTab EXCEPT !.open = t = 1]]
    /\ active = 1 /\ reveal = Nowhere
    /\ refresh = RQ!Begin(RQ!NewGeneration)
    /\ worker = [asked |-> 1, queue |-> <<>>, job |-> None, snapshot |-> <<>>, loaded |-> <<>>]

-----------------------------------------------------------------------------
(* Scans of the disk (tree.rs) *)

Existing(p) == p \in disk /\ \A a \in Ancestors[p] : a \in disk

\* scan_with_depth: breadth first, not through links, and not past the limit; then the
\* paths of Git with their directories, as far down as the scan went.
Scan ==
    LET met == SelectSeq(ScanOrder, LAMBDA p : /\ Existing(p) /\ Depth(p) <= ScanDepth
                                              /\ Ancestors[p] \cap Links = {})
        cut == Len(met) > ScanLimit
        kept == {met[i] : i \in 1..(IF cut THEN ScanLimit ELSE Len(met))}
        at(p) == IF p = Top THEN 0 ELSE CHOOSE i \in 1..Len(ScanOrder) : ScanOrder[i] = p
        unread(d) == \/ Depth(d) = ScanDepth \/ d \in Links
                     \/ cut /\ at(d) >= at(Parent[met[ScanLimit + 1]])
        reported == {p \in Statuses \cup UNION {Ancestors[p] : p \in Statuses} :
                        Depth(p) <= ScanDepth}
        more == {d \in reported \ kept : d \in Dirs /\ Existing(d) /\ Depth(d) = ScanDepth} IN
    [entries |-> kept \cup reported,
     unloaded |-> {d \in kept \cap Dirs : unread(d)} \cup more]

\* scan_directory: the children alone, in the order of their names.
ScanDirectory(d) ==
    LET met == SelectSeq(ScanOrder, LAMBDA p : Parent[p] = d /\ Existing(p))
        kept == {met[i] : i \in 1..(IF Len(met) > ScanLimit THEN ScanLimit ELSE Len(met))} IN
    [entries |-> kept, unloaded |-> kept \cap Dirs]

-----------------------------------------------------------------------------
(* Parts of the steps of the UI thread: what becomes of its state u *)

State == [tree |-> tree, tabs |-> tabs, active |-> active, reveal |-> reveal,
          queue |-> worker.queue]

Become(u) ==
    /\ tree' = u.tree /\ tabs' = u.tabs /\ active' = u.active /\ reveal' = u.reveal
    /\ worker' = [worker EXCEPT !.queue = u.queue]

Tab(u) == u.tabs[u.active]

\* directory_is_expanded: what the tab does not know is collapsed only if it is unloaded.
Expanded(u, d) ==
    \/ d \in Tab(u).expanded
    \/ d \notin Tab(u).collapsed /\ d \notin u.tree.unloaded

\* rebuild_visible_rows.
Rows(u) ==
    LET root == Tab(u).root
        gates(p) == {a \in Ancestors[p] : root = None \/ root \in Ancestors[a]} IN
    SelectSeq(DisplayOrder, LAMBDA p :
        /\ p \in u.tree.entries
        /\ root = None \/ root \in Ancestors[p]
        /\ Tab(u).single \in {None, p}
        /\ \A a \in gates(p) : Expanded(u, a))

Submit(q, epoch, d) == RQ!SubmitDirectory(q, [key |-> [epoch |-> epoch, dir |-> d]])

\* request_directory_load, of each of ds.
Load(u, ds) ==
    LET wanted == SelectSeq(DisplayOrder,
                            LAMBDA d : d \in (ds \cap u.tree.unloaded) \ u.tree.loading) IN
    [u EXCEPT !.tree.loading = @ \cup ToSet(wanted),
              !.queue = FoldLeft(LAMBDA q, d : Submit(q, u.tree.epoch, d), @, wanted)]

Position(rows, p) == IF \E i \in 1..Len(rows) : rows[i] = p
                       THEN CHOOSE i \in 1..Len(rows) : rows[i] = p ELSE 0

\* The row of the path, or of the deepest directory above it that has one, or the first.
Deepest(rows, S) ==
    IF S # {} THEN CHOOSE i \in S : \A j \in S : Depth(rows[j]) <= Depth(rows[i])
    ELSE IF rows = <<>> THEN 0 ELSE 1
RowAmong(rows, p) ==
    Deepest(rows, {i \in 1..Len(rows) : p # None /\ Under(p, rows[i])})
RowFor(u, p) == RowAmong(Rows(u), p)

\* The selected row, remembered.
MarkRow(u, rows, at) ==
    [u EXCEPT !.tabs[u.active].at = at,
              !.tabs[u.active].selection = IF at = 0 THEN None ELSE rows[at]]
MarkAmong(u, rows, i) == MarkRow(u, rows, IF i > Len(rows) THEN Len(rows) ELSE i)
Mark(u, i) == MarkAmong(u, Rows(u), i)

\* select_optional: what is selected is asked for; a directory leaves the file that is
\* shown.
Ask(u, p) ==
    IF p \in Dirs /\ Tab(u).shown THEN u
    ELSE [u EXCEPT !.tabs[u.active].content = IF p \in Dirs THEN None ELSE p,
                   !.tabs[u.active].shown = FALSE]
AskSelected(u) == Ask(u, Tab(u).selection)
Select(u, i) == AskSelected(Mark(u, i))

Restore(u) == Select(u, RowFor(u, Tab(u).selection))

\* What stands for navigation_source: the file, once it has been read.
Source(t) == IF t.shown /\ t.content \in Sources THEN t.content ELSE None

\* reveal_all_files_selection and reveal_navigation_tree_selection: the tab is widened
\* until the path can have a row, its directories are expanded and loaded, and it stays
\* pending while one of them is.
Widened(t, p) ==
    [t EXCEPT !.root = IF @ # None /\ ~Under(p, @) THEN None ELSE @,
              !.single = IF @ = p THEN @ ELSE None,
              !.expanded = @ \cup Ancestors[p],
              !.collapsed = @ \ Ancestors[p]]
Arrived(u, rows, p, nav) ==
    [(IF nav THEN MarkAmong(u, rows, RowAmong(rows, p))
      ELSE AskSelected(MarkAmong(u, rows, RowAmong(rows, p)))) EXCEPT !.reveal =
        IF Position(rows, p) > 0 \/ ~\E d \in u.tree.loading : Under(p, d) THEN Nowhere
        ELSE [path |-> p, nav |-> nav]]
Settle(u, p, nav) == Arrived(u, Rows(u), p, nav)
Reveal(u, p, nav) ==
    Settle(Load([u EXCEPT !.tabs[u.active] = Widened(@, p)], {d \in Dirs : Under(p, d)}), p, nav)

\* The active tab knows every directory, and none that is gone: a new one is collapsed.
Reconcile(u) ==
    LET dirs == u.tree.entries \cap Dirs IN
    [u EXCEPT !.tabs[u.active].expanded = @ \cap dirs,
              !.tabs[u.active].collapsed = dirs \ Tab(u).expanded]

\* Where the selection goes when the tree has changed.
Wanted(u) == IF Source(Tab(u)) # None THEN [path |-> Source(Tab(u)), nav |-> TRUE] ELSE u.reveal
Resettle(u) ==
    IF Wanted(u).path = None THEN Restore(u) ELSE Reveal(u, Wanted(u).path, Wanted(u).nav)

-----------------------------------------------------------------------------
(* Completions *)

\* reconcile_view_root_after_refresh, of the active tab.
KeepRoot(u) ==
    LET t == Tab(u) IN
    IF t.single # None
      THEN IF Existing(t.single) THEN u ELSE [u EXCEPT !.tabs[u.active].single = None]
    ELSE IF t.root = None THEN u
    ELSE IF Existing(t.root) THEN Load(u, {t.root})
    ELSE [u EXCEPT !.tabs[u.active].root = None]

Snapshot(u, scan) ==
    [u EXCEPT !.tree = [entries |-> scan.entries, unloaded |-> scan.unloaded,
                        loading |-> {}, epoch |-> u.tree.epoch + 1]]

\* apply_refresh_snapshot: the directories that were expanded are loaded again.
ApplySnapshot(u, scan) ==
    LET reload(v) == Load(v, Tab(v).expanded)
        top(v) == [v EXCEPT !.tabs[u.active].at = 0] IN
    Resettle(top(reload(Reconcile(KeepRoot(Snapshot(u, scan))))))

\* Mutants: what was loaded is selected; the index of the selected row is left alone.
ResettleOnLoaded(u, d) == Select(u, RowFor(u, d))
ResettleOnReveal(u, d) == IF u.reveal.path = None THEN u ELSE Resettle(u)

Current(u, c) == c.epoch = u.tree.epoch
ResettleAfter(u, d) == Resettle(u)

\* apply_directory_completion: one of another epoch is dropped, a failed load can be
\* tried again.
ApplyDirectory(u, c) ==
    IF ~Current(u, c) THEN u
    ELSE IF c.scan = <<>> THEN [u EXCEPT !.tree.loading = @ \ {c.dir}]
    ELSE ResettleAfter(
            Reconcile([u EXCEPT
                !.tree.loading = @ \ {c.dir},
                !.tree.unloaded = (@ \ {c.dir}) \cup c.scan[1].unloaded,
                !.tree.entries = @ \cup c.scan[1].entries]),
            c.dir)

TakesSnapshot ==
    worker.snapshot # <<>> /\ RQ!Accepts(refresh, worker.snapshot[1].generation)
Refreshed ==
    IF TakesSnapshot /\ worker.snapshot[1].scan # <<>>
      THEN ApplySnapshot(State, worker.snapshot[1].scan[1]) ELSE State

\* poll_background: a refresh that is still wanted, then the directories.
Poll ==
    /\ worker.snapshot # <<>> \/ worker.loaded # <<>>
    /\ \E v \in {FoldLeft(ApplyDirectory, Refreshed, worker.loaded)} :
        /\ tree' = v.tree /\ tabs' = v.tabs /\ active' = v.active /\ reveal' = v.reveal
        /\ worker' = [worker EXCEPT !.queue = v.queue, !.snapshot = <<>>, !.loaded = <<>>]
    /\ refresh' = IF TakesSnapshot THEN RQ!Accept(refresh, worker.snapshot[1].generation)
                 ELSE refresh
    /\ UNCHANGED <<disk, changes>>

\* The file that was asked for has been read, if it is there.
ContentArrives ==
    LET t == tabs[active] IN
    /\ t.content # None /\ ~t.shown
    /\ tabs' = [tabs EXCEPT ![active].shown = Existing(t.content),
                            ![active].content = IF Existing(@) THEN @ ELSE None]
    /\ UNCHANGED <<disk, changes, tree, active, reveal, refresh, worker>>

-----------------------------------------------------------------------------
(* The user *)

Acts(u) == Become(u) /\ UNCHANGED <<disk, changes, refresh>>
Settled(u) == [u EXCEPT !.reveal = Nowhere]

\* select: a key, a click, a typed prefix.
Move == \E i \in 1..Len(Rows(State)) : i # tabs[active].at /\ Acts(Select(Settled(State), i))

\* toggle_selected_directory.
Toggle ==
    LET d == tabs[active].selection
        was == Expanded(State, d)
        u == [Settled(State) EXCEPT
                 !.tabs[active].expanded = IF was THEN @ \ {d} ELSE @ \cup {d},
                 !.tabs[active].collapsed = IF was THEN @ \cup {d} ELSE @ \ {d}] IN
    /\ tabs[active].at > 0 /\ d \in Dirs
    /\ Acts(Select(IF was THEN u ELSE Load(u, {d}),
                   RowFor(IF was THEN u ELSE Load(u, {d}), d)))

\* set_tab_root, and tab_root_up to a directory below the top.
SetRoot(d) ==
    /\ d \in tree.entries \cap (Dirs \ Links) /\ tabs[active].root # d
    /\ LET u == Load([State EXCEPT !.tabs[active].root = d, !.tabs[active].single = None], {d}) IN
       Acts(Select(u, RowFor(u, None)))

\* reset_tab_root, and tab_root_up from just below the top.
ResetRoot ==
    /\ tabs[active].root # None \/ tabs[active].single # None
    /\ LET u == [State EXCEPT !.tabs[active].root = None, !.tabs[active].single = None] IN
       Acts(Select(u, RowFor(u, None)))

\* A search result, the path of another instance, a file of another program.
RevealPath(p) == Acts(Reveal(State, p, FALSE))

\* commit_navigation shows a file that the tree may not have.
Navigate(p) ==
    /\ p \in Sources
    /\ Acts(Reveal([State EXCEPT !.tabs[active].content = p, !.tabs[active].shown = TRUE], p, TRUE))

\* activate_tab and open_tab between tabs of files: populate_tab_projection.
Enter(t, was) ==
    Acts(Restore([State EXCEPT !.active = t, !.tabs = [was EXCEPT ![t].at = 0, ![t].open = TRUE]]))

ActivateTab(t) == t # active /\ tabs[t].open /\ Enter(t, tabs)
OpenTab(t) == ~tabs[t].open /\ Enter(t, tabs)
CloseTab(t) == /\ t # active /\ tabs[t].open /\ tabs[active].open
               /\ Enter(t, [tabs EXCEPT ![active] = NewTab])

\* request_refresh.
RequestRefresh ==
    /\ refresh.latest < MaxRefreshes
    /\ refresh' = RQ!Begin(refresh)
    /\ worker' = [worker EXCEPT !.asked = refresh'.latest]
    /\ UNCHANGED <<disk, changes, tree, tabs, active, reveal>>

-----------------------------------------------------------------------------
(* The worker, and other programs *)

\* take_next_work: refreshes first, one job at a time.
Start ==
    /\ worker.job = None
    /\ \/ /\ worker.asked > 0
          /\ worker' = [worker EXCEPT !.asked = 0, !.job = [refresh |-> worker.asked]]
       \/ /\ worker.asked = 0 /\ worker.queue # <<>>
          /\ worker' = [worker EXCEPT !.queue = Tail(@), !.job = Head(worker.queue).key]
    /\ UNCHANGED <<disk, changes, tree, tabs, active, reveal, refresh>>

\* A scan that fails has no result.
Finish ==
    /\ worker.job # None
    /\ IF "refresh" \in DOMAIN worker.job
         THEN \E scan \in {<<>>, <<Scan>>} :
                worker' = [worker EXCEPT !.job = None,
                    !.snapshot = <<[generation |-> worker.job.refresh, scan |-> scan]>>]
         ELSE \E scan \in {<<>>} \cup (IF Existing(worker.job.dir)
                                         THEN {<<ScanDirectory(worker.job.dir)>>} ELSE {}) :
                worker' = [worker EXCEPT !.job = None,
                    !.loaded = Append(@, [epoch |-> worker.job.epoch, dir |-> worker.job.dir,
                                          scan |-> scan])]
    /\ UNCHANGED <<disk, changes, tree, tabs, active, reveal, refresh>>

DiskChanges(p) ==
    /\ changes < MaxChanges
    /\ changes' = changes + 1
    /\ disk' = IF p \in disk THEN {q \in disk : ~Under(q, p)} ELSE disk \cup {p}
    /\ Parent[p] = Top \/ Parent[p] \in disk
    /\ UNCHANGED <<tree, tabs, active, reveal, refresh, worker>>

-----------------------------------------------------------------------------
Next ==
    \/ Poll \/ ContentArrives \/ Move \/ Toggle \/ ResetRoot \/ RequestRefresh
    \/ Start \/ Finish
    \/ \E p \in Nodes : SetRoot(p) \/ RevealPath(p) \/ Navigate(p) \/ DiskChanges(p)
    \/ \E t \in Tabs : ActivateTab(t) \/ OpenTab(t) \/ CloseTab(t)

Spec == Init /\ [][Next]_vars

-----------------------------------------------------------------------------
(* Properties *)

\* A directory that is shown as loading has a request of this epoch on its way.
LoadingIsAwaited ==
    \A d \in tree.loading :
        LET k == [epoch |-> tree.epoch, dir |-> d] IN
        \/ \E i \in 1..Len(worker.queue) : worker.queue[i].key = k
        \/ worker.job = k
        \/ \E i \in 1..Len(worker.loaded) : worker.loaded[i].epoch = tree.epoch
                                            /\ worker.loaded[i].dir = d

\* The tree is one snapshot and what was loaded below it: no entry without its
\* directory, no unloaded or loading directory that is not an entry, and none that has
\* been loaded is loaded again.
EntriesHang ==
    /\ \A p \in tree.entries : Parent[p] \in tree.entries \cup {Top}
    /\ tree.loading \subseteq tree.unloaded /\ tree.unloaded \subseteq tree.entries

\* The row that is highlighted is the path that is remembered.
SelectionIsRow ==
    LET rows == Rows(State)
        t == tabs[active] IN
    IF t.at = 0 THEN t.selection = None \/ tree.epoch = 0
                ELSE t.at <= Len(rows) /\ t.selection = rows[t.at]

\* A completed load does not move the selection of a tab that knows its directories,
\* shows no file and reveals nothing.
QuietLoadKeepsSelection ==
    [][LET t == tabs[active] IN
       (/\ tree' # tree /\ tree'.epoch = tree.epoch /\ worker'.loaded # worker.loaded
        /\ Source(t) = None /\ reveal.path = None /\ t.at > 0
        /\ tree.entries \cap Dirs \subseteq t.expanded \cup t.collapsed)
       => tabs'[active].selection = t.selection]_vars

-----------------------------------------------------------------------------
(* What the code says of itself and does not keep: see the README *)

\* The load of a directory leaves the selection where it is.
LoadKeepsSelection ==
    [][(/\ tree' # tree /\ tree'.epoch = tree.epoch /\ worker'.loaded # worker.loaded
        /\ reveal.path = None)
       => tabs'[active].selection = tabs[active].selection]_vars

\* A path that is to be revealed waits for the load of a directory above it.
PendingIsAwaited ==
    reveal.path # None => \E d \in tree.loading : Under(reveal.path, d)

\* A refresh of a workspace that has not changed leaves the rows of the tab alone.
RefreshKeepsRows ==
    [][tree'.epoch > tree.epoch /\ tree'.entries = tree.entries /\ reveal = Nowhere
         /\ Source(tabs[active]) = None
       => ToSet(Rows(State)) \subseteq ToSet(Rows(State)')]_vars
==============================================================================
