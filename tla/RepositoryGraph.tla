---------------------------- MODULE RepositoryGraph ----------------------------
(* The repositories of a workspace and the tree of changes made from them.        *)
(*                                                                                *)
(* A refresh looks for Git worktrees: in what contains the workspace, and breadth *)
(* first below it, through links, within limits.  Submodules are read from their  *)
(* parents, every repository is placed under the one that contains it, and what   *)
(* Git reports twice, once by each side of a boundary, is given to one of them.   *)
(* The review scope shows the result as rows, keeps what is expanded, selected,   *)
(* ignored and reviewed across refreshes, and marks diffs as reviewed.            *)
(*                                                                                *)
(* A path is the sequence of its names, and a name is a number, so that names     *)
(* have an order.  A marker is the .git of a directory: a repository, a file that *)
(* points to one, a file that points nowhere, a repository that Git refuses, or a *)
(* directory that holds nothing and that Git does not see.                        *)
EXTENDS Integers, Sequences, SequencesExt, FiniteSets, FiniteSetsExt

CONSTANTS
    Top,             \* the workspace
    Dirs,            \* the directories there are, by their real paths
    Links,           \* the links to directories: from their paths to what they name
    Files,           \* the files that may change, by their real paths
    Tracked,         \* the files that an outer repository tracks: <<repository, file>>
    Disks,           \* the disks to start from
    ShallowDepth,    \* how deep a first refresh looks for repositories
    MaxDepth,        \* DEFAULT_MAX_DISCOVERY_DEPTH
    MaxEntries,      \* DEFAULT_MAX_DISCOVERY_ENTRIES
    MaxRepositories, \* DEFAULT_MAX_REPOSITORIES
    MaxActions,      \* bound: what the user does
    MaxChanges,      \* bound: changes of files
    None             \* no repository, no relation, no row, no request

Markers == {"none", "directory", "file", "stale", "corrupt", "empty"}
Usable  == {"directory", "file"}

\* disk: marker of each directory; the paths each .gitmodules declares, <<>> for one that
\* is not safe, or None if it cannot be read; the submodules whose commit moved; the
\* repositories whose status cannot be read; the version of each file, 0 if unchanged; and
\* the number of changes made.
VARIABLES disk, view, request, completed, actions
vars == <<disk, view, request, completed, actions>>

------------------------------------------------------------------------------
\* Paths

Parent(p)    == SubSeq(p, 1, Len(p) - 1)
Rest(p, top) == SubSeq(p, Len(top) + 1, Len(p))
Longest(S)   == CHOOSE p \in S : \A q \in S : Len(q) <= Len(p)

Before(p, q) ==
    LET differ == {i \in 1 .. Min({Len(p), Len(q)}) : p[i] # q[i]}
    IN  IF differ = {} THEN Len(p) < Len(q) ELSE p[Min(differ)] < q[Min(differ)]

\* compare_tree_paths: at every level directories come first.  An item is a path and
\* whether it is a directory.
TreeBefore(a, b) ==
    LET p == a.path
        q == b.path
        differ == {i \in 1 .. Min({Len(p), Len(q)}) : p[i] # q[i]}
        i == Min(differ)
        DirAt(x) == i < Len(x.path) \/ x.dir
    IN  IF differ = {} THEN Len(p) < Len(q) \/ (Len(p) = Len(q) /\ a.dir /\ ~b.dir)
        ELSE IF DirAt(a) # DirAt(b) THEN DirAt(a) ELSE p[i] < q[i]

RECURSIVE Real(_)
Real(p) ==
    LET links == {q \in DOMAIN Links : IsPrefix(q, p)}
    IN  IF links = {} THEN p
        ELSE LET q == CHOOSE q \in links : \A r \in links : Len(q) <= Len(r)
             IN  Real(Links[q] \o Rest(p, q))

------------------------------------------------------------------------------
\* What Git says

Above(d, p) == {q \in Dirs : IsPrefix(q, p) /\ d.marker[q] \notin {"none", "empty"}}

\* GitRepo::inspect: the repository that a directory lies in, if it can be used.
Inspect(d, p) ==
    IF Above(d, p) # {} /\ d.marker[Longest(Above(d, p))] \in Usable
    THEN Longest(Above(d, p)) ELSE None

\* The repository that Git takes a path to belong to, also if it refuses it.
Boundary(d, p) ==
    LET around == {q \in Above(d, p) : d.marker[q] \in Usable \cup {"corrupt"}}
    IN  IF around = {} THEN None ELSE Longest(around)

\* The submodules in the index of a repository; none lies beyond a link.
Declares(d, r) ==
    IF d.modules[r] = None THEN {}
    ELSE {p \in {r \o q : q \in Range(d.modules[r]) \ {<<>>}} : Real(p) = p}

\* git status --untracked-files=all of a repository: its files that changed, with those
\* it tracks on the other side of a boundary; the repositories right below it that it
\* neither tracks files of nor declares; and its submodules that are not as recorded.
Status(d, r) ==
    LET Entry(p, kind, moved, version) ==
            [path |-> Rest(p, r), kind |-> kind, moved |-> moved, version |-> version]
        files   == {f \in Files : /\ d.version[f] > 0
                                  /\ Boundary(d, f) = r \/ <<r, f>> \in Tracked
                                  /\ \A s \in Declares(d, r) : ~IsPrefix(s, f)}
        nested  == {p \in Dirs \ {r} : Boundary(d, p) = p /\ Boundary(d, Parent(p)) = r
                                       /\ p \notin Declares(d, r)
                                       /\ \A f \in Files : <<r, f>> \in Tracked => ~IsPrefix(p, f)}
        Dirty(s) == \E f \in Files : d.version[f] > 0 /\ Boundary(d, f) = s
        links   == {s \in Declares(d, r) \ {r} : s \in d.moved \/ Dirty(s)}
    IN  {Entry(f, IF <<r, f>> \in Tracked THEN "tracked" ELSE "untracked", FALSE,
               d.version[f]) : f \in files}
        \cup {Entry(p, "untracked", FALSE, 0) : p \in nested}
        \cup {Entry(s, "gitlink", s \in d.moved, 0) : s \in links}

------------------------------------------------------------------------------
\* Discovery: the containing repository, then the directories below the workspace

\* stale_marker_shape, report_unusable_marker
Unusable(d, s, dir) ==
    IF d.marker[dir] \in {"stale", "empty"} THEN [s EXCEPT !.warnings = Append(@, dir)]
    ELSE [s EXCEPT !.errors = Append(@, dir)]

\* add_candidate
AddCandidate(d, s, root, access, via) ==
    IF \E c \in Range(s.found) : c.id = root THEN s
    ELSE IF Len(s.found) = MaxRepositories
    THEN [s EXCEPT !.truncated = @ \cup {"repositories"}, !.stop = TRUE]
    ELSE [s EXCEPT !.found = Append(@, [id |-> root, access |-> access, via |-> via])]

\* discover_containing_repository
Containing(d, s) ==
    LET root == Inspect(d, Top)
        marked == {q \in Dirs \ {Top} : IsPrefix(q, Top) /\ d.marker[q] # "none"}
    IN  IF root = Top THEN s
        ELSE IF root # None THEN AddCandidate(d, s, root, root, FALSE)
        ELSE IF d.marker[Top] = "none" /\ marked # {} THEN Unusable(d, s, Longest(marked))
        ELSE s

\* discover_exact_repository
Probe(d, s, here) ==
    IF d.marker[here.dir] = "none" THEN s
    ELSE IF Inspect(d, here.dir) = here.dir
    THEN AddCandidate(d, s, here.dir, here.access, here.via)
    ELSE IF Inspect(d, here.dir) # None THEN s
    ELSE Unusable(d, s, here.dir)

\* The directories in a directory, by name; a link to a directory is one of them.
Names(dir) == SetToSortSeq({Last(p) : p \in {q \in Dirs \cup DOMAIN Links :
                                               q # <<>> /\ Parent(q) = dir}}, <)

\* One of them: it counts, also if it was seen before, and waits to be visited.
Enqueue(s, here, name, depth) ==
    LET path == Append(here.dir, name)
        real == Real(path)
        s1   == [s EXCEPT !.entries = @ + 1, !.visited = @ \cup {real}]
    IN  IF s.full THEN s
        ELSE IF s.entries = MaxEntries
        THEN [s EXCEPT !.truncated = @ \cup {"entries"}, !.full = TRUE]
        ELSE IF real \in s.visited THEN s1
        ELSE IF here.depth = depth THEN [s1 EXCEPT !.truncated = @ \cup {"depth"}]
        ELSE [s1 EXCEPT !.queue = Append(@,
                  [dir |-> real, access |-> Append(here.access, name),
                   depth |-> here.depth + 1, via |-> here.via \/ path \in DOMAIN Links])]

\* walk_workspace: once the cap is reached, what waits is probed and no longer opened.
RECURSIVE Walk(_, _, _)
Walk(d, s, depth) ==
    IF s.queue = <<>> \/ s.stop THEN s
    ELSE LET here == Head(s.queue)
             s1   == Probe(d, [s EXCEPT !.queue = Tail(@)], here)
         IN  Walk(d, IF s1.full \/ s1.stop THEN s1
                     ELSE FoldLeft(LAMBDA t, name : Enqueue(t, here, name, depth),
                                   s1, Names(here.dir)),
                  depth)

Discovery(d, depth) ==
    Walk(d, Containing(d,
        [found |-> <<>>, errors |-> <<>>, warnings |-> <<>>, truncated |-> {},
         entries |-> 0, visited |-> {Top}, full |-> FALSE, stop |-> FALSE,
         queue |-> <<[dir |-> Top, access |-> Top, depth |-> 0, via |-> FALSE]>>]), depth)

------------------------------------------------------------------------------
\* build_graph

Within(access) == IF IsPrefix(Top, access) THEN Rest(access, Top) ELSE None

Kind(d, c) ==
    IF c.id = Top THEN "root"
    ELSE IF c.via THEN "symlinked"
    ELSE IF ~IsPrefix(Top, c.id) THEN "containing"
    ELSE IF d.marker[c.id] = "file" THEN "linked" ELSE "nested"

Node(id, kind, within, usable) ==
    [id |-> id, kind |-> kind, within |-> within, usable |-> usable, relation |-> None,
     failed |-> FALSE, changes |-> {}, suppressed |-> {}]

\* One declared submodule: an existing repository or a placeholder.  The first parent
\* that declares it keeps it.
Declare(s, c, path) ==
    LET declared == c.id \o path
        last     == Append(Real(Parent(declared)), Last(declared))
        id       == IF Real(declared) \in Dirs THEN Real(declared) ELSE declared
        known    == \E n \in Range(s.nodes) : n.id = id /\ n.usable
        Error(p) == [s EXCEPT !.errors = Append(@, p)]
        s1 == IF known
              THEN [s EXCEPT !.nodes = [i \in DOMAIN @ |->
                       IF @[i].id = id /\ @[i].usable
                       THEN [@[i] EXCEPT !.kind = "submodule"] ELSE @[i]]]
              ELSE [s EXCEPT !.nodes = Append(@,
                       Node(id, "placeholder", Within(c.access \o path), FALSE))]
        parents == {l \in s.links : l.child = id}
    IN  IF path = <<>> THEN Error(c.id)
        ELSE IF last \in DOMAIN Links THEN Error(declared)
        ELSE IF ~IsPrefix(Top, id) /\ ~IsPrefix(c.id, id) THEN Error(id)
        ELSE IF ~known /\ Len(s.nodes) = MaxRepositories
        THEN [s EXCEPT !.truncated = @ \cup {"repositories"}]
        ELSE IF parents = {}
        THEN [s1 EXCEPT !.links = @ \cup {[child |-> id, parent |-> c.id, path |-> path]}]
        ELSE IF \E l \in parents : l.parent # c.id
        THEN [s1 EXCEPT !.errors = Append(@, id)]
        ELSE s1

Submodules(d, s, c) ==
    IF d.modules[c.id] = None THEN [s EXCEPT !.errors = Append(@, c.id)]
    ELSE FoldLeft(LAMBDA t, path : Declare(t, c, path), s, d.modules[c.id])

\* A submodule belongs to its parent, any other repository to the nearest one around it.
Related(s, n) ==
    LET links  == {l \in s.links : l.child = n.id}
        around == {m.id : m \in {k \in Range(s.nodes) :
                                     k.usable /\ k.id # n.id /\ IsPrefix(k.id, n.id)}}
        Relation(parent, path, submodule) ==
            [parent |-> parent, path |-> path, submodule |-> submodule, change |-> None]
    IN  IF links # {}
        THEN LET l == CHOOSE l \in links : TRUE
             IN  [n EXCEPT !.kind = IF n.usable THEN "submodule" ELSE "placeholder",
                           !.relation = Relation(l.parent, l.path, TRUE)]
        ELSE IF around = {} THEN n
        ELSE [n EXCEPT !.relation =
                 Relation(Longest(around), Rest(n.id, Longest(around)), FALSE)]

\* snapshot; of a containing repository only what lies in the workspace.
Snapshot(d, n) ==
    IF ~n.usable THEN n
    ELSE IF n.id \in d.failing THEN [n EXCEPT !.failed = TRUE]
    ELSE [n EXCEPT !.changes =
             {c \in Status(d, n.id) : n.kind = "containing" => IsPrefix(Rest(Top, n.id), c.path)}]

\* Mutant: a parent keeps what it reports of the repositories below it.
RelateSubmodules(nodes, i) ==
    LET r == nodes[i].relation
        entry == {c \in UNION {n.changes : n \in {m \in Range(nodes) : m.id = r.parent}} :
                     c.path = r.path}
    IN  IF r = None \/ entry = {} \/ ~r.submodule THEN nodes
        ELSE [nodes EXCEPT ![i].relation.change = CHOOSE c \in entry : TRUE]

\* apply_relationship_status for one repository: what its parent reports below it is
\* taken from the parent, and the entry of a submodule is only looked up.
Relate(nodes, i) ==
    LET r == nodes[i].relation
        p == IF r = None THEN 0 ELSE Max({k \in DOMAIN nodes : nodes[k].id = r.parent})
        below == {c \in nodes[p].changes : IsPrefix(r.path, c.path)}
        entry == {c \in nodes[p].changes : c.path = r.path}
    IN  IF p = 0 THEN nodes
        ELSE IF r.submodule
        THEN [nodes EXCEPT ![i].relation.change =
                 IF entry = {} THEN None ELSE CHOOSE c \in entry : TRUE]
        ELSE [nodes EXCEPT ![p].changes = @ \ below, ![p].suppressed = @ \cup below]

\* The repositories that were found, in order, and the submodules they declare
Declared(d, s, found) ==
    FoldLeft(LAMBDA t, c : Submodules(d, t, c),
        [nodes |-> [i \in DOMAIN found |-> Node(found[i].id, Kind(d, found[i]),
                                                Within(found[i].access), TRUE)],
         links |-> {}, errors |-> s.errors, warnings |-> s.warnings,
         truncated |-> s.truncated], found)

Snapshots(d, s) ==
    LET nodes == SortSeq(s.nodes, LAMBDA a, b : Before(a.id, b.id))
    IN  [i \in DOMAIN nodes |-> Snapshot(d, Related(s, nodes[i]))]

Joined(s, shots) ==
    [nodes |-> FoldLeft(Relate, shots, [i \in DOMAIN shots |-> i]),
     details |-> UNION {{[repo |-> n.id, path |-> c.path, version |-> c.version] :
                            c \in n.changes} : n \in Range(shots)},
     errors |-> s.errors, warnings |-> s.warnings, truncated |-> s.truncated]

Assembled(d, s) == Joined(s, Snapshots(d, s))
Build(d, s) ==
    Assembled(d, Declared(d, s, SortSeq(s.found, LAMBDA a, b : Before(a.id, b.id))))
Graph(d, depth) == Build(d, Discovery(d, depth))

\* The entries that a parent has of its submodules, and those of them whose commit moved.
Pointers(g, moved) ==
    {[repo |-> n.relation.parent, path |-> n.relation.path] : n \in {m \in Range(g.nodes) :
        /\ m.relation # None /\ m.relation.change # None
        /\ moved => m.relation.change.moved}}

\* The changes a repository shows as rows of its own.
Shown(g, n) == {c \in n.changes : [repo |-> n.id, path |-> c.path] \notin Pointers(g, FALSE)}

\* projected_change_count
ProjectedCount(g) ==
    Cardinality(UNION {{<<n.id, c>> : c \in Shown(g, n)} : n \in Range(g.nodes)})
    + Cardinality(Pointers(g, TRUE))

------------------------------------------------------------------------------
\* build_git_rows

Id(type, repo, path) == [type |-> type, repo |-> repo, path |-> path]
Row(id, up) == [id |-> id, up |-> up]
IsContainer(row) == row.id.type \in {"repository", "directory", "virtual"}
IsChange(row)    == row.id.type \in {"change", "pointer"}

Around(p) == Prefixes(p) \ {<<>>}

\* append_change_rows: the changes and the directories they lie in, of a containing
\* repository below the workspace alone.
ChangeRows(g, n, up) ==
    LET hidden == IF n.kind = "containing" THEN Len(Top) - Len(n.id) ELSE 0
        Place(p) == SubSeq(p, hidden + 1, Len(p))
        changes == {[path |-> Place(c.path), dir |-> FALSE] : c \in Shown(g, n)}
        dirs    == {[path |-> p, dir |-> TRUE] :
                       p \in UNION {Around(Parent(c.path)) : c \in changes}}
        items   == SetToSortSeq(changes \cup dirs, TreeBefore)
        Dir(p)  == Id("directory", n.id, p)
        Outer(p) == [k \in 1 .. Len(p) - 1 |-> Dir(SubSeq(p, 1, k))]
    IN  [i \in DOMAIN items |->
            Row(IF items[i].dir THEN Dir(items[i].path)
                ELSE Id("change", n.id, SubSeq(Rest(Top, n.id), 1, hidden) \o items[i].path),
                up \o Outer(items[i].path))]

Children(g, id) ==
    SetToSortSeq({n.id : n \in {m \in Range(g.nodes) : m.relation # None /\ m.relation.parent = id}},
                 Before)

\* append_repository_rows; of nodes with one identity the last is shown.
RECURSIVE RepositoryRows(_, _, _)
RepositoryRows(g, id, up) ==
    LET n == g.nodes[Max({i \in DOMAIN g.nodes : g.nodes[i].id = id})]
        below == Append(up, Id("repository", id, <<>>))
        r == n.relation
        pointer == IF r # None /\ r.submodule /\ r.change # None /\ r.change.moved
                   THEN <<Row(Id("pointer", r.parent, r.path), below)>> ELSE <<>>
        kids == Children(g, id)
    IN  <<Row(Id("repository", id, <<>>), up)>> \o pointer \o ChangeRows(g, n, below)
        \o FlattenSeq([i \in DOMAIN kids |-> RepositoryRows(g, kids[i], below)])

\* The repositories under no other, and where they are in the workspace, if they are.
Roots(g) == {n \in Range(g.nodes) : n.relation = None}
Placed(g) == {n \in Roots(g) : n.within \notin {None, <<>>}}
TrieNodes(g) == UNION {Around(n.within) : n \in Placed(g)}
RepositoryAt(g, p) == {n.id : n \in {m \in Placed(g) : m.within = p}}

\* is_ignored_error_path
Ignored(ignored, p) == \E q \in ignored : IsPrefix(q, Real(p))

Issues(g, ignored) == SelectSeq(g.errors \o g.warnings, LAMBDA p : ~Ignored(ignored, p))
IssueRow(p, up) == Row(Id("issue", p, <<>>), up)

\* Where an issue is shown: at the deepest directory or repository of the tree.
Attached(g, p) ==
    LET around == {q \in TrieNodes(g) : IsPrefix(Top \o q, p)}
    IN  IF around = {} THEN None ELSE Longest(around)

\* walk_virtual_trie: directories first, then repositories that hold no other.
RECURSIVE TrieRows(_, _, _, _)
TrieRows(g, issues, at, up) ==
    LET IsDir(p) == RepositoryAt(g, p) = {} \/ \E q \in TrieNodes(g) : q # p /\ IsPrefix(p, q)
        items == SetToSortSeq({[path |-> p, dir |-> IsDir(p)] :
                     p \in {q \in TrieNodes(g) : Parent(q) = at}}, TreeBefore)
        Item(p) ==
            LET ids  == RepositoryAt(g, p)
                self == IF ids = {} THEN Id("virtual", <<>>, p)
                        ELSE Id("repository", CHOOSE id \in ids : TRUE, <<>>)
                here == SelectSeq(issues, LAMBDA q : Attached(g, q) = p)
            IN  (IF ids = {} THEN <<Row(self, up)>> ELSE RepositoryRows(g, self.repo, up))
                \o TrieRows(g, issues, p, Append(up, self))
                \o [i \in DOMAIN here |-> IssueRow(here[i], Append(up, self))]
    IN  FlattenSeq([i \in DOMAIN items |-> Item(items[i].path)])

Rows(g, ignored) ==
    LET issues == Issues(g, ignored)
        flat  == SetToSortSeq({n.id : n \in Roots(g) \ Placed(g)}, Before)
        loose == SelectSeq(issues, LAMBDA p : Attached(g, p) = None)
    IN  FlattenSeq([i \in DOMAIN flat |-> RepositoryRows(g, flat[i], <<>>)])
        \o TrieRows(g, issues, <<>>, <<>>)
        \o [i \in DOMAIN loose |-> IssueRow(loose[i], <<>>)]

------------------------------------------------------------------------------
\* The review scope

\* rebuild_visible_rows
Visible(v) == SelectSeq(v.rows, LAMBDA row : \A id \in Range(row.up) : v.expanded[id])

\* selected_git_row
Selected(v) ==
    IF v.scope # "git" \/ v.selected \notin DOMAIN Visible(v) THEN None
    ELSE Visible(v)[v.selected]

\* remember_current_selection
Remember(v) ==
    IF v.scope # "git" THEN v
    ELSE [v EXCEPT !.saved = IF Selected(v) = None THEN None ELSE Selected(v).id]

\* load_selected_diff: a change is asked for, anything else shows no diff.
Load(v) ==
    LET row == Selected(v)
    IN  IF row = None \/ ~IsChange(row) THEN [v EXCEPT !.asked = None, !.diff = None]
        ELSE [v EXCEPT !.asked = row.id]

\* select_optional
SelectAt(v, i) ==
    LET n == Len(Visible(v))
    IN  Load(Remember([v EXCEPT !.selected = IF i > n THEN n ELSE i]))

\* reconcile_expansion_state: what is new is expanded.
Reconcile(v) ==
    [v EXCEPT !.expanded = [id \in {row.id : row \in {r \in Range(v.rows) : IsContainer(r)}} |->
        id \in DOMAIN @ => @[id]]]

\* default_selection_index: the first change, or the first row.
Default(v) ==
    LET changes == {i \in DOMAIN Visible(v) : IsChange(Visible(v)[i])}
    IN  IF changes # {} THEN Min(changes) ELSE IF Visible(v) = <<>> THEN 0 ELSE 1

\* restore_git_selection: the row, the nearest of its ancestors that is visible, or the
\* default.
Restore(v, id) ==
    LET At(x) == {i \in DOMAIN Visible(v) : Visible(v)[i].id = x}
        row == SelectSeq(v.rows, LAMBDA r : r.id = id)
        up  == IF row = <<>> THEN <<>> ELSE SelectSeq(Head(row).up, LAMBDA x : At(x) # {})
    IN  SelectAt(v, IF At(id) # {} THEN Min(At(id))
                    ELSE IF up # <<>> THEN Min(At(Last(up))) ELSE Default(v))

\* git_change_identity_for_workspace_path
ChangeAt(v, p) ==
    LET rows == SelectSeq(v.rows, LAMBDA r : r.id.type = "change" /\ r.id.repo \o r.id.path = p)
    IN  IF rows = <<>> THEN None ELSE Head(rows)

\* expand_git_ancestors
ExpandTo(v, row) ==
    IF row = None THEN v
    ELSE [v EXCEPT !.expanded = [id \in DOMAIN @ |-> @[id] \/ id \in Range(row.up)]]

\* rebuild_git_rows, when what is ignored has changed
Rebuild(v) ==
    IF v.graph = None THEN v
    ELSE LET id == IF Selected(v) = None THEN None ELSE Selected(v).id
         IN  Restore(Reconcile([v EXCEPT !.rows = Rows(v.graph, v.ignored)]), id)

\* repository_error_count
ErrorCount(g, ignored) ==
    Cardinality({i \in DOMAIN g.nodes : g.nodes[i].failed /\ ~Ignored(ignored, g.nodes[i].id)})
    + Len(SelectSeq(g.errors, LAMBDA p : ~Ignored(ignored, p)))

\* A first look that stops at its depth is not incomplete, a full one is.
IsTruncated(g, full) == g.truncated \ (IF full THEN {} ELSE {"depth"}) # {}

Detail(g, mark) == {x \in g.details : x.repo = mark.repo /\ x.path = mark.path}

\* Mutant: every look drops the marks of what it does not find.
ReviewedIfFound(v, c) == {m \in v.reviewed : Detail(c.graph, m) # {}}

\* Marks are dropped only by a complete look without errors.
StillReviewed(v, c) ==
    IF c.full /\ ~IsTruncated(c.graph, c.full) /\ ErrorCount(c.graph, v.ignored) = 0
    THEN {m \in v.reviewed : Detail(c.graph, m) # {}} ELSE v.reviewed

\* apply_refresh_snapshot
Replace(v, c) ==
    Reconcile([Remember(v) EXCEPT !.graph = c.graph, !.rows = Rows(c.graph, v.ignored),
                  !.sync = None, !.fallback = None, !.reviewed = StillReviewed(v, c)])
Reselect(v, row, kept) == Restore(ExpandTo(v, row), IF row = None THEN kept ELSE row.id)
Settle(v, old) ==
    IF v.scope # "git" THEN v
    ELSE Reselect(v, IF old.sync = None THEN None ELSE ChangeAt(v, old.sync),
                  IF old.sync = None THEN v.saved ELSE old.fallback)
Apply(v, c) == Settle([Replace(v, c) EXCEPT !.selected = 0], v)

------------------------------------------------------------------------------
\* The user, the worker and the disk

Init ==
    /\ disk \in Disks
    /\ view = [scope |-> "all", graph |-> None, rows |-> <<>>, selected |-> 0, saved |-> None,
               expanded |-> [id \in {} |-> TRUE], ignored |-> {}, reviewed |-> {},
               sync |-> None, fallback |-> None, asked |-> None, diff |-> None]
    /\ request = "shallow"
    /\ completed = None
    /\ actions = 0

Acts == actions < MaxActions /\ actions' = actions + 1

\* request_refresh: an answer to an older request is no longer taken.
Request(full) == request' = full /\ completed' = None

\* execute_refresh
Execute ==
    /\ request # None
    /\ request' = None
    /\ completed' = [full |-> request = "full", disk |-> disk, graph |->
           Graph(disk, IF request = "full" THEN MaxDepth ELSE ShallowDepth)]
    /\ UNCHANGED <<disk, view, actions>>

ApplyCompleted ==
    /\ completed # None
    /\ view' = Apply(view, completed)
    /\ completed' = None
    /\ UNCHANGED <<disk, request, actions>>

\* The refresh key; a full look in the review scope alone.
Refresh ==
    /\ Acts /\ view' = Remember(view)
    /\ Request(IF view.scope = "git" THEN "full" ELSE "shallow")
    /\ UNCHANGED disk

\* set_tree_scope: the file selected among all files is to be selected here, or else what
\* was; the first time nothing is remembered until the refresh has answered.
EnterReview(file) ==
    /\ Acts /\ view.scope = "all"
    /\ LET v   == [view EXCEPT !.scope = "git", !.sync = file, !.selected = 0,
                      !.fallback = IF file = None THEN None ELSE view.saved]
           row == IF file = None THEN None ELSE ChangeAt(v, file)
           v1  == Restore(ExpandTo(v, row), IF row = None THEN v.saved ELSE row.id)
       IN  view' = IF view.saved = None /\ row = None THEN [v1 EXCEPT !.selected = 0] ELSE v1
    /\ Request("full")
    /\ UNCHANGED disk

LeaveReview ==
    /\ Acts /\ view.scope = "git"
    /\ view' = [Remember(view) EXCEPT !.scope = "all", !.selected = 0, !.sync = None,
                    !.fallback = None, !.asked = None, !.diff = None]
    /\ UNCHANGED <<disk, request, completed>>

\* select: what was to be selected after the refresh no longer is.
Select(i) ==
    /\ Acts /\ view.scope = "git" /\ i \in DOMAIN Visible(view)
    /\ view' = SelectAt([view EXCEPT !.sync = None, !.fallback = None], i)
    /\ UNCHANGED <<disk, request, completed>>

\* toggle_selected_directory
Toggle ==
    /\ Acts /\ Selected(view) # None /\ IsContainer(Selected(view))
    /\ LET id == Selected(view).id
       IN  view' = Restore([view EXCEPT !.expanded[id] = ~@, !.sync = None, !.fallback = None], id)
    /\ UNCHANGED <<disk, request, completed>>

\* toggle_selected_issue_ignore
Ignore ==
    /\ Acts /\ Selected(view) # None
    /\ LET id == Selected(view).id
           p  == Real(IF id.type = "virtual" THEN Top \o id.path ELSE id.repo)
       IN  /\ id.type \in {"issue", "repository", "virtual"}
           /\ view' = Rebuild([view EXCEPT !.ignored =
                                  IF p \in @ THEN @ \ {p} ELSE @ \cup {p}])
    /\ UNCHANGED <<disk, request, completed>>

\* d, among all files: the diff of a file, of the first repository that reports it.
ShowDiff(f) ==
    /\ Acts /\ view.scope = "all" /\ view.graph # None
    /\ LET changes == {<<i, c>> \in {<<i, c>> \in (DOMAIN view.graph.nodes)
                            \X UNION {n.changes : n \in Range(view.graph.nodes)} :
                                c \in view.graph.nodes[i].changes} :
                          view.graph.nodes[i].id \o c.path = f}
           first == CHOOSE x \in changes : \A y \in changes : x[1] <= y[1]
       IN  view' = IF changes = {} THEN [view EXCEPT !.asked = None, !.diff = None]
                   ELSE [view EXCEPT !.asked =
                            Id("change", view.graph.nodes[first[1]].id, first[2].path)]
    /\ UNCHANGED <<disk, request, completed>>

\* The diff of a change arrives; that of a pointer cannot be reviewed.
DiffArrives ==
    /\ view.asked # None
    /\ view' = [view EXCEPT !.asked = None,
                    !.diff = IF view.asked.type = "change" THEN view.asked ELSE None]
    /\ UNCHANGED <<disk, request, completed, actions>>

\* toggle_current_diff_review: the version marked is that of the last refresh.
Review ==
    /\ Acts /\ view.diff # None /\ Detail(view.graph, view.diff) # {}
    /\ LET now  == CHOOSE x \in Detail(view.graph, view.diff) : TRUE
           rest == {m \in view.reviewed : m.repo # now.repo \/ m.path # now.path}
       IN  view' = [view EXCEPT !.reviewed = IF now \in @ THEN rest ELSE rest \cup {now}]
    /\ UNCHANGED <<disk, request, completed>>

\* A file is changed again, or what was changed is committed.
FileChanges(f) ==
    /\ disk.changes < MaxChanges
    /\ \E n \in {0, disk.version[f] + 1} \ {disk.version[f]} :
          disk' = [disk EXCEPT !.version[f] = n, !.changes = @ + 1]
    /\ UNCHANGED <<view, request, completed, actions>>

Next ==
    \/ Execute \/ ApplyCompleted \/ Refresh
    \/ \E f \in {g \in Files : IsPrefix(Top, g)} \cup {None} : EnterReview(f)
    \/ LeaveReview \/ (\E i \in 1 .. Len(view.rows) : Select(i)) \/ Toggle \/ Ignore
    \/ DiffArrives \/ Review
    \/ \E f \in Files : ShowDiff(f) \/ FileChanges(f)

Spec == Init /\ [][Next]_vars

------------------------------------------------------------------------------
\* No .gitmodules declares a path that leads through a link: of two repositories that
\* declare each other, or of one that declares itself, no row would be shown.
NoLoops(d) ==
    \A r \in Dirs : d.modules[r] # None =>
        \A p \in Range(d.modules[r]) : Real(r \o p) = r \o p

\* No repository lies between a submodule and the one that declares it: what that one
\* reports of the submodule would stay its change.
NoneBetween(d) ==
    \A r \in Dirs : \A s \in Declares(d, r) : Boundary(d, Parent(s)) \in {r, None}

ChangedFile(id) == id.repo \o id.path

\* Rows that are the changes of a graph
RowsMatch(g, rows) ==
    LET changes == {i \in DOMAIN rows : rows[i].id.type = "change"}
    IN  /\ Cardinality({i \in DOMAIN rows : IsChange(rows[i])}) = ProjectedCount(g)
        /\ \A i, k \in DOMAIN rows : rows[i].id = rows[k].id =>
               i = k \/ rows[i].id.type = "issue"
        /\ \A k \in DOMAIN rows : \A id \in Range(rows[k].up) :
               \E i \in 1 .. k - 1 : rows[i].id = id
        /\ NoneBetween(completed.disk) => \A i, k \in changes :
               ChangedFile(rows[i].id) = ChangedFile(rows[k].id) => i = k
        /\ \A f \in Files : \A n \in Range(g.nodes) :
               /\ n.usable /\ ~n.failed /\ Boundary(completed.disk, f) = n.id
               /\ completed.disk.version[f] > 0
               /\ n.kind = "containing" => IsPrefix(Top, f)
               /\ \A s \in Declares(completed.disk, n.id) : ~IsPrefix(s, f)
               => \E i \in changes : ChangedFile(rows[i].id) = f

\* What a refresh found, as rows: as many changes as the worker counted, which the code
\* asserts; no row twice and none before those it lies in; no file as a change of two
\* repositories; and no change of a repository that was found and read is missing.
RowsAreTheChanges ==
    completed # None /\ NoLoops(completed.disk) =>
        RowsMatch(completed.graph, Rows(completed.graph, {}))

\* In the review scope the selection is a visible row, unless none is or the first refresh
\* is still to choose one, and a diff that is asked for is that of a change.
SelectionIsVisible ==
    view.scope = "git" =>
        /\ view.selected \in 0 .. Len(Visible(view))
        /\ view.selected = 0 => Visible(view) = <<>> \/ request # None \/ completed # None
        /\ view.selected # 0 => view.saved = Selected(view).id

\* A refresh drops the mark of a change only if it is one no more, or what hides it is
\* ignored.
MarksAreKept ==
    [][\A m \in view.reviewed : completed # None /\ completed' = None /\ request' = request
          /\ (\A x \in view'.reviewed : x.repo # m.repo \/ x.path # m.path)
          => \/ completed.disk.version[m.repo \o m.path] = 0
             \/ Boundary(completed.disk, m.repo \o m.path) # m.repo
             \/ view.ignored # {}]_vars

\* A refresh leaves the selection on its row as long as the row is visible, unless a file
\* of the other scope is to be selected.
SelectionIsKept ==
    [][completed # None /\ completed' = None /\ request' = request
       /\ view.scope = "git" /\ view.sync = None /\ Selected(view) # None
       => \/ Selected(view').id = Selected(view).id
          \/ \A row \in Range(Visible(view')) : row.id # Selected(view).id]_vars
==============================================================================
