--------------------------------- MODULE AppShell ---------------------------------
(* Who hears a key, a click and an arrival in the terminal UI (src/app.rs, drawn by *)
(* src/ui.rs).  The UI thread has one loop: poll what the background finished, draw, *)
(* take one event.  An event goes to the first layer of a fixed list that is up: the *)
(* popups, the find bar, the edit session of the tab in front, the search, and below *)
(* them the panes.  Keys, clicks, the footer and the drawing each have a list of     *)
(* their own.                                                                        *)
(*                                                                                   *)
(* ContentTabs has the requests behind the contents, SearchPopup the search and      *)
(* EditSession the text.  Here a tab shows one of a few kinds of lines and waits for *)
(* one kind of completion.  Which row of the tree is selected, and which text, is    *)
(* not modelled: what depends on it goes either way.  Every operator is a method of  *)
(* App, from the state of the UI to the states it may leave.                         *)
EXTENDS Naturals, Sequences

CONSTANTS
    MaxTabs,      \* MAX_OPEN_TABS
    MaxBorn,      \* bound on the tabs of a behaviour
    QuitWindow,   \* QUIT_CONFIRM_WINDOW
    MaxTime,      \* bound on the clock
    Habits        \* what the user does in a behaviour: sets of topics

ASSUME ShellAssumption ==
    MaxTabs \in Nat \ {0} /\ MaxBorn \in Nat \ {0} /\ QuitWindow \in Nat /\ MaxTime \in Nat

VARIABLES
    shell,      \* the state of the UI
    editing,    \* content.edit of each tab: no session, or its dirty and saved flags
    closed,     \* should_quit
    hour,       \* the clock
    habit       \* the topics of this behaviour

shellVars == <<shell, editing, closed, hour, habit>>

TabIds     == 1..MaxBorn                   \* tab ids are never reused
Kinds      == {"files", "review", "search", "chat"}
Unsaved    == {"dirty", "unsaved"}         \* dirty before the first save, and after one
EditStates == {"none", "clean", "saved"} \cup Unsaved
Documents  == {"file", "buffer"}           \* lines with an identity

\* What is up at the start: one tab of files, its tree being loaded.
NoSearch == [open |-> FALSE, focus |-> "tree", lines |-> "info", loading |-> FALSE]

FirstShell(hidden) ==
    [strip   |-> <<1>>, front |-> 1, born |-> 1,          \* tabs, active_tab, next_tab_id
     kind    |-> [t \in TabIds |-> "files"],
     lines   |-> [t \in TabIds |-> "info"],    \* or loading, file, diff, error, buffer
     wants   |-> [t \in TabIds |-> "none"],    \* text, diff or stage; dead: one given up
     menu    |-> FALSE, palette |-> FALSE, context |-> FALSE,
     send    |-> "closed",                     \* or picking, sending
     picker  |-> 0,                            \* or the tab that asked
     find    |-> FALSE,
     search  |-> NoSearch,                     \* open, and SearchRestore
     focus   |-> IF hidden THEN "content" ELSE "tree",
     hidden  |-> hidden,
     quit    |-> [key |-> "none", until |-> 0],
     again   |-> FALSE,                        \* edit_escape_pending
     offer   |-> "none",                       \* a system open asked for, or an image
     ask     |-> 0,                            \* the tab of navigation_invocation
     strays  |-> {}]      \* history: what went where the rules below do not expect it

--------------------------------------------------------------------------------
(* Who is on top *)

Up(layer) ==
    \/ layer = "menu"    /\ shell.menu
    \/ layer = "palette" /\ shell.palette
    \/ layer = "send"    /\ shell.send # "closed"
    \/ layer = "picker"  /\ shell.picker # 0
    \/ layer = "context" /\ shell.context
    \/ layer = "find"    /\ shell.find
    \/ layer = "edit"    /\ editing[shell.front] # "none"
    \/ layer = "search"  /\ shell.search.open
    \/ layer = "base"

OnTop(layer, order) ==
    \E i \in 1..Len(order) : /\ order[i] = layer /\ Up(layer)
                             /\ \A j \in 1..(i - 1) : ~Up(order[j])

KeyOrder    == <<"menu", "palette", "send", "picker", "context", "find", "edit",
                 "search", "base">>
MouseOrder  == <<"edit", "send", "picker", "search", "menu", "context", "base">>
FooterOrder == <<"send", "picker", "find", "edit", "search", "base">>
DrawnOrder  == <<"palette", "menu", "picker", "send", "search", "context", "base">>
Popups      == {"palette", "menu", "picker", "send", "search", "context"}

\* What the footer warns of, if anything.
Footer ==
    IF OnTop("edit", FooterOrder) /\ shell.again THEN "discard"
    ELSE IF /\ OnTop("base", FooterOrder)
            /\ shell.quit.key # "none" /\ hour <= shell.quit.until THEN "again"
    ELSE "nothing"

--------------------------------------------------------------------------------
(* Contents *)

\* cancel_pending_navigation: the stage of a tab behind is only given up when it arrives.
Cancel(s) ==
    [s EXCEPT !.ask = 0, !.picker = 0,
              !.wants = [t \in TabIds |->
                  IF @[t] \notin {"stage", "dead"} THEN @[t]
                  ELSE IF t = s.front THEN "none" ELSE "dead"]]

\* dispatch_content_request and set_info, with the reset_content in them, which closes the
\* find bar, and cancel_external_open.
Shows(s, text, want) ==
    [Cancel(s) EXCEPT !.lines[s.front] = text, !.wants[s.front] = want,
                      !.find = FALSE, !.offer = "none"]

\* load_selected_preview: an information text, or the text of a file; a directory leaves
\* a document where it is.
Preview(s) ==
    {Shows(s, "info", "none"), Shows(s, "loading", "text")}
        \cup {r \in {s} : s.lines[s.front] \in Documents}

\* load_selected_diff
Diff(s) == {Shows(s, "info", "none"), Shows(s, "loading", "diff")}

\* load_scope_default_content, of any row.  A search result that is accepted leaves a
\* review tab with the rows of a files tab.
Loads(s) == IF s.kind[s.front] = "review" THEN Diff(s) \cup Preview(s) ELSE Preview(s)

--------------------------------------------------------------------------------
(* Tabs *)

Listed(s) == {s.strip[i] : i \in 1..Len(s.strip)}

Hidden(s, pane) == s.hidden /\ pane = "tree"

\* activate_tab, and the selection of the tree that it restores
Turn(s, t) ==
    IF t \notin Listed(s) \/ t = s.front THEN {s} ELSE Loads([s EXCEPT !.front = t])

\* preview_search_selection: no result is selected, a directory or a file.
Previews(s) == {s, Shows(s, "info", "none"), Shows(s, "loading", "text")}

\* open_search.  It keeps what the tab in front shows, which may be the text of an edit.
OpenSearch(s) ==
    IF s.search.open THEN Previews(s)
    ELSE Previews([Cancel(s) EXCEPT
             !.offer = "none", !.find = FALSE,
             !.search = [open |-> TRUE, focus |-> s.focus, lines |-> s.lines[s.front],
                         loading |-> s.wants[s.front] # "none"],
             !.strays = IF s.lines[s.front] = "buffer" THEN @ \cup {"buffer"} ELSE @])

\* open_tab: a search tab opens the search.
OpenTab(s, kind) ==
    IF Len(s.strip) >= MaxTabs \/ s.born = MaxBorn THEN {s}
    ELSE LET new    == s.born + 1
             turned == Turn([s EXCEPT !.strip = Append(@, new), !.born = new,
                                      !.kind[new] = kind], new)
         IN  IF kind = "search" THEN UNION {OpenSearch(r) : r \in turned} ELSE turned

\* open_file_in_files_tab: the first tab of files there is, or a new one
FilesTab(s) ==
    IF \E t \in Listed(s) : s.kind[t] = "files"
    THEN Turn(s, Head(SelectSeq(s.strip, LAMBDA t : s.kind[t] = "files")))
    ELSE OpenTab(s, "files")
OpenFile(s) == UNION {Preview(r) : r \in FilesTab(s)}

\* close_tab: not the last, and none with unsaved edits.  The session goes with the tab.
MayClose(s, t) == Len(s.strip) > 1 /\ t \in Listed(s) /\ editing[t] \notin Unsaved
CloseTab(s, t) ==
    LET at   == CHOOSE i \in 1..Len(s.strip) : s.strip[i] = t
        left == SelectSeq(s.strip, LAMBDA u : u # t)
        gone == [s EXCEPT !.strip = left, !.lines[t] = "info", !.wants[t] = "none"]
    IN  IF t # s.front THEN {gone}
        ELSE Loads([gone EXCEPT !.front = left[IF at > Len(left) THEN Len(left) ELSE at]])

--------------------------------------------------------------------------------
(* Search, find and navigation *)

\* close_search: every request is given up and the tab that is now in front shows what
\* the search covered.
CloseSearch(s) ==
    LET shut == [s EXCEPT
            !.search = NoSearch, !.focus = s.search.focus,
            !.lines[s.front] = s.search.lines,
            !.wants = [t \in TabIds |-> IF @[t] \in {"stage", "dead"} THEN "dead" ELSE "none"]]
    IN  IF s.search.loading THEN Loads(shut) ELSE {shut}

\* accept_search_selection: no result, a directory or a file.  The result is revealed in
\* the tree; what that loads is replaced by the file, or what is said of the directory.
Accept(s) ==
    LET shut == [s EXCEPT !.search = NoSearch]
    IN  {s, [Shows(shut, "loading", "text") EXCEPT !.focus = "content"],
         [Shows(shut, "info", "none") EXCEPT !.focus = IF s.hidden THEN "content" ELSE "tree"]}

\* open_preview_find: over a preview or a diff, in place of the search
OpenFind(s) ==
    IF s.lines[s.front] = "info" THEN s
    ELSE [s EXCEPT !.search = NoSearch, !.find = TRUE, !.focus = "content"]

\* request_semantic_navigation and open_document_symbols, with or without a token
Ask(s) ==
    IF s.focus # "content" \/ s.lines[s.front] \notin Documents THEN {s}
    ELSE {s, Cancel(s), [Cancel(s) EXCEPT !.ask = s.front]}

\* commit_navigation_reveal in tab t.  A tree in front that shows something else than files
\* is made to, which loads a row of it in t.
Commit(s, t) ==
    LET done == [s EXCEPT !.focus = "content", !.ask = 0, !.picker = 0,
                          !.wants[t] = IF @ \in {"stage", "dead"} THEN "none" ELSE @]
        back(r) == [r EXCEPT !.front = s.front]
    IN  {done} \cup (IF s.kind[s.front] \in {"review", "chat"}
                     THEN {back(r) : r \in Loads([done EXCEPT !.front = t])} ELSE {})

\* accept_navigation_target in tab t: the document it shows, or one that is loaded.  The
\* tree in front gets its rows back, which loads one of them.
GoTo(s, t) ==
    {s, [s EXCEPT !.wants[t] = "stage", !.picker = 0]}
        \cup (IF s.lines[t] \notin Documents THEN {}
              ELSE UNION {{c} \cup (IF s.kind[s.front] \in {"review", "chat"} THEN Loads(c)
                                    ELSE {}) : c \in Commit(s, t)})

--------------------------------------------------------------------------------
(* Panes *)

\* toggle_tree_visibility: "Hiding the tree moves focus to the content pane so key routing
\* never targets the invisible tree".
ToggleTreeOnly(s) == [s EXCEPT !.hidden = ~@]
ToggleTree(s) == [s EXCEPT !.hidden = ~@,
                           !.focus = IF ~s.hidden /\ @ = "tree" THEN "content" ELSE @]

Focus(s, pane) == IF Hidden(s, pane) THEN s ELSE [s EXCEPT !.focus = pane]

\* A click or a turn of the wheel in the tree, which must be shown to be there
TreeRow(s) == IF s.hidden THEN {} ELSE {[r EXCEPT !.focus = "tree"] : r \in Loads(s)}

\* execute_tree_context_action: the row is selected, and then opened, copied, made the
\* root of the tree, or given to the system.
ContextAction(s) ==
    UNION {{r, [r EXCEPT !.offer = "asked"]} \cup Loads(r) :
              r \in {[l EXCEPT !.focus = "tree", !.context = FALSE] : l \in Loads(s)}}

\* handle_mouse_scroll
Scroll(s) ==
    IF s.search.open THEN Previews(s)
    ELSE {s, [s EXCEPT !.focus = "content"]} \cup TreeRow(s)
            \cup (IF s.focus = "tree" THEN Loads(s) ELSE {})

--------------------------------------------------------------------------------
(* Events: a key or a click of a topic that the top layer takes *)

\* Every key but those that ask to quit takes that back, and so does the mouse.
Calm(s) == [s EXCEPT !.quit = [key |-> "none", until |-> 0]]

Becomes(shells) == shell' \in shells /\ UNCHANGED <<editing, closed, hour, habit>>

Taken(topic, layer, order) == ~closed /\ topic \in habit /\ OnTop(layer, order)

Press(topic, layer, shells) ==
    Taken(topic, layer, KeyOrder) /\ Becomes({Calm(s) : s \in shells})
Click(topic, layer, shells) ==
    Taken(topic, layer, MouseOrder) /\ Becomes({Calm(s) : s \in shells})

\* The menu of new tabs: left, moved in, or accepted
InMenu == LET gone == [shell EXCEPT !.menu = FALSE]
          IN  {shell, gone} \cup UNION {OpenTab(gone, k) : k \in Kinds}
KeyInMenu   == Press("tabs", "menu", InMenu)
ClickInMenu == Click("tabs", "menu", InMenu)

\* The palette lists the tabs there were when its text was last changed: one of them may
\* be gone.
KeyInPalette ==
    LET gone == [shell EXCEPT !.palette = FALSE]
    IN  Press("tabs", "palette",
              {shell, gone} \cup (UNION {Turn(gone, t) : t \in 1..shell.born}) \cup OpenFile(gone))

\* The picker of agents: closed, moved in, or accepted, once
InSend == {shell, [shell EXCEPT !.send = "closed"]}
              \cup {s \in {[shell EXCEPT !.send = "sending"]} : shell.send = "picking"}
KeyInSend   == Press("send", "send", InSend)
ClickInSend == Click("send", "send", InSend)

\* A list of agents that cannot be had closes the picker that waits for it, and the end of
\* what was sent the one that sends.
SendSettles ==
    /\ ~closed /\ shell.send # "closed"
    /\ Becomes({[shell EXCEPT !.send = "closed"]})

\* The picker of targets: moved in, or accepted for the tab that asked, if it is there
AcceptInPicker ==
    LET gone == [shell EXCEPT !.picker = 0]
    IN  {shell} \cup (IF shell.picker \in Listed(shell)
                      THEN {[s EXCEPT !.picker = 0] : s \in GoTo(gone, shell.picker)}
                      ELSE {gone})
KeyInPicker ==
    Press("navigate", "picker",
          AcceptInPicker \cup {[shell EXCEPT !.picker = 0, !.focus = "content"]})
ClickInPicker == Click("navigate", "picker", AcceptInPicker)

\* The context menu of a row
KeyInContext ==
    Press("tree", "context",
          {shell, [shell EXCEPT !.context = FALSE]} \cup ContextAction(shell))
\* A left click takes an action or dismisses the menu; the right button and the wheel
\* reach what is below.
ClickInContext ==
    Click("tree", "context", {[shell EXCEPT !.context = FALSE]} \cup ContextAction(shell))
PastContext ==
    Click("tree", "context", {[shell EXCEPT !.context = FALSE]} \cup Loads(shell) \cup Scroll(shell))

\* The find bar: closed, typed in, or left for the search
KeyInFind ==
    LET gone == [shell EXCEPT !.find = FALSE]
    IN  Press("find", "find", {shell, gone} \cup OpenSearch(gone))

\* The search popup: moved in, typed in, left, accepted, or left for the find bar
InSearch == Previews(shell) \cup CloseSearch(shell) \cup Accept(shell)
KeyInSearch   == Press("search", "search", InSearch \cup {OpenFind(s) : s \in CloseSearch(shell)})
ClickInSearch == Click("search", "search", InSearch)

--------------------------------------------------------------------------------
(* Events: the edit session of the tab in front *)

Session(state) == [editing EXCEPT ![shell.front] = state]

\* What changes the text leaves it as it was or not; undo and redo go either way.
Edited(state) == IF state \in {"clean", "dirty"} THEN {"clean", "dirty"}
                 ELSE {"saved", "unsaved"}

InEdit(topic) == Taken(topic, "edit", KeyOrder) /\ UNCHANGED <<closed, hour, habit>>

\* try_enter_edit_mode, unless the key takes up the offer of an image: over a document, if
\* the file can be had in full.  What is on its way to the tab is invalidated.
EnterEdit ==
    /\ Taken("edit", "base", KeyOrder) /\ UNCHANGED <<closed, hour, habit>>
    /\ IF shell.offer = "image"
       THEN shell' \in {Calm(Shows(shell, "info", "none")), Calm(Shows(shell, "loading", "text"))}
            /\ UNCHANGED editing
       ELSE /\ shell.focus = "content" /\ shell.lines[shell.front] \in Documents
            /\ editing' = Session("clean")
            /\ shell' = Calm([shell EXCEPT
                   !.lines[shell.front] = "buffer", !.again = FALSE,
                   !.wants[shell.front] = IF @ \in {"stage", "dead"} THEN "dead" ELSE "none"])

\* Every key but Esc takes back the first Esc.
KeyInEdit ==
    /\ InEdit("edit") /\ shell' = Calm([shell EXCEPT !.again = FALSE])
    /\ \E state \in Edited(editing[shell.front]) \cup {"saved"} : editing' = Session(state)
FindInEdit == Press("edit", "edit", {OpenFind([shell EXCEPT !.again = FALSE])})

\* A paste is an event of its own, which no layer is asked for.
PasteInEdit ==
    /\ ~closed /\ "edit" \in habit /\ editing[shell.front] # "none"
    /\ \E state \in Edited(editing[shell.front]) : editing' = Session(state)
    /\ UNCHANGED <<shell, closed, hour, habit>>

\* A click in the text, or the wheel, which reaches the panes
ClickInEdit ==
    Click("edit", "edit", {shell, [shell EXCEPT !.again = FALSE]} \cup Scroll(shell))

\* exit_edit_mode_without_save puts the lines of the preview back, whatever they say now.
\* After a save the document is loaded again, if it is still the one that is shown.
Discarded(s) ==
    [s EXCEPT !.again = FALSE,
              !.lines[s.front] = IF @ \in {"buffer", "file"} THEN "file"
                                 ELSE IF @ = "info" THEN "info" ELSE "error"]
Reloaded(s) ==
    IF s.lines[s.front] \in Documents THEN Shows([s EXCEPT !.again = FALSE], "loading", "text")
    ELSE [s EXCEPT !.again = FALSE]

\* Unsaved changes need a second Esc.
AtOnce == TRUE
MayLeave == editing[shell.front] \in Unsaved => shell.again

EscapeInEdit ==
    /\ InEdit("edit")
    /\ IF MayLeave
       THEN /\ editing' = Session("none")
            /\ shell' = Calm(IF editing[shell.front] = "saved" THEN Reloaded(shell)
                             ELSE Discarded(shell))
       ELSE shell' = Calm([shell EXCEPT !.again = TRUE]) /\ UNCHANGED editing

--------------------------------------------------------------------------------
(* Events: the panes *)

\* Keys of the base layer, by what they are for
KeyForTabs ==
    Press("tabs", "base",
          {[shell EXCEPT !.menu = TRUE], [shell EXCEPT !.palette = TRUE]}
              \cup UNION {Turn(shell, t) : t \in Listed(shell)})
KeyForFind   == Press("find", "base", {OpenFind(shell)})
KeyForSearch == Press("search", "base", OpenSearch(shell))
KeyForOpen   == Press("open", "base", {[shell EXCEPT !.offer = "asked"]})

\* The layout and the rows of the tree: it moves, opens, closes and is left; a document
\* moves, folds, and is shown as a preview or as what changed.
KeyForPanes ==
    Press("tree", "base",
          {ToggleTree(shell), Focus(shell, "tree"), Focus(shell, "content")}
              \cup Preview(shell) \cup Diff(shell)
              \cup (IF shell.focus = "tree" THEN Loads(shell) ELSE {}))

\* Text must be selected for it, which needs some to be shown.
KeyForSend ==
    /\ shell.focus = "content" /\ shell.lines[shell.front] # "info"
    /\ \E layer \in {"search", "base"} : Press("send", layer, {[shell EXCEPT !.send = "picking"]})

\* Definitions, references, symbols, and the places visited before
KeyForTargets ==
    Press("navigate", "base",
          Ask(shell) \cup {r \in GoTo(Cancel(shell), shell.front) :
                               shell.lines[shell.front] \in Documents})

\* close_tab, by key or by the mark of a tab
CloseOne(t) ==
    /\ MayClose(shell, t)
    /\ \E s \in CloseTab(shell, t) : shell' = Calm(s)
    /\ editing' = [editing EXCEPT ![t] = "none"] /\ UNCHANGED <<closed, hour, habit>>
KeyToClose   == Taken("tabs", "base", KeyOrder) /\ CloseOne(shell.front)
ClickToClose == \E t \in Listed(shell) : Taken("tabs", "base", MouseOrder) /\ CloseOne(t)

\* The mouse reaches the panes below the palette and the find bar.
ClickOnTabs ==
    Click("tabs", "base",
          {[shell EXCEPT !.menu = TRUE]} \cup UNION {Turn(shell, t) : t \in Listed(shell)})
ClickOnFind == Click("find", "base", {[shell EXCEPT !.find = FALSE]})
ClickOnSearch == Click("search", "base", OpenSearch(shell))
ClickOnOpen ==
    ~shell.find /\ Click("open", "base", {[shell EXCEPT !.focus = "content", !.offer = "asked"]})
ClickOnTree ==
    Click("tree", "base",
          {ToggleTree(shell), [shell EXCEPT !.focus = IF shell.hidden THEN "content" ELSE "tree"]}
              \cup TreeRow(shell) \cup Scroll(shell)
              \cup {[s EXCEPT !.context = TRUE] : s \in {r \in Loads(shell) : ~shell.hidden}})

\* The path above the content: its directory is selected, and the tree has the focus,
\* hidden or not.
ClickOnPath ==
    Click("tree", "base",
          {[s EXCEPT !.focus = "tree",
                     !.strays = IF s.hidden THEN @ \cup {"focus"} ELSE @] :
              s \in {r \in Loads(shell) : shell.lines[shell.front] # "info"}})

\* The text: it is selected, or folded, or asked about, and what is selected is sent.
ClickOnText ==
    LET there == [shell EXCEPT !.focus = "content"]
    IN  \/ Click("tree", "base", {there})
        \/ Click("navigate", "base", Ask(there))
        \/ /\ shell.focus = "content" /\ shell.lines[shell.front] # "info"
           /\ Click("send", "base", {[shell EXCEPT !.send = "picking"]})

--------------------------------------------------------------------------------
(* Arrivals, which no layer is asked for *)

Arrives(shells) == ~closed /\ Becomes(shells)

\* apply_content_completion: nothing reaches an edit session.  A text leaves the find bar
\* up, with the hits of the text that arrived, whichever tab it is in.
TextArrives ==
    \E t \in TabIds :
        /\ shell.wants[t] \in {"text", "diff"} /\ editing[t] = "none"
        /\ LET got(text, find) == [shell EXCEPT !.lines[t] = text, !.wants[t] = "none",
                                               !.find = find]
           IN  Arrives({got("error", FALSE),
                        IF shell.wants[t] = "text" THEN got("file", shell.find)
                        ELSE got("diff", FALSE)})

\* What was asked for before an edit session is dropped during it.
DroppedArrives ==
    \E t \in TabIds :
        /\ shell.wants[t] # "none" /\ editing[t] # "none"
        /\ Arrives({[shell EXCEPT !.wants[t] = IF @ \in {"stage", "dead"} THEN "dead" ELSE "none"]})

\* apply_navigation_stage_completion: the target is shown in its tab, unless it failed or
\* was given up.
StageArrives ==
    \E t \in TabIds :
        /\ shell.wants[t] \in {"stage", "dead"} /\ editing[t] = "none"
        /\ LET none == [shell EXCEPT !.wants[t] = "none"]
               there == [none EXCEPT !.lines[t] = "file", !.find = FALSE, !.offer = "none"]
           IN  Arrives({none} \cup (IF shell.wants[t] = "stage" THEN Commit(there, t) ELSE {}))

\* apply_navigation_completion, apply_document_symbol_completion: nothing, the one target,
\* or a picker of several
AnswerArrives ==
    /\ shell.ask # 0
    /\ LET rest == [shell EXCEPT !.ask = 0]
       IN  Arrives({rest, [rest EXCEPT !.picker = shell.ask]}
                       \cup (IF shell.ask \in Listed(shell) THEN GoTo(rest, shell.ask) ELSE {}))

\* apply_external_open_completion: the system opened it, or a terminal image is offered.
OpenArrives ==
    /\ shell.offer = "asked"
    /\ Arrives({[shell EXCEPT !.offer = "none"],
                [Shows(shell, "info", "none") EXCEPT !.offer = "image"]})

\* perform_instance_open: the root, a path below it, or a file elsewhere, which has a tab
\* of its own; at MAX_OPEN_TABS all of it goes to the tab in front.
OpenDelivered ==
    /\ "ipc" \in habit
    /\ LET shown == OpenTab(shell, "files")
                       \cup (IF shell.kind[shell.front] = "files" THEN {shell}
                             ELSE FilesTab(shell))
       IN  Arrives(shown \cup (UNION {Preview(s) : s \in shown})
                       \cup {Shows(s, "loading", "text") : s \in OpenTab(shell, "files")})

\* apply_refresh_completion: the row that is selected now is loaded, unless a document or
\* a directory was to be left alone, and then what the search has selected.
TreeArrives ==
    /\ "refresh" \in habit
    /\ LET loaded == {shell} \cup Loads(shell)
       IN  Arrives(IF shell.search.open THEN UNION {Previews(s) : s \in loaded} ELSE loaded)

--------------------------------------------------------------------------------
(* Leaving *)

\* request_quit: the same key again, in time
Confirmed(key) == shell.quit.key = key /\ hour <= shell.quit.until

\* Esc gives up an offer or a navigation first, which leaves the question to quit as it is.
PressToQuit(key) ==
    /\ Taken("quit", "base", KeyOrder) /\ UNCHANGED <<editing, hour, habit>>
    /\ IF key = "Esc" /\ shell.offer = "image"
       THEN shell' \in Preview([shell EXCEPT !.offer = "none"]) /\ UNCHANGED closed
       ELSE IF key = "Esc" /\ (shell.ask # 0 \/ shell.wants[shell.front] \in {"stage", "dead"})
       THEN shell' = Cancel(shell) /\ UNCHANGED closed
       ELSE IF Confirmed(key) THEN closed' = TRUE /\ shell' = Calm(shell)
       ELSE /\ shell' = [shell EXCEPT !.quit = [key |-> key, until |-> hour + QuitWindow]]
            /\ UNCHANGED closed

\* Ctrl+C copies the text that is selected, or quits at once.
CtrlC ==
    /\ \E layer \in {"search", "base"} : Taken("quit", layer, KeyOrder)
    /\ shell' = Calm(shell) /\ closed' \in BOOLEAN /\ UNCHANGED <<editing, hour, habit>>

\* The clock, and poll_background, which drops a confirmation that is over
TimePasses ==
    /\ ~closed /\ "quit" \in habit /\ hour < MaxTime /\ hour' = hour + 1
    /\ UNCHANGED <<shell, editing, closed, habit>>
PollQuit ==
    shell.quit.key # "none" /\ hour > shell.quit.until /\ Arrives({Calm(shell)})

--------------------------------------------------------------------------------

ShellInit ==
    /\ habit \in Habits /\ \E hidden \in BOOLEAN : shell = FirstShell(hidden)
    /\ editing = [t \in TabIds |-> "none"] /\ closed = FALSE /\ hour = 0

PopupStep == \/ KeyInMenu \/ ClickInMenu \/ KeyInPalette \/ KeyInSend \/ ClickInSend
             \/ KeyInPicker \/ ClickInPicker \/ KeyInContext \/ ClickInContext \/ PastContext
             \/ KeyInFind \/ KeyInSearch \/ ClickInSearch
EditStep  == \/ EnterEdit \/ KeyInEdit \/ FindInEdit \/ PasteInEdit \/ ClickInEdit
             \/ EscapeInEdit
PaneStep  == \/ KeyForTabs \/ KeyForFind \/ KeyForSearch \/ KeyForOpen \/ KeyForPanes
             \/ KeyForSend \/ KeyForTargets \/ KeyToClose \/ ClickToClose \/ ClickOnTabs
             \/ ClickOnFind \/ ClickOnSearch \/ ClickOnOpen \/ ClickOnTree \/ ClickOnPath
             \/ ClickOnText
Arrival == \/ SendSettles \/ TextArrives \/ DroppedArrives \/ StageArrives \/ AnswerArrives
           \/ OpenArrives \/ OpenDelivered \/ TreeArrives
Leaving == PressToQuit("q") \/ PressToQuit("Esc") \/ CtrlC \/ TimePasses \/ PollQuit

ShellNext == PopupStep \/ EditStep \/ PaneStep \/ Arrival \/ Leaving

ShellSpec == ShellInit /\ [][ShellNext]_shellVars

--------------------------------------------------------------------------------

\* The popup that is drawn over the rest is the one that hears the keys, but for a menu
\* opened with the mouse below a palette, a picker that arrives over the picker of agents,
\* and a search over an edit session.  (ui::draw has
\* an order of its own, and so has handle_key.)
DrawnHearsKeys ==
    \A popup \in Popups :
        OnTop(popup, DrawnOrder) =>
            \/ OnTop(popup, KeyOrder)
            \/ popup = "palette" /\ Up("menu")
            \/ popup = "picker" /\ Up("send")
            \/ popup = "search" /\ Up("edit")

\* The keys never go to a tree that is hidden, but after a click on the path above the
\* content (toggle_tree_visibility and what moves the focus).
FocusIsShown == "focus" \in shell.strays \/ ~Hidden(shell, shell.focus)

\* A tab shows the text of an edit session only while it has one: a search that is opened
\* from the find bar of one keeps it, and gives it back to whatever tab is in front.
BufferHasSession ==
    \A t \in TabIds :
        shell.lines[t] = "buffer" => editing[t] # "none" \/ "buffer" \in shell.strays

ShellIsSound ==
    DrawnHearsKeys /\ FocusIsShown /\ BufferHasSession /\ ~(shell.find /\ shell.search.open)

\* Unsaved changes are given up only in the tab in front and after the footer has said
\* that the next Esc discards them, and the program ends only after it has said that the
\* key quits, or by Ctrl+C.  (edit_escape_pending and request_quit)
LossIsAnnounced ==
    [][/\ \A t \in TabIds : editing[t] \in Unsaved /\ editing'[t] = "none" =>
                               t = shell.front /\ Footer = "discard"
       /\ closed' # closed => Footer = "again" \/ CtrlC]_shellVars

================================================================================
