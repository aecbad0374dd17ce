------------------------------ MODULE MCEditing ------------------------------
(* Editing a file and the tabs around it, each explored by itself: the edit      *)
(* session of a file of two short lines, with a paste of two lines and a clock   *)
(* that may pass the window in which edits are merged; tabs in which everything  *)
(* may happen; tabs in which only navigation does, for longer; the messages that *)
(* selections of up to four lines are sent as; and the outlines of source files  *)
(* and of Markdown pages, which grow by one declaration or one block at a time;  *)
(* and the keys, clicks and arrivals of the UI above them.                       *)
EXTENDS EditSession, AppShell

CONSTANTS x1, tab, main, notes, outside

VARIABLES part, ui, job, done, doneRefresh, keys,     \* keys: steps of ContentTabs
          input                                       \* what is sent or outlined, or None

TwoLines == << <<x1>>, <<>> >>
OtherLine == << <<tab>> >>
PasteTwoLines == { << <<x1>>, <<x1>> >> }

\* Two files in the workspace, of which notes is in a language the navigation does not
\* support, and a dependency outside of it
Content == INSTANCE ContentTabs WITH
    steps <- keys, Files <- {main, notes}, Outside <- outside, Navigable <- {main, outside},
    DefaultRow <- notes, MaxTabs <- 2, MaxSteps <- 3,
    Features <- {"edit", "refresh", "navigate", "tabs", "instance"}

Navigation == INSTANCE ContentTabs WITH
    steps <- keys, Files <- {main, notes}, Outside <- outside, Navigable <- {main, outside},
    DefaultRow <- "dir", MaxTabs <- 2, MaxSteps <- 5, Features <- {"navigate", "tabs"}

\* MAX_SEND_BYTES, the reserve and the markers scaled down to lines of 1 to 38 bytes
Payload == INSTANCE SendPayload WITH MaxSend <- 40, Reserve <- 6, Words <- 2

Messages ==
    LET lengths == UNION {[1..n -> {1, 5, 12, 20, 38}] : n \in 1..4}
    IN  [lines : lengths, header : {0}, note : {0, 6}, fence : {0}, gutter : {0}]
        \cup [lines : lengths, header : {4, 13}, note : {0, 6}, fence : {3}, gutter : {0, 2}]

Outline == INSTANCE SourceOutline WITH Width <- 2,
    MaxFoldNodes <- 9, MaxSymbolNodes <- 100, MaxTokenNodes <- 8, MaxEvents <- 100,
    MaxRegions <- 10, MaxSymbols <- 10, MaxDepth <- 2, MaxTokens <- 10

\* What the user does in the UI, by topics that meet
ShellHabits ==
    {{"tabs", "tree", "find", "send", "open"}, {"tabs", "search", "find"},
     {"edit", "find", "search", "quit"}, {"edit", "tree", "open", "refresh", "ipc"},
     {"navigate", "tabs", "edit"}, {"edit", "quit", "tabs"}, {"edit", "tabs", "ipc"},
     {"navigate", "send", "search", "quit", "open"}}

MaxNodes == 10                           \* no declaration is added to a tree of so many nodes
MaxBlocks == 5
Size == 6                                \* the bytes of an outlined source file
Declarations == [rust       |-> {"function_item", "impl_item"},
                 python     |-> {"function_definition", "class_definition"},
                 typescript |-> {"method_definition", "class"}]
Nameless == {"class", "impl_item"}
Body(kind) == IF kind = "impl_item" THEN "declaration_list" ELSE "block"

Node(kind, up, from, to, sound, names) ==
    [kind |-> kind, up |-> up, from |-> from, to |-> to, sound |-> sound, names |-> names]

Sources == {[flavor |-> flavor, tree |-> <<Node("source_file", 0, 0, Size, TRUE, FALSE)>>] :
               flavor \in DOMAIN Declarations}

\* A declaration follows the last one or lies in it: its node, its name and its body.
Declared(source) ==
    LET tree == source.tree
        n == Len(tree)
        places == {up \in DOMAIN tree :
                      /\ tree[up].kind \in {"source_file", "declaration_list", "block"}
                      /\ Contains(Outline!Path(tree, n), up)}
        nodes(up, kind, from, to, sound) ==
            <<Node(kind, up, from, to, TRUE, FALSE)>>
            \o (IF kind \in Nameless THEN <<>>
                ELSE <<Node("identifier", n + 1, from, from + 1, sound, TRUE)>>)
            \o <<Node(Body(kind), n + 1, IF kind \in Nameless THEN from ELSE from + 1, to,
                      TRUE, FALSE)>>
        fits(up, from, to) ==
            /\ tree[up].from <= from /\ from + 2 <= to /\ to <= tree[up].to
            /\ \A m \in DOMAIN tree : tree[m].up = up => tree[m].to <= from
    IN  {[source EXCEPT !.tree = @ \o nodes(up, kind, from, to, sound)] :
            <<up, kind, from, to, sound>> \in
                {d \in places \X Declarations[source.flavor] \X (0 .. Size) \X (0 .. Size)
                          \X BOOLEAN : fits(d[1], d[3], d[4]) /\ (d[2] \in Nameless => d[5])}}

Ends(page) == IF page = <<>> THEN 0 ELSE Last(page).to

\* A heading of one line, with text or without, or a code block of one line or two.
Written(source) ==
    LET block(rank, named, height) ==
            [rank |-> rank, from |-> Ends(source.page), named |-> named,
             to |-> Ends(source.page) + 2 * height]
    IN  {[source EXCEPT !.page = Append(@, b)] :
            b \in {block(rank, named, 1) : rank \in 1 .. 3, named \in BOOLEAN}
                 \cup {block(0, FALSE, height) : height \in 1 .. 2}}

\* Every line has the same text: no anchor is told apart by it.
SameHeads(size) == [line \in 0 .. (size \div 2) - 1 |-> None]

ASSUME Content!Shape /\ Navigation!Shape

screen == <<ui, job, done, doneRefresh, keys>>

Alone ==
    /\ Init
    /\ \/ part \in {"session", "content", "payload", "source", "page", "shell"} /\ Content!Init
       \/ part = "navigation" /\ Navigation!Init
    /\ ShellInit /\ (part # "shell" => ~shell.hidden /\ habit = CHOOSE h \in Habits : TRUE)
    /\ CASE part = "payload" -> input \in Messages
         [] part = "source"  -> input \in Sources
         [] part = "page"    -> input = [page |-> <<>>]
         [] OTHER            -> input = None

Steps ==
    /\ UNCHANGED part
    /\ \/ part = "session" /\ Next /\ UNCHANGED <<screen, input, shellVars>>
       \/ part = "content" /\ Content!Next /\ UNCHANGED <<vars, input, shellVars>>
       \/ part = "navigation" /\ Navigation!Next /\ UNCHANGED <<vars, input, shellVars>>
       \/ /\ part = "source" /\ Len(input.tree) < MaxNodes
          /\ input' \in Declared(input)
          /\ UNCHANGED <<vars, screen, shellVars>>
       \/ /\ part = "page" /\ Len(input.page) < MaxBlocks
          /\ input' \in Written(input)
          /\ UNCHANGED <<vars, screen, shellVars>>
       \/ part = "shell" /\ ShellNext /\ UNCHANGED <<vars, screen, input>>

EditingSpec == Alone /\ [][Steps]_<<part, vars, screen, input, shellVars>>

--------------------------------------------------------------------------------
\* What finished work shows in a tab is what the tab asked for last, and it never
\* touches a tab in edit mode. (ContentTabs)
CompletionsFit ==
    [][part = "content" =>
          /\ Content!ShowsNewest
          /\ Content!SparesEditBuffer]_<<part, screen>>

\* A message keeps within its budget, and is cut exactly when it must be. (SendPayload)
PayloadIsExact == part = "payload" => Payload!PayloadIsExact(input)

\* The regions that fold are a tree and leave out none they need not; the symbols nest as
\* the declarations do and are all of them; a click finds the token it is on, or nothing
\* when tokens are missing. (SourceOutline)
OutlineIsSound ==
    /\ part = "source" => Outline!CodeIsOutlined(input.flavor, input.tree, SameHeads(Size))
    /\ part = "page" => LET size == IF input.page = <<>> THEN 2 ELSE Ends(input.page)
                        IN  Outline!MarkdownIsOutlined(input.page, size, SameHeads(size))

\* What is computed from a text, the message and the outline, is what their definitions
\* ask for. (SendPayload, SourceOutline)
MessagesAndOutlinesAreExact == PayloadIsExact /\ OutlineIsSound

\* A tab, a staged navigation and a picker that say they are loading have their load
\* on the way. (ContentTabs)
LoadsAreAwaited ==
    /\ part = "content" => Content!TypeOK
    /\ part = "navigation" => /\ Navigation!LoadingTextIsAwaited
                              /\ Navigation!StageIsAwaited
                              /\ Navigation!PickerPreviewIsAwaited

\* The comment of the edit guard, "防 stale 覆盖编辑缓冲" (stale content does not
\* overwrite the edit buffer): the lines of a tab in edit mode are its edit buffer.
EditBufferKept == part = "content" => Content!EditBufferKept
================================================================================
