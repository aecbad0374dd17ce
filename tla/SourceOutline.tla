---------------------------- MODULE SourceOutline ----------------------------
(* What a preview knows about the structure of its text (folding.rs): the      *)
(* regions that can be folded, the symbols of the outline, and the tokens a    *)
(* click can name.                                                             *)
(*                                                                             *)
(* The parsers are external.  A source file is the sequence of its parser's    *)
(* nodes in the order of their beginnings: each has the kind its grammar gives *)
(* it, the node it is in (up, 0 for the root), the bytes from .. to - 1, and   *)
(* whether it is sound; names says that it is the name of the node it is in.   *)
(* A Markdown page is the sequence of its blocks: headings with a rank from 1  *)
(* to 6 and code blocks, with their bytes.  Every line is Width bytes long.    *)
EXTENDS Integers, Sequences, SequencesExt

CONSTANTS
    Width,           \* the bytes of a line
    MaxFoldNodes, MaxSymbolNodes, MaxTokenNodes,  \* how many nodes a projection may visit
    MaxEvents,                                    \* MAX_MARKDOWN_EVENTS and its like
    MaxRegions, MaxSymbols, MaxDepth, MaxTokens,
    None

--------------------------------------------------------------------------------
(* Lines                                                                       *)

LineOf(byte) == byte \div Width

\* The first and the last line of the bytes from .. to - 1, counted from 0.
Lines(from, to) == [start |-> LineOf(from), end |-> LineOf(to - 1)]

SeveralLines(from, to) == from < to /\ LineOf(from) < LineOf(to - 1)

--------------------------------------------------------------------------------
(* Fold regions                                                                *)

Up(tree, n) == IF tree[n].up = 0 THEN None ELSE tree[tree[n].up].kind
UpTwice(tree, n) == IF tree[n].up = 0 THEN None ELSE Up(tree, tree[n].up)

\* The nodes n is in, from the root down to n itself.
Path(tree, n) ==
    LET down[m \in 0 .. n] == IF m = 0 THEN <<>> ELSE Append(down[tree[m].up], m)
    IN  down[n]

InImplementation(tree, n) ==
    Up(tree, n) = "declaration_list" /\ UpTwice(tree, n) \in {"impl_item", "trait_item"}

\* The nearest definition around n decides; what is between them does not.
PythonFunctionKind(tree, n) ==
    LET owners == SelectSeq(Front(Path(tree, n)), LAMBDA m :
                      tree[m].kind \in {"function_definition", "lambda", "class_definition"})
    IN  IF owners # <<>> /\ tree[Last(owners)].kind = "class_definition"
        THEN "method" ELSE "function"

FoldKind(flavor, tree, n) ==
    LET kind == tree[n].kind
    IN  CASE flavor = "rust" /\ kind = "function_item" ->
                 IF InImplementation(tree, n) THEN "method" ELSE "function"
          [] flavor = "rust" /\ kind \in {"struct_item", "enum_item", "union_item",
                                          "trait_item", "type_item", "impl_item"} -> "type"
          [] flavor = "rust" /\ kind = "mod_item" -> "module"
          [] flavor = "python" /\ kind = "function_definition" -> PythonFunctionKind(tree, n)
          [] flavor = "python" /\ kind = "class_definition" -> "type"
          [] flavor = "go" /\ kind = "function_declaration" -> "function"
          [] flavor = "go" /\ kind = "method_declaration" -> "method"
          [] flavor = "go" /\ kind = "type_declaration" -> "type"
          [] flavor \in {"typescript", "javascript"}
                /\ kind \in {"function_declaration", "function_expression", "arrow_function",
                             "generator_function", "generator_function_declaration"} ->
                 "function"
          [] flavor \in {"typescript", "javascript"}
                /\ kind \in {"method_definition", "abstract_method_signature",
                             "method_signature"} -> "method"
          [] flavor \in {"typescript", "javascript"}
                /\ kind \in {"class_declaration", "class", "abstract_class_declaration",
                             "interface_declaration", "enum_declaration",
                             "type_alias_declaration"} -> "type"
          [] flavor \in {"typescript", "javascript"}
                /\ kind \in {"internal_module", "ambient_declaration"} -> "module"
          [] OTHER -> None

Region(from, to, kind) == Lines(from, to) @@ [kind |-> kind]

\* The regions of a source file, or None when it has too many nodes.
CodeRegions(flavor, tree) ==
    LET folds(n) == /\ tree[n].sound
                    /\ FoldKind(flavor, tree, n) # None
                    /\ SeveralLines(tree[n].from, tree[n].to)
        region(n) == Region(tree[n].from, tree[n].to, FoldKind(flavor, tree, n))
        nodes == SelectSeq([n \in 1 .. Len(tree) |-> n], folds)
    IN  IF Len(tree) > MaxFoldNodes THEN None ELSE [i \in DOMAIN nodes |-> region(nodes[i])]

Headings(page) == SelectSeq(page, LAMBDA b : b.rank > 0)

\* Where the section of a heading ends: at the next one that is not below it.
SectionEnd(headings, i, end) ==
    LET after == {headings[j].from : j \in {k \in i + 1 .. Len(headings) :
                                              headings[k].rank <= headings[i].rank}}
    IN  Min(after \cup {end})

\* The code blocks come first, each where it ends, then the sections.
MarkdownRegions(page, size) ==
    LET headings == Headings(page)
        code == SelectSeq(page, LAMBDA b : b.rank = 0 /\ SeveralLines(b.from, b.to))
        sections == [i \in DOMAIN headings |->
                        [from |-> headings[i].from, to |-> SectionEnd(headings, i, size)]]
        long == SelectSeq(sections, LAMBDA s : SeveralLines(s.from, s.to))
    IN  IF Len(page) > MaxEvents THEN None
        ELSE [i \in DOMAIN code |-> Region(code[i].from, code[i].to, "code_block")]
             \o [i \in DOMAIN long |-> Region(long[i].from, long[i].to, "heading")]

\* Mutant: at the same line the narrower region comes first.
NarrowFirst(raw, i, j) ==
    \/ raw[i].start < raw[j].start
    \/ raw[i].start = raw[j].start /\ raw[i].end < raw[j].end
    \/ raw[i].start = raw[j].start /\ raw[i].end = raw[j].end /\ i < j

\* The sort keeps the order of regions with the same lines.
WiderFirst(raw, i, j) ==
    \/ raw[i].start < raw[j].start
    \/ raw[i].start = raw[j].start /\ raw[i].end > raw[j].end
    \/ raw[i].start = raw[j].start /\ raw[i].end = raw[j].end /\ i < j

\* The regions still open at a line: those of kept that nest down to it.
StillOpen(kept, nesting, line) ==
    LET ended == {i \in DOMAIN nesting : \A j \in i .. Len(nesting) : kept[nesting[j]].end < line}
    IN  SubSeq(nesting, 1, Len(nesting) - Cardinality(ended))

\* One region after the other: at most one begins in a line, and one that ends
\* after the innermost open region does not fit.
Keep(done, region) ==
    LET open == StillOpen(done.kept, done.nesting, region.start)
    IN  IF done.kept # <<>> /\ Last(done.kept).start = region.start THEN done
        ELSE IF open # <<>> /\ region.end > done.kept[Last(open)].end
        THEN [done EXCEPT !.nesting = open]
        ELSE [kept    |-> Append(done.kept, region),
              nesting |-> Append(open, Len(done.kept) + 1)]

\* heads: the text of every line, without the blanks around it, as its hash tells it.
Anchored(kept, heads) ==
    LET same(i, j) == kept[j].kind = kept[i].kind /\ heads[kept[j].start] = heads[kept[i].start]
    IN  [i \in DOMAIN kept |->
            [start |-> kept[i].start, end |-> kept[i].end, kind |-> kept[i].kind,
             anchor |-> <<kept[i].kind, heads[kept[i].start],
                          Cardinality({j \in 1 .. i - 1 : same(i, j)})>>]]

Normalized(raw, heads) ==
    LET fitting == SelectSeq(raw, LAMBDA r : r.start < r.end /\ r.end \in DOMAIN heads)
        order == SetToSortSeq(DOMAIN fitting, LAMBDA i, j : WiderFirst(fitting, i, j))
        sorted == [i \in DOMAIN order |-> fitting[order[i]]]
    IN  IF Len(raw) > MaxRegions THEN <<>>
        ELSE Anchored(FoldLeft(Keep, [kept |-> <<>>, nesting |-> <<>>], sorted).kept, heads)

--------------------------------------------------------------------------------
(* Symbols                                                                     *)

\* What a node of this kind is in the outline, and what it is as the place of others.
\* active: the symbols around it, outermost first.
Describe(flavor, tree, n, active) ==
    LET kind == tree[n].kind
        as(k, owner) == [kind |-> k, owner |-> owner]
        owners == SelectSeq(active, LAMBDA a : a.owner \in {"class", "function"})
    IN  CASE flavor = "rust" /\ kind = "function_item" ->
                 as(IF InImplementation(tree, n) THEN "method" ELSE "function", "function")
          [] flavor = "rust" /\ kind = "trait_item" -> as("type", "trait")
          [] flavor = "rust" /\ kind \in {"struct_item", "enum_item", "union_item",
                                          "type_item"} -> as("type", "type")
          [] flavor = "rust" /\ kind = "mod_item" -> as("module", "module")
          [] flavor = "python" /\ kind = "function_definition" ->
                 as(IF owners # <<>> /\ Last(owners).owner = "class"
                    THEN "method" ELSE "function", "function")
          [] flavor = "python" /\ kind = "class_definition" -> as("type", "class")
          [] flavor = "go" /\ kind = "function_declaration" -> as("function", "root")
          [] flavor = "go" /\ kind = "method_declaration" -> as("method", "root")
          [] flavor = "go" /\ kind = "type_spec" -> as("type", "root")
          [] flavor \in {"typescript", "javascript"}
                /\ kind \in {"function_declaration", "generator_function_declaration"} ->
                 as("function", "function")
          [] \/ flavor \in {"typescript", "javascript"} /\ kind = "method_definition"
             \/ flavor = "typescript" /\ kind \in {"abstract_method_signature",
                                                   "method_signature"} -> as("method", "method")
          [] \/ flavor \in {"typescript", "javascript"} /\ kind = "class_declaration"
             \/ flavor = "typescript"
                   /\ kind \in {"abstract_class_declaration", "interface_declaration",
                                "enum_declaration", "type_alias_declaration"} ->
                 as("type", "type")
          [] flavor = "typescript" /\ kind = "internal_module" -> as("module", "module")
          [] OTHER -> None

\* The owners a symbol may be a part of.
Holders(flavor, owner) ==
    CASE flavor = "rust" -> IF owner = "function" THEN {"module", "trait"} ELSE {"module"}
      [] flavor = "typescript" -> IF owner = "module" THEN {"module"} ELSE {"module", "type"}
      [] flavor = "javascript" -> IF owner = "method" THEN {"type"} ELSE {"type", "function"}
      [] flavor = "python" -> {"class", "function"}
      [] OTHER -> {}

Parent(flavor, owner, active) ==
    LET holders == SelectSeq(active, LAMBDA a : a.owner \in Holders(flavor, owner))
    IN  IF holders = <<>> THEN 0 ELSE Last(holders).id

NameOf(tree, n) == {m \in DOMAIN tree : tree[m].up = n /\ tree[m].names}

\* What the walk knows when it comes to a node: the symbols found, how deep each is,
\* and which of them are around the node.  It fails as a whole.
VisitSymbol(flavor, tree, done, n) ==
    LET active == SelectSeq(done.active, LAMBDA a : Contains(Path(tree, n), a.node))
        described == Describe(flavor, tree, n, active)
        name == CHOOSE m \in NameOf(tree, n) : TRUE
        parent == Parent(flavor, described.owner, active)
        depth == IF parent = 0 THEN 1 ELSE done.symbols[parent].depth + 1
        id == Len(done.symbols) + 1
        symbol == [kind |-> described.kind, parent |-> parent, depth |-> depth,
                   from |-> tree[n].from, to |-> tree[n].to,
                   name |-> <<tree[name].from, tree[name].to>>, node |-> n]
        fits == /\ Len(done.symbols) < MaxSymbols /\ depth <= MaxDepth
                /\ tree[n].from < tree[n].to /\ tree[name].from < tree[name].to
                /\ tree[n].from <= tree[name].from /\ tree[name].to <= tree[n].to
    IN  IF done.failed \/ described = None THEN [done EXCEPT !.active = active]
        ELSE IF ~tree[n].sound THEN [done EXCEPT !.failed = TRUE]
        ELSE IF NameOf(tree, n) = {} THEN [done EXCEPT !.active = active]
        ELSE IF ~tree[name].sound \/ ~fits THEN [done EXCEPT !.failed = TRUE]
        ELSE [done EXCEPT !.symbols = Append(@, symbol),
                          !.active  = Append(active, [id |-> id, owner |-> described.owner,
                                                      node |-> n])]

CodeSymbols(flavor, tree) ==
    LET visit(done, n) == VisitSymbol(flavor, tree, done, n)
        walked == FoldLeft(visit, [symbols |-> <<>>, active |-> <<>>, failed |-> FALSE],
                           [n \in 1 .. Len(tree) |-> n])
    IN  IF Len(tree) > MaxSymbolNodes \/ walked.failed THEN None ELSE walked.symbols

\* A heading without text is no symbol, yet it ends the sections of its rank and below.
VisitHeading(headings, size, done, i) ==
    LET rank == headings[i].rank
        open == SelectSeq(done.hierarchy, LAMBDA h : h.rank < rank)
        symbol == [kind |-> "heading", depth |-> Len(open) + 1,
                   parent |-> IF open = <<>> THEN 0 ELSE Last(open).id,
                   from |-> Width * LineOf(headings[i].from),
                   to |-> SectionEnd(headings, i, size),
                   name |-> <<headings[i].from, headings[i].to>>, node |-> i]
    IN  IF done.failed \/ ~headings[i].named THEN [done EXCEPT !.hierarchy = open]
        ELSE IF Len(done.symbols) >= MaxSymbols \/ Len(open) >= MaxDepth
        THEN [done EXCEPT !.failed = TRUE]
        ELSE [done EXCEPT !.symbols   = Append(@, symbol),
                          !.hierarchy = Append(open, [rank |-> rank,
                                                      id |-> Len(done.symbols) + 1])]

MarkdownSymbols(page, size) ==
    LET headings == Headings(page)
        visit(done, i) == VisitHeading(headings, size, done, i)
        walked == FoldLeft(visit, [symbols |-> <<>>, hierarchy |-> <<>>, failed |-> FALSE],
                           [i \in 1 .. Len(headings) |-> i])
    IN  IF Len(page) > MaxEvents \/ walked.failed THEN None ELSE walked.symbols

--------------------------------------------------------------------------------
(* Tokens                                                                      *)

TokenKinds(flavor) ==
    CASE flavor = "rust" -> {"identifier", "type_identifier", "field_identifier"}
      [] flavor \in {"typescript", "javascript"} ->
             {"identifier", "property_identifier", "private_property_identifier",
              "type_identifier", "shorthand_property_identifier",
              "shorthand_property_identifier_pattern"}
      [] flavor = "python" -> {"identifier"}
      [] flavor = "go" -> {"identifier", "field_identifier", "type_identifier",
                           "package_identifier"}

Tokens(flavor, tree) ==
    LET leaf(n) == /\ tree[n].kind \in TokenKinds(flavor)
                   /\ \A m \in DOMAIN tree : tree[m].up # n
        leaves == {n \in DOMAIN tree : leaf(n)}
        spans == {<<tree[n].from, tree[n].to>> : n \in leaves}
        order == SetToSortSeq(spans, LAMBDA s, t : s[1] < t[1] \/ (s[1] = t[1] /\ s[2] < t[2]))
    IN  IF \/ Len(tree) > MaxTokenNodes
           \/ Cardinality(leaves) > MaxTokens
           \/ \E n \in leaves : ~tree[n].sound \/ tree[n].from >= tree[n].to
           \/ \E i \in 1 .. Len(order) - 1 : order[i][2] > order[i + 1][1]
        THEN None ELSE order

\* The token a byte is in: the last one that begins at it or before, unless it has ended.
Containing(tokens, byte) ==
    LET before == {i \in DOMAIN tokens : tokens[i][1] <= byte}
    IN  IF before = {} \/ byte >= tokens[Max(before)][2] THEN None ELSE tokens[Max(before)]

--------------------------------------------------------------------------------
(* The snapshot of a document                                                  *)

OrElse(projection, otherwise) == IF projection = None THEN otherwise ELSE projection

\* The projections of one parse: none of them fails with another.
CodeSnapshot(flavor, tree, heads) ==
    LET regions == CodeRegions(flavor, tree)
        symbols == CodeSymbols(flavor, tree)
        tokens == Tokens(flavor, tree)
    IN  [folds |-> IF regions = None THEN <<>> ELSE Normalized(regions, heads),
         symbols |-> OrElse(symbols, <<>>), symbolsComplete |-> symbols # None,
         tokens |-> OrElse(tokens, <<>>), tokensComplete |-> tokens # None]

\* Markdown has no tokens, and lacks none.
MarkdownSnapshot(page, size, heads) ==
    LET regions == MarkdownRegions(page, size)
        symbols == MarkdownSymbols(page, size)
    IN  [folds |-> IF regions = None THEN <<>> ELSE Normalized(regions, heads),
         symbols |-> OrElse(symbols, <<>>), symbolsComplete |-> symbols # None,
         tokens |-> <<>>, tokensComplete |-> TRUE]

\* What is clicked on: nothing, when tokens are missing.
TokenAt(snapshot, byte) ==
    IF snapshot.tokensComplete THEN Containing(snapshot.tokens, byte) ELSE None

--------------------------------------------------------------------------------
(* What an outline promises                                                    *)

\* The regions are a tree: no two begin in one line, and each lies in another or
\* after it.  One is left out only for a wider one that begins in its first line,
\* or because it would end outside of one it begins in.  Each has an anchor of its own.
FoldsAreATree(raw, folds) ==
    /\ \A i, j \in DOMAIN folds : i < j =>
           /\ folds[i].start < folds[j].start
           /\ folds[i].end < folds[j].start \/ folds[j].end <= folds[i].end
           /\ folds[i].anchor # folds[j].anchor
    /\ \A i \in DOMAIN raw : \E k \in DOMAIN folds :
           \/ folds[k].start = raw[i].start /\ folds[k].end >= raw[i].end
           \/ /\ folds[k].start < raw[i].start
              /\ folds[k].end \in raw[i].start .. raw[i].end - 1

\* Symbols come in the order of the text; one that is part of another lies in it.
SymbolsNest(symbols) ==
    \A i \in DOMAIN symbols :
        LET parent == symbols[i].parent
        IN  /\ i > 1 => symbols[i - 1].from <= symbols[i].from
            /\ parent < i
            /\ parent > 0 => /\ symbols[parent].from <= symbols[i].from
                             /\ symbols[i].to <= symbols[parent].to
                             /\ symbols[i].depth = symbols[parent].depth + 1

\* In a complete outline of code every declaration with a name is a symbol, of the
\* kind its region has if it can be folded.
DeclarationsAreSymbols(flavor, tree, snapshot) ==
    LET declared == {n \in DOMAIN tree : /\ Describe(flavor, tree, n, <<>>) # None
                                         /\ NameOf(tree, n) # {}}
        symbols == snapshot.symbols
    IN  snapshot.symbolsComplete =>
            /\ {symbols[i].node : i \in DOMAIN symbols} = declared
            /\ \A i \in DOMAIN symbols :
                   FoldKind(flavor, tree, symbols[i].node) \in {None, symbols[i].kind}

\* A heading is part of the last named section that has not ended when it begins.
SectionsHoldHeadings(symbols) ==
    \A i \in DOMAIN symbols :
        symbols[i].parent = Max({0} \cup {j \in 1 .. i - 1 : symbols[j].to > symbols[i].from})

\* A click on a byte finds the token the byte is in, and nothing where there is none.
TokensAreFound(snapshot, size) ==
    \A byte \in 0 .. size :
        LET around == {i \in DOMAIN snapshot.tokens :
                          /\ snapshot.tokens[i][1] <= byte
                          /\ byte < snapshot.tokens[i][2]}
        IN  IF around = {} THEN TokenAt(snapshot, byte) = None
            ELSE \A i \in around : TokenAt(snapshot, byte) = snapshot.tokens[i]

CodeIsOutlined(flavor, tree, heads) ==
    LET snapshot == CodeSnapshot(flavor, tree, heads)
        raw == CodeRegions(flavor, tree)
    IN  /\ raw # None /\ Len(raw) <= MaxRegions => FoldsAreATree(raw, snapshot.folds)
        /\ SymbolsNest(snapshot.symbols)
        /\ DeclarationsAreSymbols(flavor, tree, snapshot)
        /\ TokensAreFound(snapshot, Width * Cardinality(DOMAIN heads))

MarkdownIsOutlined(page, size, heads) ==
    LET snapshot == MarkdownSnapshot(page, size, heads)
        raw == MarkdownRegions(page, size)
    IN  /\ raw # None /\ Len(raw) <= MaxRegions => FoldsAreATree(raw, snapshot.folds)
        /\ SymbolsNest(snapshot.symbols)
        /\ SectionsHoldHeadings(snapshot.symbols)
================================================================================
