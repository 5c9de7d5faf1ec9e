----------------------------- MODULE Pagination -----------------------------
(***************************************************************************)
(* layout/solver.py: the measured lines of the flows, in reading order,    *)
(* are packed into the columns of as many pages as they need, and the      *)
(* responsibility statement into what is left of the last page.            *)
(*                                                                         *)
(* A graph is a record                                                     *)
(*   flows    the flows in flow order: [unit, role, columns, heights]      *)
(*   sources  the number of pages of the source                            *)
(*   budget   the number of its pages that have a body                     *)
(*   warning  the height of the statement                                  *)
(* Heights are small integers; y grows downwards, as `top' in the code.    *)
(***************************************************************************)
EXTENDS Integers, Sequences, SequencesExt, FiniteSetsExt

CONSTANTS
    PageHeight,      \* A3_LANDSCAPE_HEIGHT_MPT
    Margin,          \* vertical_padding_mpt
    BlockGap,        \* block_gap_mpt
    HeadingWithNext, \* heading_with_next_lines
    MaxPages,        \* LayoutLimits.max_pages
    MaxLines         \* LayoutLimits.max_lines

ASSUME PaginationAssumption ==
    /\ PageHeight \in Nat /\ Margin \in Nat /\ BlockGap \in Nat
    /\ 2 * Margin < PageHeight
    /\ HeadingWithNext \in Nat \ {0}
    /\ MaxPages \in Nat \ {0} /\ MaxLines \in Nat \ {0}

NoWarning == 0

FirstPage == [pages |-> 1, column |-> 0, top |-> Margin, start |-> Margin, columns |-> 1,
              placed |-> <<>>, error |-> "none"]

(* Every flow has lines, and every line and the statement a height; the    *)
(* paper has a page.                                                       *)
LayoutFlows == [unit : Nat, role : STRING, columns : {1, 2}, heights : Seq(Nat \ {0})]

IsGraph(graph) ==
    /\ graph \in [flows : Seq(LayoutFlows), sources : Nat \ {0}, budget : Nat,
                  warning : Nat \ {0}]
    /\ \A f \in DOMAIN graph.flows : graph.flows[f].heights # <<>>

(* The lowest y a line may reach on a page: the statement is kept free.    *)
Bottom(graph, page, warningPage) ==
    PageHeight - Margin -
        (IF page = warningPage THEN graph.warning + BlockGap ELSE 0)

NewPage(s) ==
    IF s.pages >= MaxPages THEN [s EXCEPT !.error = "LayoutComplexityError"]
    ELSE [s EXCEPT !.pages = @ + 1, !.column = 0, !.top = Margin, !.start = Margin]

NextColumn(s) ==
    IF s.columns = 2 /\ s.column = 0
    THEN [s EXCEPT !.column = 1, !.top = s.start]
    ELSE NewPage(s)

(* A bug: a flow of another width starts where the last one stopped.       *)
BeginFlowBeside(s, graph, f) ==
    LET flow == graph.flows[f]
    IN  [s EXCEPT !.columns = flow.columns, !.start = s.top,
                  !.column = IF flow.columns = s.columns THEN @ ELSE 0]

(* A flow of another width starts below everything on the page; another    *)
(* unit starts after a gap.                                                *)
BeginFlow(s, graph, f) ==
    LET flow == graph.flows[f]
        changed == flow.columns # s.columns
        below == Max({s.top} \cup {l.top + l.height : l \in {p \in ToSet(s.placed) :
                                                              p.page = s.pages}})
        gap == IF f > 1 /\ graph.flows[f - 1].unit # flow.unit THEN BlockGap ELSE 0
        top == (IF changed THEN below ELSE s.top) + gap
    IN  IF changed
        THEN [s EXCEPT !.columns = flow.columns, !.column = 0, !.top = top, !.start = top]
        ELSE [s EXCEPT !.top = top]

TotalHeight(lines) == FoldLeft(+, 0, lines)

FirstLines(lines, n) == IF n < Len(lines) THEN SubSeq(lines, 1, n) ELSE lines

(* The height a heading wants with it: its own lines, the next lines of    *)
(* the flows that follow, and the gaps between their units.                *)
Reserve(graph, f) ==
    LET own == TotalHeight(graph.flows[f].heights)
        follow(done, g) ==
            IF done.remaining = 0 THEN done
            ELSE LET flow == graph.flows[g]
                     next == FirstLines(flow.heights, done.remaining)
                     gap == IF graph.flows[g - 1].unit # flow.unit THEN BlockGap ELSE 0
                 IN  [remaining |-> done.remaining - Len(next),
                      height |-> done.height + gap + TotalHeight(next)]
    IN  FoldLeft(follow, [remaining |-> HeadingWithNext, height |-> own],
                 [k \in 1 .. Len(graph.flows) - f |-> f + k]).height

(* A heading is moved when it would fit in a column with what it wants     *)
(* with it, but not here; a line when it does not fit, unless the column   *)
(* is empty.                                                               *)
MustMove(s, graph, f, k, warningPage) ==
    LET flow == graph.flows[f]
        bottom == Bottom(graph, s.pages, warningPage)
    IN  /\ s.error = "none"
        /\ \/ /\ flow.role = "heading" /\ k = 1
              /\ Reserve(graph, f) <= bottom - Margin
              /\ s.top + Reserve(graph, f) > bottom
           \/ s.top # Margin /\ s.top + flow.heights[k] > bottom

(* Line k of flow f is placed here, or else in the next column, or else on *)
(* the next page, or else nowhere.                                         *)
PlaceLine(s, graph, f, k, warningPage) ==
    LET flow == graph.flows[f]
        height == flow.heights[k]
        move(x) == IF MustMove(x, graph, f, k, warningPage) THEN NextColumn(x) ELSE x
        m == move(move(s))
        line == [flow |-> f, line |-> k, page |-> m.pages, column |-> m.column,
                 columns |-> flow.columns, top |-> m.top, height |-> height]
    IN  IF m.error # "none" THEN m
        ELSE IF m.top + height <= Bottom(graph, m.pages, warningPage)
        THEN [m EXCEPT !.placed = Append(@, line), !.top = @ + height]
        ELSE [m EXCEPT !.error = "LayoutInfeasibleError"]

PlaceFlow(s, graph, f, warningPage) ==
    LET place(done, k) == PlaceLine(done, graph, f, k, warningPage)
    IN  FoldLeft(place, BeginFlow(s, graph, f),
                 [k \in DOMAIN graph.flows[f].heights |-> k])

(* All flows on pages of which one has the statement.                      *)
Pack(graph, warningPage) ==
    LET flow(done, f) == IF done.error # "none" THEN done
                         ELSE PlaceFlow(done, graph, f, warningPage)
    IN  FoldLeft(flow, FirstPage, [f \in DOMAIN graph.flows |-> f])

Paginate(graph, sources, warningPage) ==
    LET end == Pack(graph, warningPage)
        wanted == Max({end.pages, sources, warningPage})
        lines == SumFunction([f \in DOMAIN graph.flows |-> Len(graph.flows[f].heights)])
    IN  IF lines > MaxLines THEN [FirstPage EXCEPT !.error = "LayoutComplexityError"]
        ELSE IF end.error # "none" THEN end
        ELSE IF wanted > MaxPages THEN [end EXCEPT !.error = "LayoutComplexityError"]
        ELSE [end EXCEPT !.pages = wanted]

(* What is free below the blocks of the last page.                         *)
FreeTop(run) ==
    LET bottoms == {l.top + l.height : l \in {p \in ToSet(run.placed) : p.page = run.pages}}
    IN  IF bottoms = {} THEN Margin ELSE Max(bottoms) + BlockGap

(* Content that fits the pages beside no statement leaves it one page more. *)
PagesWithWarning(graph, sources) ==
    LET plain == Paginate(graph, sources, NoWarning)
        beside == Paginate(graph, sources, plain.pages)
        run == IF beside.error = "none" /\ beside.pages > plain.pages
               THEN Paginate(graph, sources, plain.pages + 1) ELSE beside
    IN  IF plain.error # "none" THEN plain
        ELSE IF run.error # "none" \/ PageHeight - Margin - FreeTop(run) >= graph.warning THEN run
        ELSE [run EXCEPT !.error = "LayoutInfeasibleError"]

(* The Chinese pages are counted without the pages of the source that      *)
(* the Chinese text does not need.                                         *)
SolveLayout(graph) ==
    LET run == PagesWithWarning(graph, graph.sources)
        compact == IF graph.sources = 1 THEN run ELSE PagesWithWarning(graph, 1)
    IN  IF run.error # "none" \/ compact.error # "none"
        THEN [error |-> IF run.error # "none" THEN run.error ELSE compact.error,
              placed |-> <<>>, pages |-> 0, freeTop |-> 0, continuation |-> 0,
              chinese |-> 0, exceeded |-> FALSE]
        ELSE [error |-> "none", placed |-> run.placed, pages |-> run.pages,
              freeTop |-> FreeTop(run),
              continuation |-> run.pages - graph.sources,
              chinese |-> compact.pages,
              exceeded |-> compact.pages > graph.budget]

(***************************************************************************)
(* What a layout must be.                                                  *)
(***************************************************************************)
(* Every line is placed once, in the order of the flows.                   *)
PlacedInOrder(graph, layout) ==
    LET at(i) == layout.placed[i]
    IN  /\ \A f \in DOMAIN graph.flows : \A k \in DOMAIN graph.flows[f].heights :
              \E i \in DOMAIN layout.placed : at(i).flow = f /\ at(i).line = k
        /\ \A i \in DOMAIN layout.placed :
              /\ at(i).flow \in DOMAIN graph.flows
              /\ at(i).line \in DOMAIN graph.flows[at(i).flow].heights
              /\ at(i).height = graph.flows[at(i).flow].heights[at(i).line]
        /\ \A i, j \in DOMAIN layout.placed : i < j =>
              \/ at(i).flow < at(j).flow
              \/ at(i).flow = at(j).flow /\ at(i).line < at(j).line

(* Two lines of one page overlap when they share a column and a height;    *)
(* a line across both columns shares either.                               *)
Overlap(a, b) ==
    /\ a.page = b.page
    /\ a.columns = 1 \/ b.columns = 1 \/ a.column = b.column
    /\ a.top < b.top + b.height
    /\ b.top < a.top + a.height

NothingOverlaps(layout) ==
    \A i, j \in DOMAIN layout.placed :
        i < j => ~Overlap(layout.placed[i], layout.placed[j])

InsidePages(layout) ==
    \A i \in DOMAIN layout.placed :
        LET l == layout.placed[i]
        IN  /\ l.page <= layout.pages
            /\ l.top >= Margin
            /\ l.top + l.height <= PageHeight - Margin

(* A reader who goes down a column, then to the next one, then to the next *)
(* page meets the lines in order.                                          *)
ReadInOrder(layout) ==
    \A i, j \in DOMAIN layout.placed :
        LET a == layout.placed[i]
            b == layout.placed[j]
        IN  i < j =>
            \/ a.page < b.page
            \/ a.page = b.page /\ a.columns = 2 /\ b.columns = 2 /\ a.column < b.column
            \/ a.page = b.page /\ a.top < b.top

(* The statement has its room on the last page, below everything.          *)
StatementFits(graph, layout) ==
    /\ PageHeight - Margin - layout.freeTop >= graph.warning
    /\ \A i \in DOMAIN layout.placed :
          LET l == layout.placed[i]
          IN  l.page = layout.pages => l.top + l.height + BlockGap <= layout.freeTop

(* A heading whose next lines are text of its own width, and which fits in *)
(* a column with them, is in one column with them.                         *)
HeadingKept(graph, layout, f) ==
    LET at(i) == layout.placed[i]
        first == Min({i \in DOMAIN layout.placed : at(i).flow = f})
        next == {i \in DOMAIN layout.placed :
                    /\ first < i
                    /\ i < first + Len(graph.flows[f].heights) + HeadingWithNext}
        plain(i) == \/ at(i).flow = f
                    \/ /\ graph.flows[at(i).flow].role # "heading"
                       /\ at(i).columns = at(first).columns
        room == Bottom(graph, at(first).page, layout.pages) - Margin
    IN  (\A i \in next : plain(i)) /\ Reserve(graph, f) <= room =>
            \A i \in next : at(i).page = at(first).page /\ at(i).column = at(first).column

(* Nothing but a line or a statement too high for a column, or too many    *)
(* pages, stops the layout.                                                *)
EverythingFits(graph) ==
    LET room == PageHeight - 2 * Margin
    IN  /\ graph.warning <= room
        /\ \A f \in DOMAIN graph.flows : \A k \in DOMAIN graph.flows[f].heights :
              graph.flows[f].heights[k] + graph.warning + BlockGap <= room

SoundLayout(graph, layout) ==
    IF layout.error # "none"
    THEN ~EverythingFits(graph) \/ layout.error = "LayoutComplexityError"
    ELSE /\ PlacedInOrder(graph, layout)
         /\ NothingOverlaps(layout)
         /\ InsidePages(layout)
         /\ ReadInOrder(layout)
         /\ StatementFits(graph, layout)
         /\ \A f \in DOMAIN graph.flows :
               graph.flows[f].role = "heading" => HeadingKept(graph, layout, f)
         /\ layout.pages >= graph.sources
         /\ layout.chinese <= layout.pages
=============================================================================
