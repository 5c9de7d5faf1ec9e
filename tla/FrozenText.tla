----------------------------- MODULE FrozenText -----------------------------
(***************************************************************************)
(* rendering/: the final layout becomes a plan of what is drawn.           *)
(* text_draw.py cuts every placed line where its font, its segment or a    *)
(* mark of the translation changes and gives each piece its colour and     *)
(* its underlines; overlay_plan.py adds the statement on the last page     *)
(* (branding.py) and bounds the whole; overlay.py checks each page again   *)
(* before it draws it; compose.py maps the pages to those of the source.   *)
(*                                                                         *)
(* A piece is [flow, part, line, text, color, target, composite, x, width, *)
(* top, height]; y grows downwards, x from the left of the right panel.    *)
(***************************************************************************)
EXTENDS Finalization

CONSTANT MaxRuns   \* max_draw_runs, and max_characters

ASSUME FrozenTextAssumption == MaxRuns \in Nat

(***************************************************************************)
(* The blocks of a page: the lines of one flow in one column.              *)
(***************************************************************************)
PlaceX(l) == IF l.columns = 2 THEN l.column * (ColumnWidth + ColumnGap) ELSE 0

PlacesOf(layout, f) ==
    LET places == {<<l.page, l.column>> : l \in {p \in ToSet(layout.placed) : p.flow = f}}
    IN  Sorted(places, LAMBDA a, b : a[1] < b[1] \/ (a[1] = b[1] /\ a[2] < b[2]))

PartOf(layout, l) ==
    LET places == PlacesOf(layout, l.flow)
    IN  CHOOSE k \in DOMAIN places : places[k] = <<l.page, l.column>>

OnPage(layout, page) == SelectSeq(layout.placed, LAMBDA l : l.page = page)

(***************************************************************************)
(* One line, cut into pieces of one font, one segment and the same marks.  *)
(***************************************************************************)
SegmentsOf(units, items, flow) ==
    IF flow.id[1] = "unit" THEN Segments(units[flow.unit].text, Labels(items, flow.unit))
    ELSE <<[kind |-> "auxiliary", start |-> flow.length, end |-> flow.length,
            id |-> flow.id[2], text |-> flow.composite]>>

StyledOf(items, flow) ==
    IF flow.id[1] = "unit" THEN ToSet(ItemsOf(items, flow.unit, Red)) ELSE {}

(* The visible part of the range of a line, white space at its ends left.  *)
VisibleRange(flow, line) ==
    LET raw == SubSeq(flow.composite, line.compositeStart + 1, line.compositeEnd)
        start == line.compositeStart + Len(raw) - Len(LStrip(raw))
    IN  [sound |-> Strip(raw) = line.text, start |-> start, end |-> start + Len(line.text)]

FontRuns(line, start) ==
    LET runs == Resolve(line.text)
        from(k) == start + SumFunction([j \in 1 .. k - 1 |-> Len(runs[j].text)])
    IN  [k \in DOMAIN runs |-> [start |-> from(k), end |-> from(k + 1), face |-> runs[k].face]]

SegmentRanges(segments) ==
    [k \in DOMAIN segments |->
        [start |-> SegmentStart(segments, k), end |-> SegmentStart(segments, k + 1)]]

(* Where a place of the translation is in the composite text: twice, where *)
(* a label stands.                                                         *)
TargetToComposite(segments, offset) ==
    {SegmentStart(segments, k) + offset - segments[k].start :
        k \in {j \in DOMAIN segments : /\ segments[j].kind = "target"
                                       /\ segments[j].start <= offset
                                       /\ offset <= segments[j].end}}

Edges(ranges) == UNION {{r.start, r.end} : r \in ToSet(ranges)}

LineCuts(fonts, segments, ranges, styled, visible) ==
    LET edges(i) == TargetToComposite(segments, i.start) \cup TargetToComposite(segments, i.end)
        marks == UNION {edges(i) : i \in styled}
    IN  Ascending({x \in Edges(fonts) \cup Edges(ranges)
                             \cup marks \cup {visible.start, visible.end} :
                      visible.start <= x /\ x <= visible.end})

Holding(ranges, from, to) ==
    {k \in DOMAIN ranges : ranges[k].start <= from /\ to <= ranges[k].end}

(* A bug: a mark paints a piece that it only meets.                        *)
CoversByOverlap(item, range) == item.start <= range[2] /\ range[1] <= item.end

Covers(item, range) == item.start <= range[1] /\ range[2] <= item.end

PaintOf(flow, segment, range, styled) ==
    LET covering(kind) == {i.id : i \in {j \in styled : j.kind = kind /\ Covers(j, range)}}
        plain(color) == [color |-> color, underlines |-> {}]
    IN  CASE flow.id[1] = "aux" -> plain("dark_orange")
          [] segment.kind = "ambiguity-label" -> plain("bright_red")
          [] OTHER -> [color |-> IF covering("dark-red-highlight") # {} THEN "dark_red" ELSE "body",
                       underlines |-> covering("bright-red-ambiguity")]

TextWidth(t) == SumFunction([i \in DOMAIN t |-> WidthOf[t[i]]])

(* The pieces of a placed line; there are none when it cannot be drawn as  *)
(* it was measured, or when one of them would have no width.               *)
FreezeLine(units, items, layout, flow, placed) ==
    LET line == flow.lines[placed.line]
        segments == SegmentsOf(units, items, flow)
        ranges == SegmentRanges(segments)
        styled == StyledOf(items, flow)
        visible == VisibleRange(flow, line)
        fonts == FontRuns(line, visible.start)
        cuts == LineCuts(fonts, segments, ranges, styled, visible)
        holding == [k \in 1 .. Len(cuts) - 1 |-> Holding(ranges, cuts[k], cuts[k + 1])]
        width(from, to) == TextWidth(SubSeq(flow.composite, from + 1, to))
        target(k, segment, start) ==
            IF segment.kind = "target"
            THEN <<segment.start + cuts[k] - start, segment.start + cuts[k + 1] - start>>
            ELSE <<segment.start, segment.start>>
        piece(k) ==
            LET s == Max(holding[k])
                range == target(k, segments[s], ranges[s].start)
                paint == PaintOf(flow, segments[s], range, styled)
            IN  [flow |-> flow.id, part |-> PartOf(layout, placed), line |-> placed.line,
                 text |-> SubSeq(flow.composite, cuts[k] + 1, cuts[k + 1]),
                 color |-> paint.color, underlines |-> paint.underlines,
                 target |-> range, composite |-> <<cuts[k], cuts[k + 1]>>,
                 x |-> PlaceX(placed) + width(cuts[1], cuts[k]),
                 width |-> width(cuts[k], cuts[k + 1]), top |-> placed.top,
                 height |-> line.height]
        sound == /\ visible.sound
                 /\ Len(cuts) > 1
                 /\ \A k \in DOMAIN holding :
                       /\ Cardinality(holding[k]) = 1
                       /\ Cardinality(Holding(fonts, cuts[k], cuts[k + 1])) = 1
                       /\ width(cuts[k], cuts[k + 1]) > 0
                 /\ TextWidth(line.text) = line.width
    IN  IF sound THEN [k \in DOMAIN holding |-> piece(k)] ELSE <<>>

(***************************************************************************)
(* The plan of every page.                                                 *)
(***************************************************************************)
PageKind(page, sources) == IF page <= sources THEN "native" ELSE "continuation"

(* The statement, in the middle of what is left of the last page.          *)
FreezeStatement(graph, layout) ==
    LET room == PageHeight - Margin - layout.freeTop
    IN  IF room < graph.warning THEN <<>>
        ELSE <<[top |-> PageHeight - Margin - graph.warning - (room - graph.warning) \div 2,
                height |-> graph.warning]>>

PagePlan(units, items, flows, graph, layout, page) ==
    LET lines == OnPage(layout, page)
        frozen == [k \in DOMAIN lines |->
                      FreezeLine(units, items, layout, flows[lines[k].flow], lines[k])]
        last == page = layout.pages
    IN  [number |-> page, kind |-> PageKind(page, graph.sources),
         continuation |-> Max({0, page - graph.sources}),
         broken |-> \E k \in DOMAIN lines : frozen[k] = <<>>,
         pieces |-> FlattenSeq(frozen),
         statement |-> IF last THEN FreezeStatement(graph, layout) ELSE <<>>]

(* What the drawing checks again, page by page.                            *)
PageDrawable(plan, page) ==
    LET p == plan[page]
    IN  /\ p.number = page
        /\ p.kind = "native" => p.continuation = 0
        /\ p.kind = "continuation" => p.continuation > 0
        /\ (p.statement # <<>>) = (page = Len(plan))
        /\ \A k \in DOMAIN p.pieces :
              LET piece == p.pieces[k]
              IN  /\ piece.text # <<>> /\ piece.width > 0 /\ piece.height > 0
                  /\ piece.target[1] <= piece.target[2]
                  /\ piece.composite[2] - piece.composite[1] = Len(piece.text)

BuildOverlayPlan(paper, final) ==
    LET items == final.artifact.items
        flows == Flows(paper.units, items)
        plan == [page \in 1 .. final.layout.pages |->
                    PagePlan(paper.units, items, flows, final.graph, final.layout, page)]
        drawn(page) == SumFunction([p \in 1 .. page |-> Len(plan[p].pieces)])
        problem(page) ==
            CASE plan[page].broken -> "FROZEN_TEXT_MISMATCH"
              [] ~plan[page].broken /\ page = Len(plan) /\ plan[page].statement = <<>> ->
                    "BRAND_LAYOUT_INVALID"
              [] OTHER -> IF drawn(page) > MaxRuns THEN "PLAN_COMPLEXITY_LIMIT" ELSE "none"
        problems == {page \in DOMAIN plan : problem(page) # "none"}
        stopped(error) == [error |-> error, pages |-> <<>>]
    IN  CASE final.layout # SolveLayout(final.graph) -> stopped("LAYOUT_PARENT_MISMATCH")
          [] final.graph # FinalGraph(paper, final.artifact) ->
                stopped("ANNOTATION_PARENT_MISMATCH")
          [] problems # {} -> stopped(problem(Min(problems)))
          [] \E page \in DOMAIN plan : ~PageDrawable(plan, page) -> stopped("PLAN_TAMPERED")
          [] OTHER -> [error |-> "none", pages |-> plan]

(***************************************************************************)
(* What a plan must be.  Ink is one character as it is drawn.              *)
(***************************************************************************)
Ink(c, color, underlines) == [char |-> c, color |-> color, underlines |-> underlines]

(* The text of a unit as it should be drawn, said without lines, segments  *)
(* or pieces: each character of the translation by the marks that hold it, *)
(* and the labels behind the passages that they are about.                 *)
UnitInk(units, items, u) ==
    LET text == units[u].text
        holding(o, kind) ==
            {i \in ToSet(ItemsOf(items, u, {kind})) : i.start <= o /\ o < i.end}
        label(o) ==
            LET behind == SelectSeq(ItemsOf(items, u, {"bright-red-ambiguity"}),
                                    LAMBDA i : i.end = o)
            IN  FlattenSeq([k \in DOMAIN behind |->
                    [j \in DOMAIN behind[k].content |->
                        Ink(behind[k].content[j], "bright_red", {})]])
        char(o) ==
            Ink(text[o + 1],
                IF holding(o, "dark-red-highlight") = {} THEN "body" ELSE "dark_red",
                {i.id : i \in holding(o, "bright-red-ambiguity")})
    IN  FlattenSeq([k \in 1 .. Len(text) |-> label(k - 1) \o <<char(k - 1)>>]) \o label(Len(text))

NoteInk(item) == [k \in DOMAIN item.content |-> Ink(item.content[k], "dark_orange", {})]

ExpectedInk(units, items) ==
    FlattenSeq([u \in DOMAIN units |->
        UnitInk(units, items, u)
        \o LET notes == ItemsOf(items, u, NoteKinds)
           IN  FlattenSeq([k \in DOMAIN notes |-> NoteInk(notes[k])])])

PlanInk(plan) ==
    LET ink(piece) ==
            [k \in DOMAIN piece.text |-> Ink(piece.text[k], piece.color, piece.underlines)]
    IN  FlattenSeq([p \in DOMAIN plan.pages |->
            FlattenSeq([k \in DOMAIN plan.pages[p].pieces |-> ink(plan.pages[p].pieces[k])])])

(* Everything but white space is drawn, once, in the order of the paper    *)
(* and as it is marked.                                                    *)
DrawnAsMarked(units, items, plan) ==
    LET dark(ink) == SelectSeq(ink, LAMBDA i : ~IsSpace(i.char))
    IN  dark(PlanInk(plan)) = dark(ExpectedInk(units, items))

(* A piece of marks only has no width.  One can be a line or a font of its *)
(* own at the beginning of a text, or behind the slash of a URL.           *)
LoneMark(t) ==
    \E i \in DOMAIN t : t[i] = "mark" /\ (i = 1 \/ t[Max({1, i - 1})] = "slash")

HasLoneMark(units, items) ==
    \/ \E u \in DOMAIN units : LoneMark(units[u].text)
    \/ \E i \in DOMAIN items : items[i].kind \in NoteKinds /\ LoneMark(items[i].content)
=============================================================================
