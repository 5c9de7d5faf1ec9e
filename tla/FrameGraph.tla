----------------------------- MODULE FrameGraph -----------------------------
(***************************************************************************)
(* layout/frame_graph.py, validation.py and annotation_adapter.py: the     *)
(* translated units and the notes below them become the measured flows     *)
(* that Pagination packs, and a trial of a set of annotations is a layout  *)
(* of the graph they give.                                                 *)
(*                                                                         *)
(* A unit is [role, pages, text]; its number is its place in reading       *)
(* order.  An item is [id, kind, unit, start, end, content].               *)
(***************************************************************************)
EXTENDS LineBreaking, Pagination

CONSTANTS
    FullWidth,    \* the width of the right panel without its padding
    ColumnGap,    \* column_gap_mpt
    MaxItems,     \* max_items_total
    MaxLabels,    \* max_labels_per_unit
    MaxStyled,    \* max_styled_per_unit
    MaxAuxiliary, \* max_auxiliary_per_unit
    MaxContent,   \* max_content_chars_per_item
    MaxComposite, \* max_composite_chars_per_unit
    MaxTotal      \* max_composite_chars_total

ColumnWidth == (FullWidth - ColumnGap) \div 2

ASSUME FrameGraphAssumption ==
    /\ FullWidth \in Nat /\ ColumnGap \in Nat /\ ColumnWidth > 0
    /\ MaxItems \in Nat /\ MaxLabels \in Nat /\ MaxStyled \in Nat /\ MaxAuxiliary \in Nat
    /\ MaxContent \in Nat /\ MaxComposite \in Nat /\ MaxTotal \in Nat

Red == {"dark-red-highlight", "bright-red-ambiguity"}
NoteKinds == {"dark-orange-teaching", "figure-table-reading"}
OneColumnRoles == {"title", "abstract", "keywords"}

ColumnsOf(role) == IF role \in OneColumnRoles THEN 1 ELSE 2
WidthFor(role) == IF ColumnsOf(role) = 1 THEN FullWidth ELSE ColumnWidth
LeadingFor(role) == CASE role = "title" -> 4 [] role = "heading" -> 3 [] OTHER -> 2

ItemsOf(items, u, kinds) == SelectSeq(items, LAMBDA i : i.unit = u /\ i.kind \in kinds)

(* The label of an ambiguous passage is written behind it.                 *)
Labels(items, u) ==
    LET bright == SelectSeq(ItemsOf(items, u, {"bright-red-ambiguity"}),
                            LAMBDA i : i.content # <<>>)
    IN  [k \in DOMAIN bright |->
           [id |-> bright[k].id, offset |-> bright[k].end, text |-> bright[k].content]]

UnitFlow(units, items, u) ==
    LET unit == units[u]
        measured == MeasureComposite(unit.text, Labels(items, u), WidthFor(unit.role),
                                     LeadingFor(unit.role))
    IN  [id |-> <<"unit", u>>, unit |-> u, role |-> unit.role,
         columns |-> ColumnsOf(unit.role), error |-> measured.error,
         lines |-> measured.lines, length |-> Len(unit.text), pages |-> unit.pages,
         composite |-> CompositeText(Segments(unit.text, Labels(items, u))),
         styled |-> {i.id : i \in ToSet(ItemsOf(items, u, Red))}]

AuxiliaryFlow(units, item) ==
    LET unit == units[item.unit]
        measured == MeasureAuxiliary(item.content, item.id, Len(unit.text),
                                     WidthFor(unit.role), LeadingFor("auxiliary"))
    IN  [id |-> <<"aux", item.id>>, unit |-> item.unit, role |-> "auxiliary",
         columns |-> ColumnsOf(unit.role), error |-> measured.error,
         lines |-> measured.lines, length |-> Len(unit.text), pages |-> unit.pages,
         composite |-> item.content, styled |-> {}]

(* Every unit in reading order, its notes behind it in their order.        *)
Flows(units, items) ==
    FlattenSeq([u \in DOMAIN units |->
        <<UnitFlow(units, items, u)>>
        \o LET notes == ItemsOf(items, u, NoteKinds)
           IN  [k \in DOMAIN notes |-> AuxiliaryFlow(units, notes[k])]])

(***************************************************************************)
(* The integrity that every stored graph is checked for again.             *)
(***************************************************************************)
FlowIds(flows) == [f \in DOMAIN flows |-> flows[f].id]

NotesFollowParents(flows) ==
    \A f \in DOMAIN flows :
        flows[f].id[1] = "aux" =>
            /\ f > 1
            /\ flows[f - 1].unit = flows[f].unit
            /\ flows[f - 1].columns = flows[f].columns

LinesIntact(flow) ==
    LET safe == Boundaries(flow.composite)
    IN  /\ flow.lines # <<>>
        /\ flow.lines[1].compositeStart = 0
        /\ Last(flow.lines).compositeEnd = Len(flow.composite)
        /\ \A k \in DOMAIN flow.lines :
              LET line == flow.lines[k]
              IN  /\ k > 1 => line.compositeStart = flow.lines[k - 1].compositeEnd
                  /\ {line.compositeStart, line.compositeEnd} \subseteq safe
                  /\ "newline" \notin ToSet(line.text)
                  /\ Strip(SubSeq(flow.composite, line.compositeStart + 1, line.compositeEnd))
                        = line.text

ValidGraph(flows, sources) ==
    /\ IsInjective(FlowIds(flows))
    /\ \A f \in DOMAIN flows :
          /\ flows[f].id[1] = "unit" => flows[f].columns = ColumnsOf(flows[f].role)
          /\ LinesIntact(flows[f])
          /\ flows[f].pages \subseteq 1 .. sources
    /\ NotesFollowParents(flows)

(* The pages of the source that hold text or figures are the budget.       *)
BuildGraph(units, items, sources, figures, warning) ==
    LET flows == Flows(units, items)
        failed == {f \in DOMAIN flows : flows[f].error # "none"}
        body == UNION {units[u].pages : u \in DOMAIN units} \cup figures
        heights(f) == [k \in DOMAIN flows[f].lines |-> flows[f].lines[k].height]
        error == CASE failed # {} -> flows[Min(failed)].error
                   [] ~ValidGraph(flows, sources) -> "SchemaValidationError"
                   [] OTHER -> "none"
    IN  [error |-> error, lines |-> [f \in DOMAIN flows |-> flows[f].lines],
         flows |-> [f \in DOMAIN flows |->
                      [unit |-> flows[f].unit, role |-> flows[f].role,
                       columns |-> flows[f].columns, heights |-> heights(f)]],
         sources |-> sources, budget |-> Max({1, Cardinality(body)}), warning |-> warning]

(***************************************************************************)
(* Annotations are refused before anything is measured when they are too   *)
(* many or too long, or when one splits a cluster.                         *)
(***************************************************************************)
WithinLimits(units, items) ==
    LET of(u) == ItemsOf(items, u, Red \cup NoteKinds)
        composite(u) == Len(units[u].text)
                        + SumFunction([k \in DOMAIN of(u) |-> Len(of(u)[k].content)])
    IN  /\ Len(items) <= MaxItems
        /\ \A i \in DOMAIN items : Len(items[i].content) <= MaxContent
        /\ \A u \in DOMAIN units :
              /\ composite(u) <= MaxComposite
              /\ Len(Labels(items, u)) <= MaxLabels
              /\ Len(ItemsOf(items, u, Red)) <= MaxStyled
              /\ Len(ItemsOf(items, u, NoteKinds)) <= MaxAuxiliary
        /\ SumFunction([u \in DOMAIN units |-> composite(u)]) <= MaxTotal

SpansSafe(units, items) ==
    \A i \in DOMAIN items :
        {items[i].start, items[i].end} \subseteq Boundaries(units[items[i].unit].text)

(* Items are stored as a reader meets them: by unit, by place, by kind.    *)
KindOrder == [k \in Red \cup NoteKinds |->
    CASE k = "dark-red-highlight" -> 0 [] k = "bright-red-ambiguity" -> 1
      [] k = "figure-table-reading" -> 2 [] k = "dark-orange-teaching" -> 3]

ItemOrder(a, b) ==
    \/ a.unit < b.unit
    \/ a.unit = b.unit /\ a.start < b.start
    \/ a.unit = b.unit /\ a.start = b.start /\ KindOrder[a.kind] < KindOrder[b.kind]
    \/ a.unit = b.unit /\ a.start = b.start /\ a.kind = b.kind /\ a.id < b.id

(* A trial tells the selection whether a set of annotations can be laid    *)
(* out, and on how many pages.  Only a layout without a place for a line   *)
(* is an answer; every other failure stops the selection.                  *)
Trial(units, annotations, sources, figures, warning) ==
    LET items == Sorted(annotations, ItemOrder)
        graph == BuildGraph(units, items, sources, figures, warning)
        layout == SolveLayout(graph)
        answer(error, feasible) ==
            [error |-> error, feasible |-> feasible, continuation |-> layout.continuation,
             chinese |-> layout.chinese, budget |-> graph.budget]
    IN  CASE ~WithinLimits(units, items) \/ ~SpansSafe(units, items) ->
                answer("AnnotationAdapterError", FALSE)
          [] graph.error # "none" -> answer(graph.error, FALSE)
          [] layout.error = "LayoutInfeasibleError" -> answer("none", FALSE)
          [] layout.error # "none" -> answer(layout.error, FALSE)
          [] OTHER -> answer("none", TRUE)
=============================================================================
