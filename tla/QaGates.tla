------------------------------- MODULE QaGates -------------------------------
(***************************************************************************)
(* qa/: the gates that a drawn edition has to pass and that are computed   *)
(* from its artifacts alone: the chain of its parents and the plan made    *)
(* anew (api.py), the marks (semantic.py), the place of everything in the  *)
(* right panel (geometry.py) and the pages (page_contract.py).  The gates  *)
(* that read the bytes of the PDF or raster its pages are not modelled.    *)
(***************************************************************************)
EXTENDS FrozenText

(***************************************************************************)
(* Pages.  The manifest says of each which page of the source it holds.    *)
(***************************************************************************)
NoSource == 0

MapPages(graph, layout) ==
    [page \in 1 .. layout.pages |->
        [number |-> page, kind |-> PageKind(page, graph.sources),
         source |-> IF page <= graph.sources THEN page ELSE NoSource,
         continuation |-> Max({0, page - graph.sources})]]

(* Pages of the source first, in their order, then numbered further ones.  *)
SourceManifestPages(pages) ==
    LET extra(k) == Cardinality({j \in 1 .. k : pages[j].kind = "continuation"})
    IN  /\ pages # <<>> /\ pages[1].kind = "native"
        /\ \A k \in DOMAIN pages :
              /\ pages[k].number = k
              /\ pages[k].kind = "native" =>
                    extra(k) = 0 /\ pages[k].source = k /\ pages[k].continuation = 0
              /\ pages[k].kind = "continuation" =>
                    pages[k].source = NoSource /\ pages[k].continuation = extra(k)

SourcePlanPages(graph, layout, plan) ==
    /\ Len(plan.pages) = layout.pages
    /\ \A k \in DOMAIN plan.pages :
          LET page == MapPages(graph, layout)[k]
          IN  /\ plan.pages[k].number = page.number
              /\ plan.pages[k].kind = page.kind
              /\ plan.pages[k].continuation = page.continuation
              /\ (plan.pages[k].statement # <<>>) = (k = Len(plan.pages))

(***************************************************************************)
(* The chain of parents: a new plan of the same parents is the same.  A    *)
(* value stands for its hash, so that the hashes agree by themselves.      *)
(***************************************************************************)
ParentChain(paper, final, plan) ==
    LET manifest == MapPages(final.graph, final.layout)
    IN  /\ plan = BuildOverlayPlan(paper, final)
        /\ SourcePlanPages(final.graph, final.layout, plan)
        /\ SourceManifestPages(manifest)
        /\ Len(manifest) = Len(plan.pages)
        /\ \A k \in DOMAIN manifest :
              /\ manifest[k].number = plan.pages[k].number
              /\ manifest[k].kind = plan.pages[k].kind
              /\ manifest[k].continuation = plan.pages[k].continuation

(***************************************************************************)
(* The marks, recomputed, and the underlines that were drawn for them.     *)
(***************************************************************************)
Underlined(plan) ==
    UNION {UNION {piece.underlines : piece \in ToSet(page.pieces)} : page \in ToSet(plan.pages)}

AnnotationPolicy(units, keys, a, plan) ==
    LET of(kind) == {i \in ToSet(a.items) : i.kind = kind}
        bright == of("bright-red-ambiguity")
        dark == of("dark-red-highlight")
        first(k) == Sorted({i \in bright : i.key = k}, ItemOrder)[1]
        ratio == BasisPoints(Highlighted(units, a.items), Denominator(units))
    IN  /\ \A i \in DOMAIN a.items : SpanValid(units, a.items[i])
        /\ \A i, j \in DOMAIN a.items : a.items[i].id = a.items[j].id => i = j
        /\ \A i \in dark : units[i.unit].role \notin OneColumnRoles
        /\ \A i, j \in dark : i # j => ~SpansOverlap(i, j)
        /\ \A i \in bright : i.key \in keys /\ i.content \in {<<>>, AmbiguityLabel}
        /\ \A i \in of("figure-table-reading") : units[i.unit].role \in CaptionRoles
        /\ \A i \in 1 .. Len(a.items) - 1 : ~ItemOrder(a.items[i + 1], a.items[i])
        /\ {i.key : i \in bright} = keys
        /\ \A k \in keys :
              /\ Cardinality({i \in bright : i.key = k /\ i.content # <<>>}) = 1
              /\ first(k).content = AmbiguityLabel
        /\ ratio <= HardCapBasisPoints
        /\ a.highlight = ratio
        /\ {i.id : i \in bright} = Underlined(plan)

(***************************************************************************)
(* Geometry.  A box is <<left, top, right, bottom>>.                       *)
(***************************************************************************)
Panel == <<0, 0, FullWidth, PageHeight>>

IsBox(b) == b[1] < b[3] /\ b[2] < b[4]

BoxHolds(outer, inner) ==
    outer[1] <= inner[1] /\ outer[2] <= inner[2] /\ outer[3] >= inner[3] /\ outer[4] >= inner[4]

BoxesMeet(a, b) == a[1] < b[3] /\ b[1] < a[3] /\ a[2] < b[4] /\ b[2] < a[4]

PieceBox(piece) ==
    <<piece.x, piece.top, piece.x + piece.width, piece.top + piece.height>>

(* The lines of one flow in one column are a block; its frame is what was  *)
(* free of the column.                                                     *)
Blocks(flows, graph, layout, page) ==
    LET placed == OnPage(layout, page)
        line(k) == flows[placed[k].flow].lines[placed[k].line]
        key == [k \in DOMAIN placed |-> <<flows[placed[k].flow].id, PartOf(layout, placed[k])>>]
        of(b) == {k \in DOMAIN placed : key[k] = b}
        left(b) == PlaceX(placed[Min(of(b))])
        top(b) == placed[Min(of(b))].top
        lineBox(k) == <<PlaceX(placed[k]), placed[k].top, PlaceX(placed[k]) + line(k).width,
                        placed[k].top + line(k).height>>
        width(b) == IF placed[Min(of(b))].columns = 2 THEN ColumnWidth ELSE FullWidth
    IN  [b \in ToSet(key) |->
            [box |-> <<left(b), top(b), left(b) + Max({line(k).width : k \in of(b)}),
                       top(b) + SumFunction([k \in of(b) |-> line(k).height])>>,
             frame |-> <<left(b), top(b), left(b) + width(b),
                         Bottom(graph, page, layout.pages)>>,
             lines |-> {lineBox(k) : k \in of(b)}]]

BoundsAndOverlap(flows, graph, layout, plan) ==
    \A p \in DOMAIN plan.pages :
        LET page == plan.pages[p]
            blocks == Blocks(flows, graph, layout, p)
            block(piece) == <<piece.flow, piece.part>>
            statement == {<<0, s.top, FullWidth, s.top + s.height>> : s \in ToSet(page.statement)}
        IN  /\ \A b \in DOMAIN blocks :
                  /\ IsBox(blocks[b].frame) /\ IsBox(blocks[b].box)
                  /\ BoxHolds(Panel, blocks[b].frame)
                  /\ BoxHolds(blocks[b].frame, blocks[b].box)
                  /\ \A l \in blocks[b].lines : BoxHolds(blocks[b].frame, l)
            /\ \A b, c \in DOMAIN blocks : b # c => ~BoxesMeet(blocks[b].box, blocks[c].box)
            /\ \A s \in statement :
                  BoxHolds(Panel, s) /\ \A b \in DOMAIN blocks : ~BoxesMeet(s, blocks[b].box)
            /\ \A k \in DOMAIN page.pieces :
                  LET piece == page.pieces[k]
                  IN  /\ IsBox(PieceBox(piece))
                      /\ block(piece) \in DOMAIN blocks
                      /\ BoxHolds(blocks[block(piece)].box, PieceBox(piece))
            /\ \A k \in 1 .. Len(page.pieces) - 1 :
                  LET piece == page.pieces[k]
                      next == page.pieces[k + 1]
                  IN  block(piece) = block(next) /\ piece.line = next.line
                        => ~BoxesMeet(PieceBox(piece), PieceBox(next))

(***************************************************************************)
(* All gates: when the parents are wrong the others are not run.           *)
(***************************************************************************)
RunMechanicalQa(paper, final, plan) ==
    LET items == final.artifact.items
        flows == Flows(paper.units, items)
        gate(id, passed) == IF passed THEN {} ELSE {id}
    IN  IF ~ParentChain(paper, final, plan)
        THEN {"parent.chain"}
        ELSE gate("content.annotation-policy",
                  AnnotationPolicy(paper.units, paper.keys, final.artifact, plan))
             \cup gate("geometry.reading-frames", final.layout = SolveLayout(final.graph))
             \cup gate("geometry.bounds-and-overlap",
                       BoundsAndOverlap(flows, final.graph, final.layout, plan))
=============================================================================
