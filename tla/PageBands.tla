------------------------------ MODULE PageBands ------------------------------
(***************************************************************************)
(* Where the columns of a page are: topology/projection.py, xy_cut.py and  *)
(* bands.py.  A page is cut into horizontal groups at its white rows, each *)
(* group is given a number of columns, neighbours with the same number     *)
(* make a band, and each band gets its columns and a score.                *)
(*                                                                         *)
(* A box is <<left, base, right, top>> in thousandths of a point, an item   *)
(* [id, kind, box, font], a page a record of its lines, graphics and        *)
(* vectors.  Scores are thousandths.                                        *)
(***************************************************************************)
EXTENDS PageGeometry

Low(k, axis) == IF axis = "x" THEN Left(k.box) ELSE Base(k.box)
High(k, axis) == IF axis = "x" THEN Right(k.box) ELSE Top(k.box)

Mid(low, high) == (low + high) \div 2

(* A rule counts when it crosses half the page outside of the graphics.     *)
RuleItem(page, c) ==
    LET half == Max({500, (c.width + 1) \div 2})
    IN  [id |-> c.id, kind |-> "rule", font |-> 0,
         box |-> << Left(c.box), Max({Base(page.crop), Base(c.box) - half}),
                    Right(c.box), Min({Top(page.crop), Top(c.box) + half}) >>]

OccupiedBoxes(page) ==
    LET lines == {l \in page.lines : l.covered}
        rules == {c \in page.vectors :
                    /\ c.source = "line" /\ Across(c.box) >= Across(page.crop) \div 2
                    /\ \A g \in page.graphics : ~Within(c.box, g.box)}
    IN  {[id |-> l.id, kind |-> "line", font |-> l.font, box |-> l.box] : l \in lines}
        \cup {[id |-> g.id, kind |-> "graphic", font |-> 0, box |-> g.box] : g \in page.graphics}
        \cup {k \in {RuleItem(page, c) : c \in rules} : Base(k.box) < Top(k.box)}

(* The white intervals between the projections on an axis.                  *)
AxisGaps(items, axis, minimum) ==
    {g \in {High(k, axis) : k \in items} \X {Low(k, axis) : k \in items} :
        /\ g[1] < g[2] /\ g[2] - g[1] >= minimum
        /\ \A k \in items : High(k, axis) <= g[1] \/ Low(k, axis) >= g[2]}

(* How many of the gaps lie before an item, by its middle.                  *)
GapsBefore(k, axis, gaps) ==
    Cardinality({g \in gaps : Mid(Low(k, axis), High(k, axis)) >= g[2]})

Parts(items, axis, minimum) ==
    LET gaps == AxisGaps(items, axis, minimum)
        part(n) == {k \in items : GapsBefore(k, axis, gaps) = n}
        numbers == Ascending({GapsBefore(k, axis, gaps) : k \in items})
    IN  Kept([n \in DOMAIN numbers |-> part(numbers[n])])

(* From left to right, and from the top down.                               *)
VerticalCut(items, minimum) == Parts(items, "x", minimum)
HorizontalGroups(items, minimum) == Reverse(Parts(items, "y", minimum))

-----------------------------------------------------------------------------
(* Columns start at the left edges that several lines share.                *)
ClusterAnchors(items, tolerance, separation) ==
    LET starts == {Left(k.box) : k \in items}
        first == {v \in starts : \A w \in starts : w < v => v - w > tolerance}
    IN  FoldLeft(LAMBDA kept, v : IF kept = <<>> \/ v - Last(kept) >= separation
                                  THEN Append(kept, v) ELSE kept,
                 <<>>, Ascending(first))

NearestAnchor(k, anchors) ==
    LET away(i) == Apart(Left(k.box), anchors[i])
    IN  Min({i \in DOMAIN anchors : \A j \in DOMAIN anchors : away(i) <= away(j)})

DocumentAnchor(k, anchors, tolerance) ==
    Max({1} \cup {i \in DOMAIN anchors : Left(k.box) >= anchors[i] - tolerance})

(* A group is [items, barrier, label, inferred]; label 0 is not known.      *)
GroupGap(upper, lower) ==
    Max({0, Base(BoxOf(upper.items)) - Top(BoxOf(lower.items))})

ResolvedLabel(groups, i, inherit) ==
    LET known == {j \in DOMAIN groups : groups[j].label # 0}
        before == Max({0} \cup {j \in known : j < i})
        after == Min({Len(groups) + 1} \cup {j \in known : j > i})
        label(j) == IF j \in DOMAIN groups THEN groups[j].label ELSE 0
        near(j) == GroupGap(groups[j], groups[j + 1]) <= inherit
    IN  CASE groups[i].label # 0 -> groups[i].label
          [] groups[i].label = 0 /\ label(before) > 1 ->
                IF label(before) = label(after) \/ near(before) THEN label(before) ELSE 1
          [] OTHER -> IF label(after) > 1 /\ near(after - 1) THEN label(after) ELSE 1

ResolveUnknownLabels(groups, inherit) ==
    Kept([i \in DOMAIN groups |->
        [groups[i] EXCEPT !.label = ResolvedLabel(groups, i, inherit),
                          !.inferred = groups[i].label = 0]])

MergeLabelledGroups(groups) ==
    FoldLeft(LAMBDA bands, g :
                IF bands # <<>> /\ Last(bands).label = g.label
                THEN [bands EXCEPT ![Len(bands)] =
                        [label |-> g.label, items |-> @.items \cup g.items,
                         barrier |-> @.barrier \/ g.barrier,
                         inferred |-> @.inferred \/ g.inferred]]
                ELSE Append(bands, g),
             <<>>, groups)
-----------------------------------------------------------------------------
(* A column is <<left, right>>.  The right margin is as wide as the left.   *)
OuterRight(items, crop, left) ==
    Max({Right(BoxOf(items)), Right(crop) - Max({0, left - Left(crop)})})

SingleColumn(items, crop) ==
    LET left == Left(BoxOf(items)) IN << <<left, OuterRight(items, crop, left)>> >>

MultiColumns(items, crop, count, anchors, gutter, tolerance) ==
    LET cut == VerticalCut(items, gutter)
        starts == IF Len(anchors) < count
                  THEN [i \in DOMAIN cut |-> Left(BoxOf(cut[i]))]
                  ELSE SubSeq(anchors, 1, count)
        members == Kept([i \in DOMAIN starts |->
                          {k \in items : DocumentAnchor(k, starts, tolerance) = i}])
        left == Kept([i \in DOMAIN starts |-> Left(BoxOf(members[i]))])
        outer == OuterRight(items, crop, left[1])
        desired == Max({gutter, ((outer - left[1]) * 35) \div 1000})
        available(i) == left[i + 1] - Right(BoxOf(members[i]))
        right(i) == IF i = count THEN outer ELSE left[i + 1] - Min({available(i), desired})
        support == Min({Cardinality(members[i]) : i \in 1 .. count})
    IN  IF \/ Len(starts) # count
           \/ \E i \in 1 .. count : members[i] = {}
           \/ \E i \in 1 .. count - 1 : available(i) < gutter
        THEN [columns |-> SingleColumn(items, crop), score |-> 300]
        ELSE [columns |-> Kept([i \in 1 .. count |-> <<left[i], right(i)>>]),
              score |-> IF support < 2 THEN 680
                        ELSE Min({990, 850 + Min({120, support * 20})})]
-----------------------------------------------------------------------------
(* What _detect_page_bands measures before it cuts.                         *)
MaxColumns == 3

MedianFont(items) ==
    LET sized == {k \in items : k.font > 0}
        smaller(f) == Cardinality({k \in sized : k.font < f})
        middle == Cardinality(sized) \div 2
    IN  IF sized = {} THEN 10000
        ELSE Max({f \in {k.font : k \in sized} : smaller(f) <= middle})

PageMeasure(page, items) ==
    LET width == Across(page.crop)
        median == MedianFont(items)
    IN  [gutter |-> Max({12000, (width * 2) \div 100}),
         row |-> Max({6000, (median * 3) \div 4}),
         wide |-> (Across(BoxOf(items)) * 52) \div 100,
         tolerance |-> Max({12000, (width * 25) \div 1000}),
         separation |-> Max({60000, width \div 10}),
         inherit |-> Max({30000, median * 3}),
         median |-> median]

IsWide(k, m) == Across(k.box) >= m.wide

PageAnchors(items, m) ==
    LET narrow == {k \in items : ~IsWide(k, m)}
        lines == {k \in narrow : k.kind = "line" /\ Across(k.box) >= m.median * 6}
        evidence == CASE lines # {} -> lines [] lines = {} /\ narrow # {} -> narrow
                      [] OTHER -> items
    IN  ClusterAnchors(evidence, m.tolerance, m.separation)

(* On the first page, what lies between a large wide title and the abstract *)
(* spans the columns.                                                       *)
FrontMatter(page, items, m) ==
    LET abstracts == {Top(l.box) : l \in {l \in page.lines : l.text = "abstract:"}}
        bottom == IF abstracts = {} THEN Top(page.crop) ELSE Max(abstracts)
        titles == {Top(k.box) : k \in {k \in items : /\ k.kind = "line" /\ IsWide(k, m)
                                                     /\ Base(k.box) > bottom
                                                     /\ k.font * 4 >= m.median * 5}}
    IN  <<bottom, IF page.number = 1 THEN Max({0} \cup titles) ELSE 0>>

IsBarrier(page, items, members, m) ==
    LET front == FrontMatter(page, items, m)
    IN  \/ \E k \in members : IsWide(k, m)
        \/ /\ front[1] < front[2]
           /\ \A k \in members : /\ k.kind = "line"
                                 /\ front[1] <= Base(k.box) /\ Top(k.box) <= front[2]
           /\ Across(BoxOf(members)) >= m.wide

GroupLabel(members, barrier, anchors, borrowed, m) ==
    LET cuts == Len(VerticalCut(members, m.gutter))
        active == {IF borrowed THEN DocumentAnchor(k, anchors, m.tolerance)
                   ELSE NearestAnchor(k, anchors) : k \in {k \in members : ~IsWide(k, m)}}
    IN  IF barrier /\ Len(anchors) > 1 THEN 1
        ELSE IF cuts > 1 THEN Min({MaxColumns, cuts})
        ELSE IF Cardinality(active) > 1 THEN Min({MaxColumns, Max(active)})
        ELSE IF Len(anchors) = 1 THEN 1 ELSE 0

SingleScore(band, anchors) ==
    LET support == Cardinality(band.items)
    IN  CASE Len(anchors) = 1 /\ support = 1 -> 650
          [] Len(anchors) = 1 /\ support = 2 -> 760
          [] Len(anchors) = 1 /\ support > 2 -> 950
          [] Len(anchors) > 1 -> IF band.barrier THEN 920 ELSE 780

(* A band is [top, bottom, columns, score, items].                          *)
BandGeometry(page, band, anchors, borrowed, observed, m) ==
    LET box == BoxOf(band.items)
        multi == MultiColumns(band.items, page.crop, band.label, anchors, m.gutter, m.tolerance)
        doubts == (IF band.inferred /\ ~borrowed THEN {780} ELSE {})
                  \cup (IF observed > MaxColumns THEN {300} ELSE {})
    IN  [top |-> Top(box), bottom |-> Base(box), items |-> band.items,
         columns |-> IF band.label = 1 THEN SingleColumn(band.items, page.crop) ELSE multi.columns,
         score |-> IF band.label = 1 THEN SingleScore(band, anchors)
                   ELSE Min({multi.score} \cup doubts)]

(* borrowed is the column template of the document, or <<>>.                *)
PageBandsOf(page, borrowed) ==
    LET items == OccupiedBoxes(page)
        m == PageMeasure(page, items)
        anchors == IF borrowed # <<>> THEN borrowed ELSE PageAnchors(items, m)
        rows == Kept(HorizontalGroups(items, m.row))
        barrier(i) == IsBarrier(page, items, rows[i], m)
        groups == Kept([i \in DOMAIN rows |->
                     [items |-> rows[i], barrier |-> barrier(i) /\ Len(anchors) > 1,
                      label |-> GroupLabel(rows[i], barrier(i), anchors, borrowed # <<>>, m),
                      inferred |-> FALSE]])
        merged == MergeLabelledGroups(ResolveUnknownLabels(groups, m.inherit))
        observed == Max({Len(anchors)} \cup
                        {Len(VerticalCut(rows[i], m.gutter)) : i \in DOMAIN rows})
        bands == Kept([i \in DOMAIN merged |->
                    BandGeometry(page, merged[i], anchors, borrowed # <<>>, observed, m)])
    IN  IF items = {}
        THEN [bands |-> << [top |-> Top(page.crop), bottom |-> Base(page.crop), items |-> {},
                            columns |-> << <<Left(page.crop), Right(page.crop)>> >>, score |-> 0] >>,
              score |-> 0]
        ELSE [bands |-> bands,
              score |-> Min({bands[i].score : i \in DOMAIN bands}
                            \cup (IF observed > MaxColumns THEN {300} ELSE {}))]
-----------------------------------------------------------------------------
Accepted == 800

(* The columns on which two or more well-detected pages agree.              *)
Supported(detected) ==
    {i \in DOMAIN detected.bands :
        LET band == detected.bands[i]
        IN  band.score >= Accepted /\ Len(band.columns) > 1}

Representative(detected) ==
    LET rank(i) == <<Cardinality(detected.bands[i].items), detected.bands[i].score>>
    IN  detected.bands[CHOOSE i \in Supported(detected) : \A j \in Supported(detected) :
            \/ rank(i)[1] > rank(j)[1]
            \/ rank(i)[1] = rank(j)[1] /\ rank(i)[2] > rank(j)[2]
            \/ rank(i) = rank(j) /\ i <= j].columns

ColumnTemplate(detected, crop) ==
    LET counts(p) == {Len(detected[p].bands[i].columns) : i \in Supported(detected[p])}
        pages(n) == {p \in DOMAIN detected : counts(p) = {n}}
        best == CHOOSE n \in 2 .. MaxColumns : \A k \in 2 .. MaxColumns :
                    \/ Cardinality(pages(k)) < Cardinality(pages(n))
                    \/ Cardinality(pages(k)) = Cardinality(pages(n)) /\ n <= k
        starts(i) == {Representative(detected[p])[i][1] : p \in pages(best)}
    IN  IF \/ Cardinality(pages(best)) < 2
           \/ \E k \in (2 .. MaxColumns) \ {best} : Cardinality(pages(k)) = Cardinality(pages(best))
           \/ \E i \in 1 .. best :
                 Max(starts(i)) - Min(starts(i)) > Max({12000, (Across(crop) * 25) \div 1000})
        THEN <<>>
        ELSE [i \in 1 .. best |-> Min(starts(i))]

DetectDocumentBands(pages) ==
    LET detected == Kept([p \in DOMAIN pages |-> PageBandsOf(pages[p], <<>>)])
        template == ColumnTemplate(detected, pages[1].crop)
        retried(p) == PageBandsOf(pages[p], template)
        better(p) == /\ \E i \in DOMAIN retried(p).bands : Len(retried(p).bands[i].columns) > 1
                     /\ retried(p).score > detected[p].score
    IN  Kept([p \in DOMAIN pages |->
            IF template # <<>> /\ detected[p].score < Accepted /\ better(p)
            THEN retried(p) ELSE detected[p]])
=============================================================================
