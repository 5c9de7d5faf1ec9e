----------------------------- MODULE PageBlocks ------------------------------
(***************************************************************************)
(* What belongs to what on a page: extraction/repeated_marginals.py and     *)
(* extraction/blocks.py, and what extraction/api.py demands of them.        *)
(*                                                                         *)
(* A line is [id, box, font, face, bold, text, begins, ends, says, label,  *)
(* refs, wording]: says is what its text shows ("prose": seven words or    *)
(* more, "note": begins as a table note, and so on), label the <<kind,     *)
(* number>> of a caption or <<>>, refs the labels it mentions, wording      *)
(* what is left of its text without numbers.  The stages add sure, body,   *)
(* covered, exclusion and holder.  A vector is [id, source, box, width,    *)
(* filled, stroked].  Coordinates are thousandths of a point.               *)
(***************************************************************************)
EXTENDS PageGeometry, TLC

Tall(b) == Top(b) - Base(b)

Inside(outer, inner, tolerance) ==
    /\ Left(outer) - tolerance <= Left(inner) /\ Right(inner) <= Right(outer) + tolerance
    /\ Base(outer) - tolerance <= Base(inner) /\ Top(inner) <= Top(outer) + tolerance

Touching(a, b, tolerance) ==
    /\ Left(b) <= Right(a) + tolerance /\ Left(a) <= Right(b) + tolerance
    /\ Base(b) <= Top(a) + tolerance /\ Base(a) <= Top(b) + tolerance

SharedWidth(a, b) == Shared(Left(a), Right(a), Left(b), Right(b))
GapBetween(a, b) == Max({0, Base(a) - Top(b), Base(b) - Top(a)})
FromTop(lines) ==
    Sorted(lines, LAMBDA a, b : Lexicographic(<< -Top(a.box), Left(a.box), a.id >>,
                                              << -Top(b.box), Left(b.box), b.id >>))

Excluded(l, kind) == [l EXCEPT !.body = FALSE, !.covered = FALSE, !.exclusion = kind]
-----------------------------------------------------------------------------
(* What is repeated at the margins of most pages is no text of the paper.   *)
SixTenths(n) == Max({2, (n * 6 + 9) \div 10})

IsRepeated(wording, pages) ==
    LET having == {p \in DOMAIN pages : \E l \in pages[p].lines : l.wording = wording}
        parity(r) == {p \in DOMAIN pages : p % 2 = r}
    IN  \/ Cardinality(having) >= SixTenths(Len(pages))
        \/ /\ Len(pages) >= 4
           /\ \E r \in {0, 1} : /\ Cardinality(parity(r)) >= 2
                                /\ Cardinality(having \cap parity(r))
                                      >= SixTenths(Cardinality(parity(r)))

TypicalFont(pages) ==
    LET all == UNION {{<<l.font, p, l.id>> : l \in pages[p].lines} : p \in DOMAIN pages}
        sizes == Sorted(all, Lexicographic)
        n == Len(sizes)
    IN  (sizes[(n + 1) \div 2][1] + sizes[(n + 2) \div 2][1]) \div 2

MarginalKind(l, page, pages) ==
    LET margin == (Tall(page.crop) * 12) \div 100
        low == Base(l.box) <= Base(page.crop) + margin
    IN  CASE low /\ "page-number" \in l.says -> "page-number"
          [] ~(low /\ "page-number" \in l.says) /\ IsRepeated(l.wording, pages) ->
                IF Top(l.box) >= Top(page.crop) - margin THEN "repeated-header"
                ELSE IF low THEN "repeated-footer"
                ELSE IF l.font >= (TypicalFont(pages) * 3) \div 2 \/ "light" \in l.says
                     THEN "watermark" ELSE "none"
          [] OTHER -> "none"

MarkRepeatedMarginals(pages) ==
    LET marked(l, page) ==
            LET kind == IF Len(pages) < 2 THEN "none" ELSE MarginalKind(l, page, pages)
            IN  IF kind = "none" THEN l ELSE Excluded(l, kind)
    IN  Kept([p \in DOMAIN pages |->
                [pages[p] EXCEPT !.lines = {marked(l, pages[p]) : l \in @}]])
-----------------------------------------------------------------------------
(* Tables: a grid of touching rules, or three rules with aligned cells and  *)
(* a caption.                                                              *)
Flat(b) == Across(b) > 4 * Max({1, Tall(b)})
Upright(b) == Tall(b) > 4 * Max({1, Across(b)})

Curves(page) == {v \in page.vectors : v.source # "rect"}
Rectangles(page) == page.vectors \ Curves(page)

Boxes(items) == {k.box : k \in items}

TableBoxes(page) ==
    {UnionBox(Boxes(component)) : component \in
        {c \in Components({v \in Curves(page) : v.source = "line"},
                          LAMBDA a, b : Touching(a.box, b.box, 1000)) :
            /\ Cardinality({v \in c : Flat(v.box)}) >= 3
            /\ Cardinality({v \in c : Upright(v.box)}) >= 3}}

RuleHeight(box) == (Base(box) + Top(box)) \div 2

(* Touching pieces at one height are one rule.                              *)
HorizontalRules(page) ==
    LET candidates == {v \in page.vectors :
            /\ \/ v.source # "rect" /\ v.stroked /\ Tall(v.box) = 0
               \/ v.source = "rect" /\ v.filled /\ 0 < Tall(v.box) /\ Tall(v.box) <= 2000
            /\ Flat(v.box)}
        key(v) == <<RuleHeight(v.box), Left(v.box), v.id>>
        join(rules, v) ==
            IF /\ rules # <<>>
               /\ Apart(RuleHeight(Last(rules)), RuleHeight(v.box)) <= 250
               /\ Left(v.box) <= Right(Last(rules)) + 1000
            THEN [rules EXCEPT ![Len(rules)] = UnionBox({@, v.box})]
            ELSE Append(rules, v.box)
    IN  {r \in Range(FoldLeft(join, <<>>, Sorted(candidates,
                        LAMBDA a, b : Lexicographic(key(a), key(b))))) : Across(r) >= 40000}

SimilarSpan(a, b) ==
    LET tolerance == Max({5000, Max({Across(a), Across(b)}) \div 10})
    IN  /\ Apart(Across(a), Across(b)) <= tolerance
        /\ Apart(Left(a), Left(b)) <= tolerance /\ Apart(Right(a), Right(b)) <= tolerance

RuleGroups(page) ==
    LET most == Max({120000, Tall(page.crop) \div 3})
        down(group) == Sorted(group, LAMBDA a, b : Lexicographic(<< -RuleHeight(a) >> \o a,
                                                                 << -RuleHeight(b) >> \o b))
        below(groups, r) == RuleHeight(Last(Last(groups))) - RuleHeight(r)
        add(groups, r) ==
            IF groups = <<>> \/ below(groups, r) > most THEN Append(groups, <<r>>)
            ELSE IF below(groups, r) <= 1000 THEN groups
            ELSE [groups EXCEPT ![Len(groups)] = Append(@, r)]
    IN  UNION {{Range(g) : g \in Range(FoldLeft(add, <<>>, down(group)))} :
                 group \in Components(HorizontalRules(page), SimilarSpan)}

IsTableCaption(l) == l.label # <<>> /\ l.label[1] = "table"

CaptionMatches(l, box) ==
    /\ IsTableCaption(l)
    /\ Base(l.box) >= Top(box) \/ Top(l.box) <= Base(box)
    /\ SharedWidth(l.box, box) >= Min({Across(l.box), Across(box)}) \div 4
    /\ GapBetween(l.box, box) <= 50000

AlignedCells(rules, lines) ==
    LET levels == {RuleHeight(r) : r \in rules}
        middle(l) == RuleHeight(l.box)
        row(l) == Cardinality({y \in levels : y < middle(l)})
        cells == {l \in lines :
                    /\ l.label = <<>> /\ Inside(UnionBox(rules), l.box, 3000)
                    /\ row(l) \in 1 .. Cardinality(levels) - 1 /\ middle(l) \notin levels}
        spans == {<<Min({Left(p[1].box), Left(p[2].box)}), Max({Right(p[1].box), Right(p[2].box)})>> :
                    p \in {p \in cells \X cells :
                            /\ row(p[1]) # row(p[2])
                            /\ \/ Apart(Left(p[1].box), Left(p[2].box)) <= 20000
                               \/ Apart(Right(p[1].box), Right(p[2].box)) <= 20000}}
        columns == {s \in spans : \A t \in spans : Lexicographic(t, s) => s[1] > t[2] + 8000}
    IN  IF Cardinality({row(l) : l \in cells}) < 2 \/ Cardinality(columns) < 2 THEN {} ELSE cells

CaptionedTables(page, lines) ==
    {UnionBox(group \cup Boxes(AlignedCells(group, lines))) : group \in
        {g \in RuleGroups(page) :
            /\ Cardinality(g) >= 3
            /\ \E l \in lines : CaptionMatches(l, UnionBox(g))
            /\ AlignedCells(g, lines) # {}}}
-----------------------------------------------------------------------------
(* A candidate is [kind, box, sure, from], from the image or drawing.       *)
KindRank(kind) == IF kind = "figure" THEN 1 ELSE 2

Candidate(kind, box, sure, from) == [kind |-> kind, box |-> box, sure |-> sure, from |-> from]

PlainCandidates(page, lines) ==
    LET grids == TableBoxes(page)
        ruled == {b \in CaptionedTables(page, lines) :
                    \A g \in grids : ~Inside(g, b, 1000) /\ ~Inside(b, g, 1000)}
        drawings == {r \in Rectangles(page) :
                    /\ Cardinality({v \in Curves(page) : Inside(r.box, v.box, 1000)}) >= 2
                    /\ \A b \in grids \cup ruled : ~Inside(r.box, b, 1000)}
    IN  {Candidate("table", b, 950, 0) : b \in grids \cup ruled}
        \cup {Candidate("figure", i.box, 950, i.id) : i \in page.images}
        \cup {Candidate("figure", r.box, 850, r.id) : r \in drawings}

InCandidate(l, candidates) == \E k \in candidates : Inside(k.box, l.box, 1000)

(* The prose of a page, by its length or its type.                          *)
ProseTypes(lines, candidates) ==
    {<<l.face, l.font>> : l \in {l \in lines : /\ "prose" \in l.says /\ Across(l.box) >= 120000
                                               /\ ~InCandidate(l, candidates)}}

(* The drawing that a figure's caption closes below, up to the prose above. *)
DrawingLimits(lines, candidates, c) ==
    {Base(l.box) : l \in {l \in lines \ {c} :
        /\ l.covered /\ Base(l.box) > Top(c.box) /\ SharedWidth(l.box, c.box) > 0
        /\ \/ l.label # <<>>
           \/ /\ "prose" \in l.says \/ <<l.face, l.font>> \in ProseTypes(lines, candidates)
              /\ l.font >= c.font /\ ~InCandidate(l, candidates)}}

DrawingSpan(page, lines, c, top) ==
    LET besideCaption == \E l \in lines \ {c} :
                             l.label # <<>> /\ Apart(Top(l.box), Top(c.box)) < c.font * 2
        besideProse == \E l \in lines :
            /\ l.covered /\ Top(c.box) < Base(l.box) /\ Base(l.box) < top
            /\ SharedWidth(l.box, c.box) = 0
            /\ "prose" \in l.says /\ Across(l.box) >= 120000 /\ l.font >= c.font
    IN  IF besideCaption \/ besideProse THEN c.box ELSE page.crop

(* The candidates once the drawing above a caption has been bounded.        *)
BoundFigure(page, lines, plain, result, c) ==
    LET top == Min({Top(page.crop)} \cup DrawingLimits(lines, plain, c))
        span == DrawingSpan(page, lines, c, top)
        tables == {k.box : k \in {k \in plain : k.kind = "table"
                                      /\ \E l \in lines : CaptionMatches(l, k.box)}}
        protected(box) == \E b \in tables : Inside(b, box, 1000)
        shapes == {b \in Boxes(page.images \cup page.vectors) :
            /\ Base(b) > Top(c.box) /\ Top(b) < top /\ SharedWidth(b, span) > 0
            /\ ~protected(b) /\ Max({Across(b), Tall(b)}) >= 5000}
        shapeCount == Cardinality({k \in page.images \cup page.vectors : k.box \in shapes})
        drawing == UnionBox(shapes)
        margin == Max({20000, c.font * 5})
        labels == {l \in lines :
            /\ l.covered /\ Top(c.box) < Base(l.box) /\ Top(l.box) < top
            /\ Inside(drawing, l.box, margin)
            /\ l.label = <<>> /\ ~protected(l.box)
            /\ \/ <<l.face, l.font>> \notin ProseTypes(lines, plain)
               \/ InCandidate(l, plain)}
        envelope == UnionBox({drawing} \cup Boxes(labels))
        swallowed == {k \in result : Inside(envelope, k.box, 1000)}
    IN  IF \/ "strict" \notin c.says \/ ~c.covered \/ InCandidate(c, plain) \/ Across(c.box) < 120000
           \/ shapeCount < 2
           \/ Base(drawing) - Top(c.box) > 50000 \/ Tall(drawing) < 30000
           \/ \E b \in tables : Touching(envelope, b, 0)
           \/ \E k \in result \ swallowed : Touching(envelope, k.box, 0)
        THEN result
        ELSE (result \ swallowed) \cup {Candidate("figure", envelope, 900, 0)}

(* A region is a candidate with its number on the page.                     *)
GraphicRegions(page) ==
    LET plain == PlainCandidates(page, page.lines)
        all == FoldLeft(LAMBDA result, c : BoundFigure(page, page.lines, plain, result, c),
                        plain, FromTop(page.lines))
        key(k) == << -Top(k.box), Left(k.box), KindRank(k.kind) >> \o k.box \o <<k.from>>
        ordered == Sorted(all, LAMBDA a, b : Lexicographic(key(a), key(b)))
    IN  {[id |-> i, kind |-> ordered[i].kind, box |-> ordered[i].box, sure |-> ordered[i].sure] :
            i \in DOMAIN ordered}

(* The text within a graphic belongs to the smallest one around it, its    *)
(* area in square points.                                                   *)
MarkInternal(l, regions) ==
    LET around == {g \in regions : Inside(g.box, l.box, 1000)}
        key(g) == << (Across(g.box) \div 1000) * (Tall(g.box) \div 1000), KindRank(g.kind), g.id >>
        smallest == CHOOSE g \in around : \A h \in around \ {g} : Lexicographic(key(g), key(h))
    IN  IF around = {} THEN l
        ELSE [l EXCEPT !.sure = 400, !.body = FALSE, !.covered = FALSE, !.holder = smallest.id]
-----------------------------------------------------------------------------
(* Captions: a labelled line near a graphic of its kind, and the lines that *)
(* continue it.                                                            *)
CaptionTargets(l, regions) ==
    {g \in regions : /\ l.label[1] = g.kind
                     /\ SharedWidth(l.box, g.box) >= Min({Across(l.box), Across(g.box)}) \div 4
                     /\ GapBetween(l.box, g.box) <= 50000}

NearestTarget(l, targets) ==
    LET key(g) == << GapBetween(l.box, g.box), -SharedWidth(l.box, g.box), g.id >>
    IN  CHOOSE g \in targets : \A h \in targets \ {g} : Lexicographic(key(g), key(h))

ContinuesCaption(label, current, l, target) ==
    LET gap == Base(current.box) - Top(l.box)
    IN  /\ -1000 <= gap /\ gap <= Max({4000, current.font})
        /\ Apart(Left(l.box), Left(label.box)) <= 3000 /\ SharedWidth(l.box, label.box) > 0
        /\ l.label = <<>> /\ l.holder = 0
        /\ \/ l.begins = "lower" \/ "continues" \in l.says
           \/ l.face = current.face /\ l.font = current.font /\ l.bold /\ current.bold
           \/ current.ends = "hyphen"
           \/ /\ current = label /\ "bare" \in label.says
              /\ l.begins = "upper" /\ Base(l.box) >= Top(target.box)

AddCaption(state, label, lines, regions) ==
    LET targets == CaptionTargets(label, regions)
        target == NearestTarget(label, targets)
        next(chain) ==
            {l \in lines : /\ l.id \notin state.claimed \cup {k.id : k \in Range(chain)}
                           /\ ContinuesCaption(label, Last(chain), l, target)}
        chain == FoldLeft(LAMBDA c, k : IF next(c) = {} THEN c ELSE Append(c, FromTop(next(c))[1]),
                          <<label>>, [i \in 1 .. Cardinality(lines) |-> i])
        ids == [i \in DOMAIN chain |-> chain[i].id]
    IN  IF label.id \in state.claimed \/ label.holder # 0 \/ label.label = <<>> \/ targets = {}
        THEN state
        ELSE [claimed |-> state.claimed \cup Range(ids),
              captions |-> Append(state.captions,
                  [id |-> Len(state.captions) + 1, kind |-> label.label[1],
                   number |-> label.label[2], lines |-> ids, target |-> target.id])]

CaptionsOf(lines, regions) ==
    FoldLeft(LAMBDA state, l : AddCaption(state, l, lines, regions),
             [claimed |-> {}, captions |-> <<>>], FromTop(lines)).captions
-----------------------------------------------------------------------------
(* Notes of tables, which are not translated.                               *)
IsOpen(l) == l.holder = 0 /\ l.exclusion = "none"

RaisedSuffix(marker, anchor) ==
    LET gap == Left(marker.box) - Right(anchor.box)
    IN  /\ marker.font * 10 <= anchor.font * 8
        /\ Base(marker.box) + Top(marker.box) > Base(anchor.box) + Top(anchor.box)
        /\ Shared(Base(marker.box), Top(marker.box), Base(anchor.box), Top(anchor.box)) * 2
              >= Tall(marker.box)
        /\ -1000 <= gap /\ gap <= Max({2000, anchor.font \div 2})

BelowBy(upper, l) == upper - Top(l.box) \in 0 .. Max({5000, l.font})

TableNotes(lines, regions, captions) ==
    LET claimed == UNION {Range(c.lines) : c \in captions}
        markers == {l \in lines : l.id \notin claimed /\ IsOpen(l) /\ "marker" \in l.says}
        notes == {l \in lines : IsOpen(l) /\ "note" \in l.says}
        tables == {c \in captions : c.kind = "table"}
        linesOf(c) == {l \in lines : l.id \in Range(c.lines)}
        captioned == {g \in regions : \E c \in tables : c.target = g.id}
        last(g) == CHOOSE c \in tables : c.target = g.id /\ \A d \in tables :
                       d.target = g.id => ~Lexicographic(<<c.number, c.id>>, <<d.number, d.id>>)
        font(g) == Max({l.font : l \in linesOf(last(g))})
        direct(g) == {n \in notes : /\ n.font * 10 <= font(g) * 11
                                    /\ BelowBy(Base(g.box), n) /\ SharedWidth(n.box, g.box) > 0}
        bottoms(g) == {Base(g.box)} \cup {Base(n.box) : n \in direct(g)}
        marked(g) == {p \in markers \X notes :
            /\ Left(g.box) - 1000 <= Left(p[1].box) /\ Right(p[1].box) <= Right(g.box) + 1000
            /\ \E y \in bottoms(g) : BelowBy(y, p[1])
            /\ p[1].font * 10 <= p[2].font * 8
            /\ Top(p[2].box) <= Top(p[1].box)
            /\ Left(p[2].box) - Right(p[1].box) \in -1000 .. Max({5000, p[2].font})
            /\ GapBetween(p[1].box, p[2].box) <= p[1].font}
    IN  {m \in markers : \E c \in tables : \E l \in linesOf(c) : RaisedSuffix(m, l)}
        \cup UNION {direct(g) : g \in captioned}
        \cup UNION {{p[1], p[2]} : p \in UNION {marked(g) : g \in captioned}}

(* Displayed formulas, which stay as they are: between a line of prose      *)
(* above and one below, beside a number in parentheses.                     *)
FormulaZone(open, label) ==
    LET neighbours == {l \in open : /\ "lexical" \in l.says
                                    /\ Apart(Right(l.box), Right(label.box)) <= 50000
                                    /\ Left(l.box) < Left(label.box) - 50000}
        above == {l \in neighbours : Base(l.box) > Top(label.box)}
        below == {l \in neighbours : Top(l.box) < Base(label.box)}
        first(S, key(_)) == CHOOSE l \in S : \A k \in S \ {l} :
                                Lexicographic(<<key(l), l.id>>, <<key(k), k.id>>)
        a == first(above, LAMBDA l : Base(l.box))
        b == first(below, LAMBDA l : -Top(l.box))
        members == {l \in open : /\ "lexical" \notin l.says
                                 /\ Min({Left(a.box), Left(b.box)}) - 1000 <= Left(l.box)
                                 /\ Right(l.box) <= Right(label.box) + 1000
                                 /\ Top(b.box) < Top(l.box) /\ Base(l.box) < Base(a.box)}
    IN  IF \/ above = {} \/ below = {} \/ Base(a.box) - Top(b.box) > 150000
           \/ \A l \in members : "operator" \notin l.says
        THEN {} ELSE members

Equations(lines) ==
    LET open == {l \in lines : l.covered /\ l.holder = 0}
        maths == {l \in open : "lexical" \notin l.says /\ "math" \in l.says}
        zones == UNION {FormulaZone(open, l) : l \in {l \in open : "number" \in l.says}}
        seeds == {l \in maths \cup zones : "operator" \in l.says}
        beside(l, s) == /\ GapBetween(l.box, s.box) <= 1000
                        /\ Min({Apart(Right(l.box), Left(s.box)), Apart(Right(s.box), Left(l.box))})
                              <= 20000
    IN  maths \cup zones
        \cup {l \in open : /\ "short" \in l.says /\ "lexical" \notin l.says
                           /\ \E s \in seeds : beside(l, s)}
-----------------------------------------------------------------------------
PageBlocks(page) ==
    LET regions == GraphicRegions(page)
        inner == {MarkInternal(l, regions) : l \in page.lines}
        captions == Range(CaptionsOf(inner, regions))
        claimed == UNION {Range(c.lines) : c \in captions}
        notes == TableNotes(inner, regions, captions)
        noted == {IF l \in notes THEN Excluded(l, "footnote") ELSE l : l \in inner}
        formulas == Equations(noted)
        final == {IF l \in formulas THEN Excluded(l, "equation") ELSE l : l \in noted}
    IN  [number |-> page.number, crop |-> page.crop, vectors |-> page.vectors,
         images |-> page.images, graphics |-> regions, captions |-> captions,
         lines |-> {IF l.id \in claimed THEN [l EXCEPT !.body = FALSE] ELSE l : l \in final}]

(* A reference is bound to the one graphic whose caption has its label.     *)
TargetsOf(pages, label) ==
    UNION {{<<p, c.target>> : c \in {c \in pages[p].captions : <<c.kind, c.number>> = label}} :
             p \in DOMAIN pages}

References(pages, page) ==
    LET claimed == UNION {Range(c.lines) : c \in page.captions}
        mentions == UNION {{<<l.id, r>> : r \in Range(l.refs)} :
                             l \in {l \in page.lines : l.id \notin claimed /\ l.holder = 0}}
    IN  {[line |-> m[1], label |-> m[2], target |-> CHOOSE t \in TargetsOf(pages, m[2]) : TRUE] :
            m \in {m \in mentions : Cardinality(TargetsOf(pages, m[2])) = 1}}

BuildBasicBlocks(pages) ==
    LET marked == MarkRepeatedMarginals(pages)
        blocks == Kept([p \in DOMAIN pages |-> PageBlocks(marked[p])])
    IN  Kept([p \in DOMAIN pages |-> [references |-> References(blocks, blocks[p])] @@ blocks[p]])

(* What the parent demands: one caption per label and page and per line,    *)
(* graphics within the page, targets of the right kind.                     *)
PageIsValid(page) ==
    /\ \A c, d \in page.captions : c # d =>
          /\ <<c.kind, c.number>> # <<d.kind, d.number>>
          /\ Range(c.lines) \cap Range(d.lines) = {}
    /\ \A c \in page.captions :
          /\ \E g \in page.graphics : g.id = c.target /\ g.kind = c.kind
          /\ Cardinality(Range(c.lines)) = Len(c.lines)
    /\ \A g \in page.graphics : Within(g.box, page.crop)

ExtractionIsValid(pages) ==
    /\ \A p \in DOMAIN pages : PageIsValid(pages[p])
    /\ \A p \in DOMAIN pages : \A r \in pages[p].references :
          /\ TargetsOf(pages, r.label) = {r.target}
          /\ \E g \in pages[r.target[1]].graphics : g.id = r.target[2] /\ g.kind = r.label[1]
=============================================================================
