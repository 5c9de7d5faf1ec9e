------------------------------ MODULE PageRoles ------------------------------
(***************************************************************************)
(* What the lines of a page are: topology/roles.py.  Every line is given a *)
(* band and a column and a role; neighbouring lines of one role become a   *)
(* block; from the references on, nothing is translated any more.          *)
(*                                                                         *)
(* A line is [id, box, font, bold, text, covered, body, exclusion, holder, *)
(* sure, begins, ends]: text is the class of what it says (which of the    *)
(* expressions of roles.py match), holder the graphic that it lies in or 0. *)
(***************************************************************************)
EXTENDS PageBands

Translatable == {"title", "abstract", "keywords", "heading", "body",
                 "figure-caption", "table-caption"}

(* The best of the places 1 .. n for an interval, the first of equals.      *)
BestPlace(low, high, n, lows, highs) ==
    LET key(i) == << -Shared(low, high, lows[i], highs[i]),
                     Apart(low + high, lows[i] + highs[i]), i >>
    IN  CHOOSE i \in 1 .. n : \A j \in (1 .. n) \ {i} : Lexicographic(key(i), key(j))

(* <<band, column>> *)
Assignment(box, bands) ==
    LET band == BestPlace(Base(box), Top(box), Len(bands),
                          [i \in DOMAIN bands |-> bands[i].bottom],
                          [i \in DOMAIN bands |-> bands[i].top])
        columns == bands[band].columns
    IN  << band, BestPlace(Left(box), Right(box), Len(columns),
                           [i \in DOMAIN columns |-> columns[i][1]],
                           [i \in DOMAIN columns |-> columns[i][2]]) >>

LineKey(l, bands) == Assignment(l.box, bands) \o << -Top(l.box), Left(l.box), l.id >>

InOrder(lines, bands) ==
    Sorted(lines, LAMBDA a, b : Lexicographic(LineKey(a, bands), LineKey(b, bands)))
-----------------------------------------------------------------------------
IsPlain(l) == l.exclusion = "none" /\ l.holder = 0

(* The largest lines at the top of the first page.                          *)
TitleLines(page, lines) ==
    LET eligible == {l \in lines : IsPlain(l)}
        largest == Max({0} \cup {l.font : l \in eligible})
        top == Max({Top(l.box) : l \in {l \in eligible : l.font = largest}})
    IN  IF page.number # 1 \/ largest = 0 THEN {}
        ELSE {l \in eligible : /\ l.font * 10 >= largest * 9
                               /\ Apart(top, Top(l.box)) <= (largest * 5) \div 2}

IsEmphasized(l, typical) == l.bold /\ l.font >= (typical * 11) \div 10

ContinuesHeading(previous, l, typical) ==
    LET gap == Base(previous.line.box) - Top(l.box)
        font == Max({previous.line.font, l.font})
    IN  /\ previous.role = "heading"
        /\ l.text \notin {"numbered", "abstract", "references"}
        /\ l.bold /\ l.font >= (typical * 9) \div 10
        /\ 0 <= gap /\ gap <= Max({5000, font})
        /\ Apart(Left(previous.line.box), Left(l.box)) <= Max({2000, font \div 2})

(* The role of the next plain line of a column, after what came before.     *)
PlainRole(state, l, following, context) ==
    LET first == context.page = 1
    IN  IF l.id \in context.titles THEN "title"
        ELSE IF first /\ \/ context.titles # {} /\ Base(l.box) >= context.titleTop
                         \/ state.front /\ ~state.title
                         \/ l.text = "biblio"
             THEN "bibliographic-metadata"
        ELSE IF first /\ \/ state.footnote
                         \/ ~state.front /\ l.text \in {"star", "corresponding", "equal"}
             THEN "footnote"
        ELSE IF l.text = "abstract:" THEN "abstract"
        ELSE IF l.text = "keywords" THEN "keywords"
        ELSE IF \/ l.text \in {"abstract", "numbered"}
                \/ ContinuesHeading(state.previous, l, context.typical)
                \/ IsEmphasized(l, context.typical)
             THEN "heading"
        ELSE IF state.abstract THEN "abstract"
        ELSE IF ~(state.title /\ state.front) THEN "body"
        ELSE IF \/ state.affiliation \/ l.text = "affiliation"
                \/ l.text = "letter" /\ following = "affiliation"
             THEN "affiliation"
        ELSE "author"

StartsSection(l, role) ==
    \/ role \in {"heading", "keywords"}
    \/ role = "abstract" /\ l.text = "abstract:"

Classify(state, l, following, context) ==
    LET role == PlainRole(state, l, following, context)
        above == context.titles # {} /\ Base(l.box) >= context.titleTop
        starts == StartsSection(l, role)
    IN  IF ~IsPlain(l) THEN state
        ELSE [roles |-> [i \in DOMAIN state.roles \cup {l.id} |->
                            IF i = l.id THEN role ELSE state.roles[i]],
              previous |-> [line |-> l, role |-> role],
              title |-> state.title \/ role = "title",
              front |-> state.front /\ ~starts,
              abstract |-> IF starts THEN l.text \in {"abstract", "abstract:"} ELSE state.abstract,
              affiliation |-> \/ role = "affiliation"
                              \/ state.affiliation /\ ~(starts /\ l.text \in {"abstract", "abstract:"}),
              footnote |-> \/ role = "footnote"
                           \/ /\ state.footnote
                              /\ (role = "bibliographic-metadata" =>
                                    above \/ (state.front /\ ~state.title))]

(* The lines of one column.                                                 *)
PlainRoles(lines, context) ==
    LET text(i) == IF i \in DOMAIN lines THEN lines[i].text ELSE "none"
        start == [roles |-> <<>>, previous |-> [line |-> <<>>, role |-> "none"],
                  title |-> FALSE, abstract |-> FALSE, affiliation |-> FALSE, footnote |-> FALSE,
                  front |-> \E i \in DOMAIN lines : lines[i].id \in context.titles]
    IN  FoldLeft(LAMBDA state, i : Classify(state, lines[i], text(i + 1), context),
                 start, [i \in DOMAIN lines |-> i]).roles
-----------------------------------------------------------------------------
MedianOf(lines) ==
    LET sizes == Sorted(lines, LAMBDA a, b : Lexicographic(<<a.font, a.id>>, <<b.font, b.id>>))
        n == Len(sizes)
    IN  IF n = 0 THEN 10000
        ELSE (sizes[(n + 1) \div 2].font + sizes[(n + 2) \div 2].font) \div 2

CaptionOf(page, l) == {c \in page.captions : l.id \in Range(c.lines)}

PageRolesOf(page, bands) ==
    LET ordinary == {l \in page.lines : CaptionOf(page, l) = {}}
        titles == TitleLines(page, ordinary)
        context == [page |-> page.number, titles |-> {l.id : l \in titles},
                    titleTop |-> Max({0} \cup {Top(l.box) : l \in titles}),
                    typical |-> MedianOf({l \in ordinary : l.body /\ l.font > 0})]
        column(place) == {l \in ordinary : Assignment(l.box, bands) = place}
        places == {Assignment(l.box, bands) : l \in ordinary}
        roles == Kept([p \in places |-> PlainRoles(InOrder(column(p), bands), context)])
    IN  Kept([i \in {l.id : l \in {l \in ordinary : IsPlain(l)}} |->
            LET place == CHOOSE p \in places : i \in DOMAIN roles[p] IN roles[place][i]])

Cap(role) == CASE role \in {"title", "heading"} -> 950
               [] role \in {"author", "body"} -> 850
               [] role = "abstract" -> 900
               [] OTHER -> 1000

(* A unit is [role, text, begins, ends, box, first, lines, place, sure,     *)
(* target, font]; begins and ends say how its text begins and ends.         *)
LineUnit(l, role, target, bands) ==
    [role |-> role, text |-> <<l.text>>, begins |-> l.begins, ends |-> l.ends,
     box |-> l.box, first |-> l.box, lines |-> <<l.id>>,
     place |-> Assignment(l.box, bands), sure |-> Min({l.sure, Cap(role)}),
     target |-> target, font |-> l.font]

CaptionUnit(page, c, bands) ==
    LET lines == InOrder({l \in page.lines : l.id \in Range(c.lines)}, bands)
        box == UnionBox({l.box : l \in Range(lines)})
    IN  [role |-> IF c.kind = "figure" THEN "figure-caption" ELSE "table-caption",
         text |-> <<"caption">>, begins |-> "upper", ends |-> "stop", box |-> box, first |-> lines[1].box,
         lines |-> [i \in DOMAIN lines |-> lines[i].id], place |-> Assignment(box, bands),
         sure |-> Min({l.sure : l \in Range(lines)}), target |-> c.target,
         font |-> Max({l.font : l \in Range(lines)})]

ExcludedRole(kind) ==
    CASE kind = "repeated-header" -> "header"
      [] kind = "repeated-footer" -> "footer"
      [] OTHER -> kind

LineRole(page, l, roles) ==
    LET holder == CHOOSE g \in page.graphics : g.id = l.holder
    IN  CASE l.exclusion # "none" -> ExcludedRole(l.exclusion)
          [] l.exclusion = "none" /\ l.holder # 0 ->
                IF holder.kind = "figure" THEN "figure-text" ELSE "table-cell"
          [] OTHER -> roles[l.id]

CanMerge(previous, unit, left) ==
    LET gap == Base(previous.box) - Top(unit.box)
        font == Max({previous.font, unit.font})
    IN  /\ previous.role \in {"title", "author", "affiliation", "heading", "abstract", "body",
                              "keywords"}
        /\ previous.role = unit.role /\ previous.place = unit.place
        /\ previous.target = unit.target
        /\ -1000 <= gap /\ gap <= Max({5000, (font * 3) \div 2})
        /\ previous.role = "heading" =>
              /\ Head(unit.text) # "numbered"
              /\ Apart(Left(previous.box), Left(unit.box)) <= Max({2000, font \div 2})
        /\ previous.role = "body" => Left(unit.first) - left <= 10000

Joined(previous, unit) ==
    [previous EXCEPT !.text = @ \o unit.text, !.ends = unit.ends, !.box = UnionBox({@, unit.box}),
                     !.lines = @ \o unit.lines, !.sure = Min({@, unit.sure}),
                     !.font = Max({@, unit.font})]

MergeUnits(units, bands) ==
    LET left(u) == bands[u.place[1]].columns[u.place[2]][1]
    IN  FoldLeft(LAMBDA merged, u :
                    IF merged # <<>> /\ CanMerge(Last(merged), u, left(u))
                    THEN [merged EXCEPT ![Len(merged)] = Joined(@, u)]
                    ELSE Append(merged, u),
                 <<>>, units)

ClassifyPageLines(page, bands) ==
    LET roles == PageRolesOf(page, bands)
        target(l) == IF l.exclusion = "none" THEN l.holder ELSE 0
        units == {LineUnit(l, LineRole(page, l, roles), target(l), bands) :
                    l \in {l \in page.lines : CaptionOf(page, l) = {}}}
                 \cup {CaptionUnit(page, c, bands) : c \in page.captions}
        key(u) == u.place \o << -Top(u.first), Left(u.first) >> \o u.lines
        ordered == Sorted(units, LAMBDA a, b : Lexicographic(key(a), key(b)))
        merged == MergeUnits(ordered, bands)
    IN  Kept([i \in DOMAIN merged |-> [page |-> page.number, ordinal |-> i] @@ merged[i]])
-----------------------------------------------------------------------------
(* The acknowledgements end with the next heading, the references never.    *)
Section(state, b) ==
    LET keep(s) == [section |-> s, blocks |-> Append(state.blocks, b)]
        as(s) == [section |-> s, blocks |-> Append(state.blocks, [b EXCEPT !.role = s])]
        required == b.role \in Translatable
    IN  IF state.section = "reference-entry"
        THEN IF required THEN as("reference-entry") ELSE keep("reference-entry")
        ELSE IF b.role = "heading" /\ b.text = <<"references">> THEN keep("reference-entry")
        ELSE IF b.role = "heading" /\ b.text = <<"acknowledgements">> THEN as("acknowledgements")
        ELSE IF b.role = "heading" THEN keep("none")
        ELSE IF state.section = "acknowledgements" /\ required THEN as("acknowledgements")
        ELSE keep(state.section)

ClassifyDocumentLines(pages, bands) ==
    LET blocks == [p \in DOMAIN pages |-> ClassifyPageLines(pages[p], bands[p].bands)]
    IN  FoldLeft(Section, [section |-> "none", blocks |-> <<>>], FlattenSeq(blocks)).blocks
=============================================================================
