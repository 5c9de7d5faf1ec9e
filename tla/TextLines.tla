------------------------------ MODULE TextLines ------------------------------
(***************************************************************************)
(* The text lines of a page, out of its characters: extraction/            *)
(* text_lines.py, and what extraction/api.py demands of the lines.          *)
(*                                                                         *)
(* A glyph is [id, text, box, font, size]; text is the class of its        *)
(* character, font the name of the font.  Coordinates are milli-points.    *)
(***************************************************************************)
EXTENDS PageGeometry, TLC

Middle(g) == (Base(g.box) + Top(g.box)) \div 2
Height(g) == Top(g.box) - Base(g.box)

FromTheTop(glyphs) ==
    Sorted(glyphs, LAMBDA g, h : Lexicographic(<< -Top(g.box), Left(g.box), g.id >>,
                                               << -Top(h.box), Left(h.box), h.id >>))
FromTheLeft(glyphs) ==
    Sorted(glyphs, LAMBDA g, h : Lexicographic(<<Left(g.box), Base(g.box), g.id>>,
                                               <<Left(h.box), Base(h.box), h.id>>))

(* A glyph joins the first cluster whose first glyph is about as high.      *)
VerticalClusters(glyphs) ==
    LET near(g, cluster) ==
            Apart(Middle(g), Middle(cluster[1]))
                <= Max({2000, Min({g.size, cluster[1].size}) \div 4})
        add(clusters, g) ==
            LET fitting == {i \in DOMAIN clusters : near(g, clusters[i])}
            IN  IF fitting = {} THEN Append(clusters, <<g>>)
                ELSE [clusters EXCEPT ![Min(fitting)] = Append(@, g)]
    IN  FoldLeft(add, <<>>, FromTheTop(glyphs))

HorizontalSegments(cluster) ==
    LET add(segments, g) ==
            IF segments = <<>> THEN << <<g>> >>
            ELSE LET previous == Last(Last(segments))
                 IN  IF Left(g.box) - Right(previous.box)
                            > Max({6000, previous.size, g.size})
                     THEN Append(segments, <<g>>)
                     ELSE [segments EXCEPT ![Len(segments)] = Append(@, g)]
    IN  FoldLeft(add, <<>>, FromTheLeft(Range(cluster)))

(* The classes of a segment's text, with a space in every wide gap.         *)
SegmentText(segment) ==
    LET gap(i) == Left(segment[i].box) - Right(segment[i - 1].box)
        word(i) == Max({800, (3 * Min({segment[i - 1].size, segment[i].size})) \div 20})
        text == FlattenSeq([i \in DOMAIN segment |->
                    IF i > 1 /\ gap(i) > word(i) THEN <<"space", segment[i].text>>
                    ELSE <<segment[i].text>>])
        ink == {i \in DOMAIN text : text[i] # "space"}
    IN  IF ink = {} THEN <<>> ELSE SubSeq(text, Min(ink), Max(ink))
-----------------------------------------------------------------------------
HasWord(text) ==
    \E i \in 1 .. Len(text) - 3 : \A j \in i .. i + 3 : text[j] \in {"lower", "upper"}

(* Where the formula begins that follows a passage of prose, or 0.          *)
MathPrefix(segment, glyphs) ==
    LET operators == {g \in glyphs : g.text = "equals" /\ g \notin Range(segment)}
        before(i) == SegmentText(SubSeq(segment, 1, i - 1))
        from(i) == SegmentText(SubSeq(segment, i, Len(segment)))
        splits == {i \in 2 .. Len(segment) :
            /\ \/ segment[i].font # segment[i - 1].font
               \/ before(i) # <<>> /\ Last(before(i)) = "colon"
            /\ segment[i].text # "space"
            /\ HasWord(before(i)) /\ ~HasWord(from(i))
            /\ \E g \in operators :
                  /\ Apart(Base(g.box) + Top(g.box), Base(segment[i].box) + Top(segment[i].box))
                        <= 30000
                  /\ Left(segment[i].box) <= Left(g.box)
                  /\ Left(g.box) <= Right(Last(segment).box) + 40000}
    IN  IF splits = {} THEN 0 ELSE Min(splits)

SplitMathPrefixes(segments, glyphs) ==
    FlattenSeq([i \in DOMAIN segments |->
        LET s == segments[i]
            at == MathPrefix(s, glyphs)
        IN  IF at = 0 THEN <<s>> ELSE <<SubSeq(s, 1, at - 1), SubSeq(s, at, Len(s))>>])
-----------------------------------------------------------------------------
(* Raised and lowered characters are attached to the glyph beside them.     *)
Repeated(class, n) == [i \in 1 .. n |-> class]
Digits(n) == {Repeated("digit", k) : k \in 1 .. n}
Fraction == {n \o d : n \in Digits(3), d \in {<<>>} \cup {<<"slash">> \o d : d \in Digits(2)}}

NumericSuperscripts ==
    {Repeated("sign", a) \o n \o Repeated("sign", b) : n \in Fraction, a, b \in {0, 1}}
LoweredSuffixes ==
    {t \o e : t \in Fraction \cup {Repeated("lower", k) : k \in 1 .. 3}, e \in {<<>>, <<"comma">>}}

SharedHeight(g, h) == Min({Top(g.box), Top(h.box)}) - Max({Base(g.box), Base(h.box)})
GapAfter(g, marker) == Left(marker.box) - Right(g.box)
Size(n) == IF n < 0 THEN -n ELSE n

(* The segment with the best score, of the scores <<..., segment>>, or 0.   *)
BestSegment(scores) ==
    IF scores = {} THEN 0
    ELSE Last(CHOOSE s \in scores : \A t \in scores \ {s} : Lexicographic(s, t))

SuperscriptTarget(marker, segments) ==
    LET carries(g) ==
            /\ marker.size * 10 <= g.size * 9
            /\ Middle(marker) > Middle(g) + Max({500, marker.size \div 10})
            /\ Max({0, SharedHeight(marker, g)}) * 2 >= Min({Height(marker), Height(g)})
            /\ -Max({250, g.size \div 20}) <= GapAfter(g, marker)
            /\ GapAfter(g, marker) <= Max({500, g.size \div 4})
    IN  BestSegment(UNION {{<<Size(GapAfter(g, marker)), -SharedHeight(marker, g), i>> :
                              g \in {g \in Range(segments[i]) : carries(g)}} :
                           i \in DOMAIN segments})

Alphanumeric == {"digit", "lower", "upper"}

SubscriptTarget(marker, segments) ==
    LET sorted(i) == Sorted(Range(segments[i]), LAMBDA g, h : Lexicographic(<<Left(g.box), g.id>>,
                                                                       <<Left(h.box), h.id>>))
        pairs(i) == {<<sorted(i)[k], sorted(i)[k + 1]>> : k \in 1 .. Len(segments[i]) - 1}
        smaller(p) == Min({p[1].size, p[2].size})
        fits(gap, size) == -Max({250, size \div 20}) <= gap /\ gap <= Max({500, size \div 4})
        carries(p) ==
            /\ {p[1].text, p[2].text} \subseteq Alphanumeric
            /\ marker.size * 10 <= smaller(p) * 9
            /\ Middle(marker) < (Base(p[1].box) + Top(p[1].box) + Base(p[2].box)
                                    + Top(p[2].box)) \div 4 - Max({500, marker.size \div 10})
            /\ \A g \in {p[1], p[2]} :
                  Max({0, SharedHeight(marker, g)}) * 2 >= Min({Height(marker), Height(g)})
            /\ fits(GapAfter(p[1], marker), smaller(p)) /\ fits(GapAfter(marker, p[2]), smaller(p))
        score(p) == Size(GapAfter(p[1], marker)) + Size(GapAfter(marker, p[2]))
    IN  BestSegment(UNION {{<<score(p), Size(GapAfter(p[1], marker)), i>> :
                              p \in {p \in pairs(i) : carries(p)}} : i \in DOMAIN segments})

LoweredSuffixTarget(marker, segments) ==
    LET carries(g) ==
            /\ g.text \in Alphanumeric \cup {"close"}
            /\ marker.size * 10 <= g.size * 8
            /\ -500 <= GapAfter(g, marker) /\ GapAfter(g, marker) <= Max({500, g.size \div 4})
            /\ Base(marker.box) + Top(marker.box) < Base(g.box) + Top(g.box) - 1000
            /\ SharedHeight(marker, g) * 2 >= Height(marker)
    IN  BestSegment(UNION {{<<Size(GapAfter(g, marker)), i>> :
                              g \in {g \in Range(segments[i]) : carries(g)}} :
                           i \in DOMAIN segments})

AffixTarget(text, marker, segments) ==
    LET raised == text \in NumericSuperscripts \/ text \in {<<"sign">>, <<"registered">>}
        digit == text = <<"digit">>
        above == IF raised THEN SuperscriptTarget(marker, segments) ELSE 0
        inside == IF above = 0 /\ digit THEN SubscriptTarget(marker, segments) ELSE above
    IN  IF inside = 0 /\ text \in LoweredSuffixes THEN LoweredSuffixTarget(marker, segments)
        ELSE inside

(* A bug: the rest stays a line of its own too.                             *)
RejoinTwice(state, target) ==
    LET anchor == state.segments[target][CHOOSE i \in DOMAIN state.segments[target] :
                      /\ \A j \in DOMAIN state.segments[target] :
                            state.segments[target][j].size <= state.segments[target][i].size
                      /\ \A j \in 1 .. i - 1 :
                            state.segments[target][j].size < state.segments[target][i].size]
        join(s, i) ==
            LET first == s.segments[i][1]
                gap == Left(first.box) - Max({Right(g.box) : g \in Range(s.segments[target])})
            IN  IF /\ i \notin s.removed /\ i # target
                   /\ 0 <= gap /\ gap <= Max({500, anchor.size \div 3})
                   /\ Apart(Base(first.box), Base(anchor.box)) <= 500
                   /\ first.size = anchor.size
                THEN [segments |-> [s.segments EXCEPT ![target] = @ \o s.segments[i]],
                      removed |-> s.removed]
                ELSE s
    IN  FoldLeft(join, state, [i \in DOMAIN state.segments |-> i])

(* A wide affix may have cut its line: the rest of it is joined again.      *)
Rejoin(state, target) ==
    LET anchor == state.segments[target][CHOOSE i \in DOMAIN state.segments[target] :
                      /\ \A j \in DOMAIN state.segments[target] :
                            state.segments[target][j].size <= state.segments[target][i].size
                      /\ \A j \in 1 .. i - 1 :
                            state.segments[target][j].size < state.segments[target][i].size]
        join(s, i) ==
            LET first == s.segments[i][1]
                gap == Left(first.box) - Max({Right(g.box) : g \in Range(s.segments[target])})
            IN  IF /\ i \notin s.removed /\ i # target
                   /\ 0 <= gap /\ gap <= Max({500, anchor.size \div 3})
                   /\ Apart(Base(first.box), Base(anchor.box)) <= 500
                   /\ first.size = anchor.size
                THEN [segments |-> [s.segments EXCEPT ![target] = @ \o s.segments[i]],
                      removed |-> s.removed \cup {i}]
                ELSE s
    IN  FoldLeft(join, state, [i \in DOMAIN state.segments |-> i])

Attach(state, k) ==
    LET segment == state.segments[k]
        text == SegmentText(segment)
        marker == [segment[1] EXCEPT !.box = BoxOf(Range(segment)),
                                     !.size = Max({g.size : g \in Range(segment)})]
        affix == \/ Len(segment) = 1
                 \/ Len(segment) <= 6 /\ text \in NumericSuperscripts \cup LoweredSuffixes
        target == IF affix THEN AffixTarget(text, marker, state.segments) ELSE 0
    IN  IF k \in state.removed \/ target \in {0, k} THEN state
        ELSE Rejoin([segments |-> [state.segments EXCEPT ![target] =
                                       FromTheLeft(Range(@ \o segment))],
                     removed |-> state.removed \cup {k}], target)

AttachInlineAffixes(segments) ==
    LET state == FoldLeft(Attach, [segments |-> segments, removed |-> {}],
                          [i \in DOMAIN segments |-> i])
    IN  {state.segments[i] : i \in DOMAIN segments \ state.removed}

BuildTextLines(glyphs) ==
    LET clusters == VerticalClusters(glyphs)
        segments == SelectSeq(FlattenSeq([i \in DOMAIN clusters |->
                                             HorizontalSegments(clusters[i])]),
                              LAMBDA s : SegmentText(s) # <<>>)
        lines == AttachInlineAffixes(SplitMathPrefixes(segments, glyphs))
        key(l) == << -Max({Top(g.box) : g \in Range(l)}), Min({Left(g.box) : g \in Range(l)}) >>
                  \o [i \in DOMAIN l |-> l[i].id]
    IN  Sorted(lines, LAMBDA a, b : Lexicographic(key(a), key(b)))
-----------------------------------------------------------------------------
(* The parent refuses an extraction whose lines lose a character, have one *)
(* twice or are out of order.                                              *)
LinesAreValid(glyphs, lines) ==
    /\ \A i \in DOMAIN lines : lines[i] = FromTheLeft(Range(lines[i]))
    /\ \A i, j \in DOMAIN lines : i # j => Range(lines[i]) \cap Range(lines[j]) = {}
    /\ {g \in glyphs : g.text # "space"} \subseteq UNION {Range(lines[i]) : i \in DOMAIN lines}
=============================================================================
