---------------------------- MODULE MCPaperCases -----------------------------
(* Small inputs of every stage for TLC, those that read a paper and those  *)
(* that decide about it.                                                   *)
EXTENDS PaperCases, ReadingCases

(* A behaviour is one call, of whichever stage.                            *)
MCNext == Reading \/ Next

MCSpec == Init /\ [][MCNext]_vars
-----------------------------------------------------------------------------
(* Small pages for the stages that read the paper.                         *)

MCKinds == {<<"lower", 10000, 0, 0>>, <<"digit", 10000, 0, 0>>, <<"lower", 10000, 0, 12000>>,
            <<"digit", 8000, 6000, 0>>, <<"sign", 8000, 6000, 0>>, <<"lower", 5000, 5000, 500>>,
            <<"digit", 7000, -3000, 0>>, <<"lower", 7000, -3000, 0>>}

MCGlyphs(s) ==
    LET from(i) == 50000 + s[i][4]
                   + SumFunction([k \in 1 .. i - 1 |-> s[k][4] + s[k][2] \div 2])
    IN  {[id |-> i, text |-> s[i][1], font |-> "serif", size |-> s[i][2],
          box |-> <<from(i), 500000 + s[i][3], from(i) + s[i][2] \div 2,
                    500000 + s[i][3] + s[i][2]>>] : i \in DOMAIN s}

(* A word before a formula in another font, and a sign of it elsewhere.     *)
MCFormula(gap, y) ==
    MCGlyphs([i \in 1 .. 4 |-> <<"lower", 10000, 0, 0>>])
    \cup {[id |-> 5, text |-> "lower", font |-> "math", size |-> 10000,
           box |-> <<70000 + gap, 500000, 75000 + gap, 510000>>],
          [id |-> 6, text |-> "equals", font |-> "math", size |-> 10000,
           box |-> <<85000, y, 90000, y + 10000>>]}

(* Three raised or lowered characters, wide enough to cut the line.         *)
MCWideAffix ==
    {<<first, affix, affix, affix, last>> :
        first \in {s \in MCKinds : s[2] = 10000}, affix \in {s \in MCKinds : s[3] # 0},
        last \in {s \in MCKinds : s[2] = 10000}}

MCGlyphFamilies(most) ==
    {{[call |-> "glyphs", glyphs |-> MCGlyphs(s)] : s \in [1 .. n -> MCKinds]} : n \in 1 .. most}
    \cup
    {{[call |-> "glyphs", glyphs |-> MCGlyphs(s)] : s \in MCWideAffix},
     {[call |-> "glyphs", glyphs |-> MCFormula(g, y)] :
         g \in {0, 3000}, y \in {480000, 486000, 500000}}}
-----------------------------------------------------------------------------
(* Places in points.                                                        *)
MCBox(left, base, right, top) == <<1000 * left, 1000 * base, 1000 * right, 1000 * top>>

MCLine(i, x, top, w) ==
    [id |-> i, box |-> MCBox(x, top - 10, x + w, top), font |-> 10000, face |-> "serif", bold |-> FALSE,
     text |-> "plain", begins |-> "upper", ends |-> "word", says |-> {"prose", "lexical"},
     label |-> <<>>, refs |-> <<>>, wording |-> <<i>>,
     sure |-> 1000, body |-> TRUE, covered |-> TRUE, exclusion |-> "none", holder |-> 0]

MCText(i, x, top, w, b, e) == [MCLine(i, x, top, w) EXCEPT !.begins = b, !.ends = e]

MCHeading(i, x, top, text) ==
    [MCLine(i, x, top, 200) EXCEPT !.font = 12000, !.box = MCBox(x, top - 12, x + 200, top),
                                   !.bold = TRUE, !.face = "serif-bold", !.text = text,
                                   !.says = {"lexical"} \cup (IF text = "numbered" THEN {"continues"} ELSE {})]

MCPage(n, lines, vectors, images) ==
    [number |-> n, crop |-> MCBox(0, 0, 600, 800), lines |-> lines, vectors |-> vectors,
     images |-> images]

(* The lines of a first page.                                               *)
MCTitle == [MCLine(1, 100, 760, 400) EXCEPT !.font = 18000, !.box = MCBox(100, 742, 500, 760)]
MCFront ==
    {MCTitle,
     MCHeading(2, 50, 700, "numbered"),
     MCText(3, 50, 680, 240, "upper", "word"), MCText(4, 50, 666, 240, "lower", "hyphen"),
     MCText(5, 310, 700, 240, "lower", "word"), MCText(6, 310, 686, 240, "lower", "stop"),
     MCText(7, 330, 672, 220, "upper", "word"),
     MCHeading(8, 310, 640, "references"),
     MCText(9, 310, 620, 240, "upper", "stop"),
     MCText(10, 50, 200, 500, "upper", "stop"),
     MCText(11, 50, 652, 240, "lower", "and"),
     [MCText(12, 280, 660, 40, "lower", "word") EXCEPT !.says = {"lexical"}],
     [MCText(13, 50, 740, 100, "upper", "word") EXCEPT !.text = "abstract:"],
     [MCText(14, 50, 120, 120, "upper", "word") EXCEPT !.text = "corresponding"]}

MCFrontPages(n) == {MCPage(1, s, {}, {}) : s \in kSubset(n, MCFront)}

(* Two columns of text around graphics.                                     *)
MCTwoColumns(from) ==
    {MCText(from + 1, 50, 700, 240, "upper", "word"), MCText(from + 2, 50, 686, 240, "lower", "word"),
     MCText(from + 3, 310, 700, 240, "lower", "word"), MCText(from + 4, 310, 686, 240, "lower", "stop")}

MCVector(i, source, box) ==
    [id |-> i, source |-> source, box |-> box, width |-> 1000, filled |-> FALSE, stroked |-> TRUE]

MCGrid ==
    {MCVector(10 + k, "line", MCBox(310, 400 + 20 * k, 550, 400 + 20 * k)) : k \in 0 .. 2}
    \cup {MCVector(20 + k, "line", MCBox(310 + 120 * k, 400, 310 + 120 * k, 440)) : k \in 0 .. 2}
MCRules == {MCVector(30 + k, "line", MCBox(310, 400 + 20 * k, 550, 400 + 20 * k)) : k \in 0 .. 2}
MCDrawing ==
    {MCVector(40, "rect", MCBox(50, 560, 290, 640)), MCVector(41, "curve", MCBox(60, 570, 100, 600)),
     MCVector(42, "curve", MCBox(120, 570, 160, 630))}
MCShapes == MCDrawing \ {MCVector(40, "rect", MCBox(50, 560, 290, 640))}

MCLabelled(i, x, top, w, label, says) ==
    [MCLine(i, x, top, w) EXCEPT !.label = label, !.says = says, !.refs = <<label>>]

MCCaption == MCLabelled(21, 50, 550, 240, <<"figure", 1>>, {"prose", "lexical", "strict"})
MCCaptions ==
    {MCCaption,
     MCText(22, 50, 538, 200, "lower", "stop"),
     MCLabelled(23, 50, 526, 240, <<"figure", 1>>, {"prose", "lexical"}),
     [MCLine(24, 70, 620, 60) EXCEPT !.says = {"short"}],
     MCLabelled(25, 310, 470, 60, <<"table", 1>>, {"bare", "lexical"}),
     MCText(26, 310, 458, 240, "upper", "word"),
     [MCLine(27, 312, 394, 100) EXCEPT !.says = {"note", "lexical"}],
     [MCText(28, 50, 500, 240, "upper", "stop") EXCEPT !.refs = << <<"figure", 1>>, <<"table", 1>> >>]}
MCCells ==
    {[MCLine(31 + k, 320 + 130 * (k % 2), 416 + 20 * (k \div 2), 60) EXCEPT !.says = {"lexical"}] :
        k \in 0 .. 3}
MCFormulaLines ==
    {[MCLine(36, 80, 480, 120) EXCEPT !.says = {"math", "operator"}, !.face = "math"],
     [MCLine(37, 270, 480, 20) EXCEPT !.says = {"number", "continues"}],
     [MCLine(38, 205, 480, 8) EXCEPT !.says = {"short"}],
     MCText(39, 50, 455, 240, "lower", "stop")}
MCImage == [id |-> 50, box |-> MCBox(50, 560, 290, 640)]

MCGraphics ==
    {[vectors |-> v, images |-> {}] : v \in {MCGrid, MCRules, MCDrawing, MCShapes, MCGrid \cup MCDrawing}}
    \cup {[vectors |-> v, images |-> {MCImage}] : v \in {{}, MCGrid, MCRules, MCDrawing}}

MCGraphicPages(most) ==
    {MCPage(1, MCTwoColumns(0) \cup s \cup c, g.vectors, g.images) :
        s \in UNION {kSubset(n, MCCaptions) : n \in 0 .. most},
        c \in {{}, MCCells, MCFormulaLines}, g \in MCGraphics}

MCReadPages(pages) == {[call |-> "read", pages |-> <<p>>] : p \in pages}
-----------------------------------------------------------------------------
(* A paper of two pages: how the first ends and the second goes on, what   *)
(* headings end the text, a figure between the parts of a paragraph, and    *)
(* what is repeated at the margins.                                        *)
MCColumn(from, x, tops, b, e) ==
    {MCText(from + k, x, tops[k], 240, IF k = 1 THEN b ELSE "lower",
            IF k = Len(tops) THEN e ELSE "word") : k \in DOMAIN tops}

MCSection(from, x, h, e) ==
    (IF h = "none" THEN {} ELSE {MCHeading(from, x, 670, h)})
    \cup MCColumn(from, x, <<654, 640, 626>>, IF h = "none" THEN "lower" ELSE "upper", e)

MCFigure == {[MCCaption EXCEPT !.id = 40, !.box = MCBox(50, 616, 290, 626)]}

MCPart(n, b, e, h, figure) ==
    MCColumn(10, 50, <<700, 686>>, b, e) \cup MCColumn(20, 310, <<700, 686>>, b, "stop")
    \cup MCSection(30, IF figure \/ n = 1 THEN 310 ELSE 50, h, e)
    \cup (IF figure THEN MCFigure
          ELSE MCColumn(50, IF n = 1 THEN 50 ELSE 310, <<672, 658, 644, 630>>, "lower", e))

MCMargins == {[MCLine(60, 50, 790, 200) EXCEPT !.wording = <<777>>],
              [MCLine(61, 290, 40, 10) EXCEPT !.wording = <<900>>,
                                              !.says = {"page-number", "continues"}]}

MCPaperPage(n, b, e, h, figure) ==
    MCPage(n, MCPart(n, b, e, h, figure) \cup MCMargins \cup (IF n = 1 THEN {MCTitle} ELSE {}), {},
           IF figure THEN {[id |-> 70, box |-> MCBox(50, 630, 290, 674)]} ELSE {})

MCReadPapers(beginnings) ==
    {[call |-> "read",
      pages |-> <<MCPaperPage(1, "upper", e, h, f = 1), MCPaperPage(2, b, "stop", k, f = 2)>>] :
        e \in {"word", "hyphen", "stop", "and"}, b \in beginnings,
        h \in {"none", "references", "acknowledgements"},
        k \in {"none", "references", "acknowledgements", "numbered"}, f \in 0 .. 2}
-----------------------------------------------------------------------------
(* Small texts, pages and papers for the stages that make the edition.     *)

TextClasses == {"han", "latin", "digit", "open", "close", "space", "newline", "mark",
                "url", "slash", "symbol"}

MCAmbiguityLabel == <<"open", "han", "close">>

MCTextFamilies(most) ==
    {{[call |-> "break", text |-> t, labels |-> <<>>, width |-> w, leading |-> 2] :
        t \in [1 .. n -> TextClasses], w \in {2, 3}} : n \in 1 .. most}
    \cup
    {{[call |-> "break", text |-> t, width |-> w, leading |-> 2,
       labels |-> <<[id |-> 2, offset |-> o, text |-> MCAmbiguityLabel],
                    [id |-> 1, offset |-> 1, text |-> MCAmbiguityLabel]>>] :
        t \in [1 .. 3 -> {"han", "latin", "close", "space", "mark"}], o \in 0 .. 3,
        w \in {4, 5, 9}}}

MCPageFlows ==
    {<<"body", <<2, 2>>>>, <<"body", <<2, 2, 2, 2, 2>>>>, <<"heading", <<3>>>>,
     <<"title", <<4>>>>, <<"auxiliary", <<2>>>>, <<"body", <<7>>>>}

MCFlowUnits(fs) ==
    [k \in DOMAIN fs |-> Cardinality({j \in 1 .. k : j = 1 \/ fs[j][1] # "auxiliary"})]

MCFlowColumns(fs) ==
    [k \in DOMAIN fs |->
        LET parent == Max({1} \cup {j \in 1 .. k : fs[j][1] # "auxiliary"})
        IN ColumnsOf(fs[parent][1])]

MCPageFamilies(most) ==
    {{[call |-> "pack",
       graph |-> [flows |-> [k \in DOMAIN fs |->
                               [unit |-> MCFlowUnits(fs)[k], role |-> fs[k][1],
                                columns |-> MCFlowColumns(fs)[k], heights |-> fs[k][2]]],
                  sources |-> s, budget |-> 1, warning |-> w]] :
        fs \in [1 .. n -> MCPageFlows], s \in {1, 3}, w \in {2, 5}} : n \in 1 .. most}

(* A title, a caption, and a body of ten visible characters.               *)
MCPaperUnits ==
    <<[role |-> "title", pages |-> {1}, text |-> <<"han", "han">>],
      [role |-> "body", pages |-> {1},
       text |-> <<"han", "han", "close", "han", "han", "latin", "latin">>],
      [role |-> "figure-caption", pages |-> {1, 2}, text |-> <<"han", "mark", "han", "han">>]>>

MCReds ==
    {<<>>} \cup
    {<<[id |-> 1, unit |-> 2, start |-> 5, end |-> 7, importance |-> 1]>>} \cup
    {<<[id |-> 1, unit |-> u, start |-> s, end |-> s + n, importance |-> i],
       [id |-> 2, unit |-> 2, start |-> 1, end |-> 2, importance |-> 2]>> :
        u \in {1, 2, 3}, s \in 0 .. 1, n \in {1, 2}, i \in {1, 3}}

MCOneAmbiguity == <<[key |-> 1, unit |-> 2, start |-> 0, end |-> 2]>>
MCAmbiguities ==
    {<<>>, MCOneAmbiguity,
     <<[key |-> 1, unit |-> 3, start |-> 0, end |-> 2],
       [key |-> 1, unit |-> 2, start |-> 3, end |-> 5]>>,
     <<[key |-> 1, unit |-> 2, start |-> 0, end |-> 2],
       [key |-> 1, unit |-> 2, start |-> 1, end |-> 4]>>}

Note == <<"han", "han">>
LongNote == <<"han", "han", "han", "han", "han">>

Term(i, places, p, e) ==
    [id |-> i, places |-> places, content |-> Note, priority |-> p, essential |-> e,
     quoted |-> TRUE]
MCPlace(u, s) == [unit |-> u, start |-> s, end |-> s + 1]
MCTeaching ==
    {<<>>} \cup
    {<<Term(11, <<MCPlace(2, 0)>>, 1, e), Term(12, <<MCPlace(2, 4), MCPlace(1, 0)>>, p, f),
       Term(13, <<MCPlace(3, 2)>>, 1, FALSE)>> : e, f \in BOOLEAN, p \in {0, 2}}

Figure(i, f, p, e) ==
    [id |-> i, figure |-> f, unit |-> 3, start |-> 0, end |-> 2, content |-> LongNote,
     compact |-> Note, priority |-> p, essential |-> e, quoted |-> TRUE]
MCFigures ==
    {<<Figure(21, 1, 1, FALSE)>>} \cup
    {<<Figure(21, 1, 1, e), Figure(22, f, p, FALSE)>> : e \in BOOLEAN, f \in {1, 2}, p \in {0, 2}}

MCPaper(r, a, t, f, w) ==
    [call |-> "finalize",
     paper |-> [units |-> MCPaperUnits, keys |-> {a[i].key : i \in DOMAIN a},
                manifest |-> [bound |-> TRUE, red |-> r, ambiguities |-> a,
                              teaching |-> t, figures |-> f],
                sources |-> 2, figures |-> {}, warning |-> w]]

MCOneTerm == <<Term(11, <<MCPlace(2, 0)>>, 1, TRUE)>>
MCOneFigure == <<Figure(21, 1, 1, FALSE)>>

(* Every selection of notes beside some marks, every choice of marks       *)
(* beside some notes.                                                      *)
MCPaperFamilies(heights) ==
    {{MCPaper(<<[id |-> 1, unit |-> 2, start |-> 5, end |-> 7, importance |-> 1]>>, a, t, f, w) :
        a \in {<<>>, MCOneAmbiguity}, t \in MCTeaching, f \in MCFigures, w \in heights},
     {MCPaper(r, a, MCOneTerm, MCOneFigure, 2) : r \in MCReds, a \in MCAmbiguities}}

(* Papers with up to seven terms on two of their units, more than some     *)
(* limits allow, and with one that starts inside a cluster.                *)
MCLongPapers(most) ==
    {MCPaper(<<>>, <<>>,
             [i \in 1 .. n |->
                [Term(10 + i, <<MCPlace(IF i <= split THEN 2 ELSE 1, i % 2)>>, i % p, i = 1)
                    EXCEPT !.content = IF i % l = 0 THEN LongNote ELSE Note]],
             f, 2) :
        n \in 3 .. most, split \in 2 .. 5, p \in {1, 2, 3}, l \in {1, 2, 5},
        f \in {MCOneFigure, <<Figure(21, 1, 1, FALSE), Figure(22, 1, 2, FALSE)>>}}
    \cup
    {MCPaper(<<>>, <<>>, <<Term(11, <<MCPlace(2, 0)>>, 1, FALSE), Term(12, <<MCPlace(3, 1)>>, 1, e),
                           Term(13, <<MCPlace(2, 3)>>, p, FALSE)>>, MCOneFigure, 2) :
        e \in BOOLEAN, p \in {0, 2}}

(* A body of a few characters of every class that is drawn in a way of its *)
(* own, with a red and an ambiguous passage that may overlap.              *)
MCDrawnPapers(n, classes) ==
    {[MCPaper(<<[id |-> 1, unit |-> 2, start |-> r, end |-> r + 1, importance |-> 1]>>,
              <<[key |-> 1, unit |-> 2, start |-> a, end |-> a + 2]>>,
              MCOneTerm, MCOneFigure, 2)
        EXCEPT !.paper.units[2].text = t \o <<"han", "han">>] :
        t \in [1 .. n -> classes], r \in 0 .. n, a \in 0 .. n}
-----------------------------------------------------------------------------
(* Calls of the sandboxed operations, and small files.                     *)

MCOperations == {"preflight", "normalize", "extract", "render", "qa"}

MCWrongs(o) ==
    LET wrong == CanBeWrong(o)
        single(p) == {p :> k : k \in wrong[p]}
        some == UNION {single(p) : p \in DOMAIN wrong}
    IN  {<<>>} \cup some \cup {s @@ t : s \in some, t \in some}

MCSandboxFamilies(operations) ==
    {{[call |-> "sandbox", op |-> o, wrong |-> w, reported |-> r,
       size |-> [pdf |-> 1, artifact |-> 1]] : w \in MCWrongs(o), r \in BOOLEAN} : o \in operations}
    \cup
    {{[call |-> "sandbox", op |-> o, wrong |-> w, reported |-> FALSE,
       size |-> [pdf |-> p, artifact |-> a]] :
        o \in operations,
        w \in {<<>>, "output" :> "missing", "core" :> "MemoryError", "write" :> "starved"},
        p \in {0, 1, 8, 9, 16, 17}, a \in {0, 1, 2, 8, 9}}}

-----------------------------------------------------------------------------
(* Files.  Objects 1 and 2 are the trailer and the catalog; node j of the  *)
(* tree of pages is object 2 + j, and its array of kids object 5 + j.      *)

MCMediaBox == <<0, 0, 200, 100>>
MCPageText == [readable |-> TRUE, characters |-> 4, english |-> 3, letters |-> 4]

MCLimits ==
    [max_file_bytes |-> 5, max_pages |-> 2, max_objects |-> 40, max_recursion_depth |-> 9,
     max_decoded_stream_bytes |-> 20, max_image_bytes |-> 12, min_characters |-> 3,
     min_english |-> 2, min_ratio |-> 500000]

MCNode(n, at, parent) ==
    [kind |-> "dictionary", parent |-> parent, type |-> n.type, kids |-> n.kids, count |-> n.count, at |-> at,
     items |-> IF n.type = "Pages" THEN <<0, n.array, 0>> ELSE <<0>> \o n.contents,
     contents |-> n.contents, unit |-> "one", text |-> MCPageText]

MCLeaf == [type |-> "Page", kids |-> <<>>, count |-> 0, array |-> 0, contents |-> <<>>]
MCPages(kids, count, array) ==
    [type |-> "Pages", kids |-> kids, count |-> count, array |-> array, contents |-> <<>>]

MCArray(items) == [kind |-> "array", items |-> items]
MCValue == [kind |-> "value", items |-> <<>>]
MCBroken(kind) == [kind |-> kind, items |-> <<>>]
MCInline ==
    [readable |-> TRUE, filters |-> <<>>, mask |-> TRUE, width |-> 1, height |-> 1, bits |-> 0,
     space |-> "rgb", decoded |-> 0, ends |-> TRUE]

MCSpace(family, name, inner, count) ==
    [family |-> family, name |-> name, inner |-> inner, count |-> count, sound |-> TRUE]

MCSpaces ==
    [rgb |-> MCSpace("name", "DeviceRGB", <<>>, 0), gray |-> MCSpace("DeviceGray", "", <<>>, 0),
     alias |-> MCSpace("name", "Cs1", <<>>, 0), loop |-> MCSpace("name", "Cs2", <<>>, 0),
     indexed |-> MCSpace("Indexed", "", <<"rgb">>, 0), icc |-> MCSpace("ICCBased", "", <<"rgb">>, 3),
     wrong |-> MCSpace("ICCBased", "", <<"gray">>, 3), bare |-> MCSpace("ICCBased", "", <<>>, 1),
     ring |-> MCSpace("Separation", "", <<"ring">>, 0), two |-> MCSpace("DeviceN", "", <<"icc">>, 2),
     deep |-> MCSpace("Indexed", "", <<"deeper">>, 0), deeper |-> MCSpace("Indexed", "", <<"two">>, 0),
     short |-> [MCSpace("Lab", "", <<>>, 0) EXCEPT !.sound = FALSE],
     lab |-> MCSpace("CalRGB", "", <<>>, 0), pattern |-> MCSpace("Pattern", "", <<"ring">>, 0)]

MCFile(objects) ==
    [path |-> "regular", bytes |-> 5, syntax |-> "pdf", encrypted |-> FALSE, root |-> 2, tree |-> 3,
     objects |-> objects, spaces |-> <<>>, drawn |-> <<>>, inline |-> MCInline]

MCInspect(d, limits) == [call |-> "inspect", document |-> d, limits |-> limits]

MCTree(nodes, at) ==
    MCFile(<<MCArray(<<2>>), [kind |-> "dictionary", items |-> <<0, 3>>]>>
               \o [j \in 1 .. 3 |-> IF nodes[j].type = "unreadable" THEN MCBroken("unreadable")
                                    ELSE MCNode(nodes[j], at[j], IF j = 1 THEN <<>> ELSE <<3>>)]
               \o [j \in 1 .. 3 |-> MCArray(nodes[j].kids)])

MCKids(S, n) == UNION {[1 .. m -> S] : m \in 0 .. n}

(* Trees, cyclic and shared ones, ones with miscounts, too deep, too large. *)
MCTrees(limits) ==
    {MCInspect(MCTree(<<MCPages(k, c, 6), b, e>>, <<"MediaBox" :> MCMediaBox, <<>>, <<>>>>), l) :
        k \in MCKids({4, 5}, 2) \cup {<<3>>, <<0, 4>>, <<4, 5, 5>>, <<5, 4, 3>>}, c \in {0, 1, 2, 3},
        b \in {MCLeaf} \cup {MCPages(m, 1, 7) : m \in MCKids({3, 5}, 2)},
        e \in {MCLeaf, MCPages(<<4>>, 1, 8), [MCLeaf EXCEPT !.type = "unreadable"]},
        l \in {limits, [limits EXCEPT !.max_objects = 11], [limits EXCEPT !.max_objects = 3],
               [limits EXCEPT !.max_recursion_depth = 5, !.max_pages = 1]}}

(* Attributes that are inherited, covered, and wrong.                       *)
MCBoxes ==
    {"CropBox" :> <<10, 10, 50, 61>>, "CropBox" :> <<10, 10, 201, 60>>,
     "CropBox" :> <<9, 10, 10, 60>>, "TrimBox" :> <<-1, 0, 60, 60>>, "Rotate" :> <<450>>,
     "Rotate" :> <<91>>, "Rotate" :> <<>>, "MediaBox" :> <<>>, <<>>}

MCGeometries(limits) ==
    {LET file == MCTree(<<MCPages(<<4>>, 1, 6), MCPages(<<5>>, 1, 7), MCLeaf>>, <<r, m, p>>)
     IN  MCInspect([file EXCEPT !.objects[5].unit = u], limits) :
        r \in {"MediaBox" :> MCMediaBox, "MediaBox" :> MCMediaBox @@ "Rotate" :> <<90>>, <<>>},
        m \in MCBoxes, p \in MCBoxes, u \in {"one", "other"}}
    \cup
    {MCInspect(MCTree(<<MCPages(<<4, 5>>, 2, 6), MCLeaf, MCLeaf>>, <<"MediaBox" :> MCMediaBox, m, p>>),
               limits) : m \in MCBoxes, p \in MCBoxes}

MCTexts(limits) ==
    {LET file == MCTree(<<MCPages(<<4, 5>>, 2, 6), MCLeaf, MCLeaf>>,
                        <<"MediaBox" :> MCMediaBox, <<>>, <<>>>>)
     IN  MCInspect([file EXCEPT !.objects[4].text = [MCPageText EXCEPT !.readable = r],
                                !.objects[5].text = [readable |-> TRUE, characters |-> c,
                                                     english |-> e, letters |-> 5]], limits) :
        r \in BOOLEAN, c \in 1 .. 3, e \in 0 .. 3}

(* One page, and three more objects that the catalog refers to.            *)
MCStream(filters, length, flate) ==
    [kind |-> "stream", items |-> <<0>>, filters |-> filters, encoded |-> "good",
     length |-> length, flate |-> flate, tokens |-> <<>>]
MCPlain(n) == MCStream(<<>>, n, [size |-> 0, end |-> "error"])
MCFlate(n, end) == MCStream(<<"Fl">>, 3, [size |-> n, end |-> end])

MCGraph(contents, extra, resources) ==
    LET page == [MCLeaf EXCEPT !.contents = contents]
        tree == MCTree(<<MCPages(<<4>>, 1, 6), page, page>>,
                       <<"MediaBox" :> MCMediaBox @@ "Resources" :> resources, <<>>, <<>>>>)
    IN  [tree EXCEPT !.objects = [@ \o extra EXCEPT ![2].items = <<3, 0, 9>>, ![5] = MCValue],
                     !.drawn = contents]

MCGraphs(limits) ==
    {MCInspect(MCGraph(<<>>, <<MCArray(a), [kind |-> "dictionary", items |-> b, action |-> "Launch"],
                               c, MCArray(<<0>>)>>, <<>>), l) :
        a \in MCKids({9, 10, 11}, 2) \cup {<<11, 0, 10, 11>>},
        b \in MCKids({9, 10, 11}, 2) \cup {<<0, 4>>, <<0, 2, 11>>},
        c \in {MCPlain(12), MCBroken("null"), MCArray(<<12>>),
               [kind |-> "dictionary", items |-> <<10>>, action |-> "JavaScript",
                subtype |-> "RichMedia"]},
        l \in {limits, [limits EXCEPT !.max_objects = 19],
               [limits EXCEPT !.max_recursion_depth = 5]}}

MCFilters ==
    {<<>>, <<"Fl">>, <<"A85">>, <<"AHx", "Fl">>, <<"Fl", "A85">>, <<"DCT">>, <<"RL">>, <<"LZW">>,
     <<"Fl", "JBIG2">>, <<"malformed">>}

MCStreams(limits) ==
    {MCInspect(MCGraph(c, <<MCStream(f, n, [size |-> z, end |-> e]), MCPlain(8), MCValue>>, <<>>),
               [limits EXCEPT !.max_decoded_stream_bytes = m]) :
        c \in {<<10>>, <<9, 10>>, <<10, 11>>}, f \in MCFilters, n \in {1, 12},
        z \in {12, 13, 21}, e \in {"complete", "truncated", "error"}, m \in {20, 136}}

MCDrawn(width, bits, space) ==
    [mask |-> bits = 1, width |-> width, height |-> 2, bits |-> bits, space |-> space]

MCImages(limits) ==
    {LET image == MCDrawn(w, b, s)
         file == MCGraph(<<>>, <<MCPlain(1) @@ [subtype |-> "Image", image |-> image], MCValue,
                                 MCValue>>, <<>>)
     IN  MCInspect([file EXCEPT !.spaces = MCSpaces], limits) :
        w \in {0, 1, 2, 3}, b \in {0, 1, 3, 8, 16}, s \in DOMAIN MCSpaces}
    \cup
    {LET file == MCGraph(<<9, 9>>, <<[MCPlain(1) EXCEPT !.tokens = t], MCValue, MCValue>>,
                         ("Cs1" :> "icc") @@ ("Cs2" :> "loop") @@ ("Cs3" :> c.other))
         image == MCDrawn(c.width, 8, c.space) @@
                      [readable |-> TRUE, filters |-> c.filters, decoded |-> 9, ends |-> e]
     IN  MCInspect([file EXCEPT !.spaces = MCSpaces, !.inline = image], limits) :
        c \in [width : {0, 1, 2}, space : {"alias", "two", "loop", "ring"},
              other : {"gray", "pattern", "deep"}, filters : {<<>>, <<"RL">>}]
            \cup [width : {1}, space : {"two"}, other : {"gray"}, filters : MCFilters],
        t \in {<<"image">>, <<"operand", "image">>, <<"operand", "operand", "operand">>,
              <<"operand", "operand", "operator", "comment", "image">>}, e \in BOOLEAN}

MCFiles(limits) ==
    {MCInspect([MCGraph(<<>>, <<MCValue, MCValue, MCValue>>, <<>>)
                   EXCEPT !.path = p, !.bytes = b, !.syntax = s, !.encrypted = e], limits) :
        p \in {"regular", "link"}, b \in {5, 6}, s \in {"pdf", "other"}, e \in BOOLEAN}
    \cup
    {MCInspect([MCGraph(<<>>, <<MCArray(a), MCValue, MCValue>>, <<>>)
                   EXCEPT !.objects[4].parent = <<>>], [limits EXCEPT !.max_objects = n]) :
        a \in MCKids({0, 10}, 2), n \in 10 .. 16}

MCFileFamilies(limits) ==
    {MCTrees(limits), MCGeometries(limits), MCTexts(limits), MCGraphs(limits), MCStreams(limits),
     MCImages(limits), MCFiles(limits)}
-----------------------------------------------------------------------------
(* Sets of sets: TLC compares the inputs of a union with one another, and  *)
(* looks at small sets first, so that the papers, which take long, are in  *)
(* one large set.                                                          *)
MCPapers ==
    UNION MCPaperFamilies({2, 5}) \cup MCLongPapers(7)
    \cup MCDrawnPapers(2, {"han", "latin", "space", "mark", "symbol"})
    \cup MCDrawnPapers(3, {"han", "mark", "symbol"})

MCInputFamilies ==
    MCGlyphFamilies(4)
    \cup {MCReadPages(MCFrontPages(3)), MCReadPages(MCFrontPages(5)), MCReadPages(MCGraphicPages(2)),
          MCReadPapers({"list", "lower", "upper"})}
    \cup MCTextFamilies(4)
    \cup MCPageFamilies(4)
    \cup {MCPapers}
    \cup MCSandboxFamilies(MCOperations)
    \cup MCFileFamilies(MCLimits)

MCSectionFamilies == {MCReadPapers({"list", "lower", "upper"})}
=============================================================================
