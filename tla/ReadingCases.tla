---------------------------- MODULE ReadingCases -----------------------------
(***************************************************************************)
(* The stages that read the paper, each applied to every input of a small  *)
(* set: the inspection of a file, characters into lines, and lines and     *)
(* drawings into the units that are translated.                            *)
(***************************************************************************)
EXTENDS Cases, Preflight, TextLines, PageBlocks, SemanticUnits

ReadDocument(pages) ==
    LET extraction == BuildBasicBlocks(pages)
        topology == BuildTopology(extraction)
        units == BuildSemanticUnits(topology)
        valid == ExtractionIsValid(extraction)
    IN  [status |-> IF ~valid THEN "EXTRACTION_REFUSED"
                    ELSE IF topology.status = "OK" THEN units.status ELSE topology.status,
         pages |-> extraction,
         blocks |-> IF valid THEN topology.blocks ELSE <<>>,
         bands |-> IF valid THEN topology.bands ELSE <<>>,
         units |-> IF valid /\ topology.status = "OK" THEN units.units ELSE <<>>]

LinesOf(c) == BuildTextLines(c.glyphs)

PagesOf(c) == ReadDocument(c.pages)

BreakIntoLines == Answer("glyphs", LinesOf)

ReadPages == Answer("read", PagesOf)

Inspected(c) == PreflightSafeCopy(c.document, c.limits)

InspectFile == Answer("inspect", Inspected)

Reading == BreakIntoLines \/ ReadPages \/ InspectFile
-----------------------------------------------------------------------------
(* Every character of a page stays in one line, in order, whatever is      *)
(* split off and attached, as text_lines.py says of its affixes.  Three     *)
(* sizes of type are the exception: an affix of an affix may be lost, and   *)
(* api.py then refuses the paper.                                          *)
GlyphsAreKept ==
    Answered("glyphs") =>
        \/ LinesAreValid(input.glyphs, result[1])
        \/ Cardinality({g.size : g \in input.glyphs}) > 2

SectionsBefore(blocks, i) ==
    {j \in 1 .. i : \/ blocks[j].role = "heading"
                    \/ blocks[j].role = "acknowledgements"
                       /\ blocks[j].text = <<"acknowledgements">>}

(* The text after the references' heading, or under the acknowledgements.   *)
IsClosing(blocks, i) ==
    LET headings == SectionsBefore(blocks, i)
    IN  \/ \E j \in headings \ {i} : blocks[j].text = <<"references">>
        \/ headings # {} /\ blocks[Max(headings)].role = "acknowledgements"

FrontRoles == {"author", "affiliation", "bibliographic-metadata", "footnote"}

(* A line of the text is in one block, and the block in the units unless    *)
(* it closes the paper or is in front of it.                                *)
TextIsKept(answer) ==
    LET blocks == answer.blocks
        inUnits == UNION {Range(u.fragments) : u \in Range(answer.units)}
    IN  \A p \in DOMAIN answer.pages : \A l \in answer.pages[p].lines :
          LET holding == {i \in DOMAIN blocks :
                            blocks[i].page = p /\ l.id \in Range(blocks[i].lines)}
          IN  /\ Cardinality(holding) = 1
              /\ l.covered => \A i \in holding :
                    \/ i \in inUnits /\ ~IsClosing(blocks, i)
                    \/ i \notin inUnits /\ IsClosing(blocks, i)
                    \/ i \notin inUnits /\ p = 1 /\ blocks[i].role \in FrontRoles

(* Of two blocks of one page, the upper one is read first when they share   *)
(* some of their width, and otherwise the left one of two side by side.     *)
FollowsThePage(answer) ==
    LET blocks == answer.blocks
    IN  \A j \in DOMAIN blocks : \A i \in 1 .. j - 1 :
          (/\ blocks[i].page = blocks[j].page
           /\ {blocks[i].role, blocks[j].role} \subseteq Translatable) =>
             IF SharedWidth(blocks[i].box, blocks[j].box) > 0
             THEN Top(blocks[j].box) <= Top(blocks[i].box)
             ELSE \/ Left(blocks[i].box) < Left(blocks[j].box)
                  \/ Top(blocks[j].box) <= Base(blocks[i].box)

(* A paper is read whole and down its columns, or refused.  The audits of   *)
(* the source and of the units never contradict the stages before them,     *)
(* but for a caption that stands among the references or under the          *)
(* acknowledgements.                                                       *)
PaperIsReadInOrder ==
    Answered("read") =>
        LET answer == result[1]
        IN  CASE answer.status = "OK" -> TextIsKept(answer) /\ FollowsThePage(answer)
              [] answer.status = "TopologyContractError" ->
                    \E b \in Range(answer.blocks) :
                        b.role \in {"reference-entry", "acknowledgements"} /\ b.target # 0
              [] OTHER -> answer.status \in {"EXTRACTION_REFUSED", "NEEDS_TOPOLOGY_REVIEW",
                                             "NEEDS_UNIT_REVIEW"}

(* topology/confidence.py says of build_topology that it returns a valid    *)
(* source "or an explicit review stop".                                    *)
SourceOrReview == Answered("read") => result[1].status # "TopologyContractError"
-----------------------------------------------------------------------------
(* What there is to find in a document.                                    *)

Beyond(d, ids) == UNION {ToSet(Children(ObjectAt(d, id))) : id \in ids}

(* Paths of n references that repeat at most their last object.            *)
Paths(d, n) ==
    LET open(paths) == {p \in paths : Last(p) \notin ToSet(Front(p))}
        longer(p) == {Append(p, id) : id \in ToSet(Children(ObjectAt(d, Last(p))))}
    IN  FoldLeft(LAMBDA paths, k : UNION {longer(p) : p \in open(paths)}, {<<1>>},
                 [k \in 1 .. n |-> k])

ReachedWithin(d, n) ==
    FoldLeft(LAMBDA ids, k : ids \cup Beyond(d, ids), {1}, [k \in 1 .. n |-> k])

Reached(d) == ReachedWithin(d, Len(d.objects)) \ {0}

Mentions(d) == SumFunction([id \in Reached(d) |-> Len(Children(d.objects[id]))]) + 1

ValuesOf(o) == Len(SelectSeq(Children(o), LAMBDA id : id = 0))

(* The pages, in the order in which the document shows them.               *)
PagesInOrder(d, limits) ==
    LET Below[n \in 0 .. limits.max_recursion_depth, id \in DOMAIN d.objects] ==
            LET o == d.objects[id]
            IN  IF o.type = "Page" \/ n = 0 THEN <<id>>
                ELSE FlattenSeq([i \in DOMAIN o.kids |-> Below[n - 1, o.kids[i]]])
    IN  Below[limits.max_recursion_depth, d.tree]

(* Every node is a dictionary and the child of one other, the root of none. *)
TreeIsSound(d) ==
    LET kids(id) == Field(ObjectAt(d, id), "kids", <<>>)
        nodes == FoldLeft(LAMBDA ids, k : ids \cup UNION {ToSet(kids(id)) : id \in ids}, {d.tree},
                          [k \in DOMAIN d.objects |-> k])
        mentions(id) == SumFunction([n \in nodes |->
                            Len(SelectSeq(kids(n), LAMBDA k : k = id))])
        type(id) == Field(ObjectAt(d, id), "type", "none")
    IN  /\ \A id \in nodes : /\ IsDictionary(ObjectAt(d, id))
                             /\ mentions(id) = (IF id = d.tree THEN 0 ELSE 1)
                             /\ type(id) = "Page" \/ (type(id) = "Pages" /\ kids(id) # <<>>)
        /\ ObjectAt(d, d.tree).count = Cardinality({id \in nodes : type(id) = "Page"})

(* The attribute of the nearest node that has it, from the page upwards.   *)
Effective(d, id, key) ==
    LET above(n) == {m \in DOMAIN d.objects : n \in ToSet(Field(d.objects[m], "kids", <<>>))}
        up(n, k) == IF key \in DOMAIN d.objects[n].at \/ above(n) = {} THEN n
                    ELSE CHOOSE m \in above(n) : TRUE
        holder == FoldLeft(up, id, [k \in DOMAIN d.objects |-> k])
    IN  Field(d.objects[holder].at, key, <<>>)

(* The spaces that rest on a device, over any number of others.            *)
FoundedSpaces(spaces, aliases) ==
    LET rests(s, founded) ==
            LET v == spaces[s]
            IN  \/ v.family = "name" /\ v.name \in DOMAIN Device
                \/ /\ v.family = "name" /\ v.name \in DOMAIN aliases
                   /\ aliases[v.name] \in founded
                \/ v.family \notin {"name", "Pattern"} /\ ToSet(v.inner) \subseteq founded
    IN  FoldLeft(LAMBDA founded, k : {s \in DOMAIN spaces : rests(s, founded)}, {},
                 [k \in 1 .. Cardinality(DOMAIN spaces) |-> k])

LimitCode ==
    [file_bytes |-> "FILE_SIZE_LIMIT_EXCEEDED", page_count |-> "PAGE_COUNT_LIMIT_EXCEEDED",
     object_count |-> "OBJECT_COUNT_LIMIT_EXCEEDED",
     recursion_depth |-> "RECURSION_DEPTH_LIMIT_EXCEEDED",
     decompressed_stream_bytes |-> "DECOMPRESSED_STREAM_LIMIT_EXCEEDED",
     image_bytes |-> "IMAGE_BYTES_LIMIT_EXCEEDED"]

DecodedSize(o) ==
    CASE Unwrapped(o.filters) = <<"Fl">> -> o.flate.size
      [] Unwrapped(o.filters) = <<"RL">> -> 128 * o.length
      [] OTHER -> o.length

(* What all streams and the images drawn in line decode to.                *)
DecodedIn(d) ==
    LET streams == {id \in Reached(d) : d.objects[id].kind = "stream"}
        contents == {i \in DOMAIN d.drawn : d.objects[d.drawn[i]].kind = "stream"}
        images(i) == Len(SelectSeq(d.objects[d.drawn[i]].tokens, LAMBDA t : t = "image"))
        inlined == IF d.inline.filters \in {<<"Fl">>, <<"RL">>} THEN d.inline.decoded ELSE 0
    IN  SumFunction([i \in contents |-> images(i) * inlined])
            + SumFunction([id \in streams |-> DecodedSize(d.objects[id])])

(* Everything that can be reached was counted, whatever refers to it and   *)
(* however often, and what the walk measured is what there is.             *)
EverythingCounted(d, report) ==
    LET reached == Reached(d)
        streams == {id \in reached : d.objects[id].kind = "stream"}
        images == {id \in streams : "image" \in DOMAIN d.objects[id]}
        active(k) == {id \in reached : k \in {Field(d.objects[id], "action", "none"),
                                             Field(d.objects[id], "subtype", "none")}}
    IN  /\ report.observed.object_count =
               Cardinality(reached) + SumFunction([id \in reached |-> ValuesOf(d.objects[id])])
        /\ report.observed.decompressed_stream_bytes = DecodedIn(d)
        /\ \A id \in images :
               d.objects[id].image.mask
                   \/ d.objects[id].image.space \in FoundedSpaces(d.spaces, <<>>)
        /\ \A k \in Actions : report.inventory[k] = Cardinality(active(k))

(* A file that passes is what later stages take it for: a tree of pages,   *)
(* all of them in their order and with the boxes they inherit, and a graph *)
(* of objects within all limits, cycles and shared objects or not.  A file *)
(* is refused for a limit only if a path, or the references, do exceed it, *)
(* as a broken tree only if it is one; and the report says that a limit    *)
(* was exceeded if and only if the number it gives is above the maximum.   *)
PreflightIsSound ==
    Answered("inspect") =>
        LET d == input.document
            limits == input.limits
            report == result[1]
            pages == PagesInOrder(d, limits)
        IN  /\ \A k \in DOMAIN LimitCode :
                   LimitCode[k] \in report.errors <=> report.observed[k] > Maximum(limits)[k]
            /\ "PDF_PAGE_TREE_INVALID" \in report.errors => ~TreeIsSound(d)
            /\ "OBJECT_COUNT_LIMIT_EXCEEDED" \in report.errors => Mentions(d) > limits.max_objects
            /\ "RECURSION_DEPTH_LIMIT_EXCEEDED" \in report.errors =>
                   Paths(d, limits.max_recursion_depth + 1) # {}
            /\ "PAGE_COUNT_LIMIT_EXCEEDED" \in report.errors =>
                   limits.max_pages < Max({ObjectAt(d, d.tree).count,
                       Cardinality({id \in Reached(d) :
                                       Field(d.objects[id], "type", "none") = "Page"})})
            /\ "DECOMPRESSED_STREAM_LIMIT_EXCEEDED" \in report.errors =>
                   DecodedIn(d) > limits.max_decoded_stream_bytes
            /\ report.passed =>
                   /\ TreeIsSound(d)
                   /\ EverythingCounted(d, report)
                   /\ {id \in Reached(d) : Children(d.objects[id]) # <<>>}
                          \subseteq ReachedWithin(d, limits.max_recursion_depth - 1)
                   /\ report.observed.page_count = Len(report.pages)
                   /\ \A id \in ToSet(pages) : Effective(d, id, "MediaBox") # <<>>
                   /\ report.pages = [i \in DOMAIN pages |->
                         PageBoxFacts([at |->
                             [MediaBox |-> Effective(d, pages[i], "MediaBox"),
                              Rotate |-> LET r == Effective(d, pages[i], "Rotate")
                                         IN IF r = <<>> THEN <<0>> ELSE r,
                              CropBox |-> LET c == Effective(d, pages[i], "CropBox")
                                          IN IF c = <<>> THEN Effective(d, pages[i], "MediaBox")
                                             ELSE c]])]
=============================================================================
