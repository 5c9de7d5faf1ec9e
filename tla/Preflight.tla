------------------------------ MODULE Preflight -------------------------------
(***************************************************************************)
(* preflight/checks.py and page_boxes.py: what a PDF must be like before   *)
(* anything else reads it.  The first failing step ends the inspection:    *)
(* the file, its syntax, the tree of its pages, its objects, and at last   *)
(* the boxes and the text of all pages.                                    *)
(*                                                                         *)
(* Besides its objects a document has d.path, d.bytes, d.syntax,           *)
(* d.encrypted, d.root and d.tree, its catalog and the root of its pages.  *)
(* An object of the tree has a type, "Pages" with a count and kids, or     *)
(* "Page"; o.at are its attributes.  A page has a text and a user unit.    *)
(***************************************************************************)
EXTENDS PdfCatalog

-----------------------------------------------------------------------------
(* Boxes: <<>> is what does not consist of numbers; lengths are in half    *)
(* thousandths of a point, to show the rounding.                           *)

PageBoxKeys == <<"CropBox", "BleedBox", "TrimBox", "ArtBox">>

Thousandths(v) == IF v >= 0 THEN (v + 1) \div 2 ELSE -((1 - v) \div 2)

RoundedBox(box) == [i \in DOMAIN box |-> Thousandths(box[i])]

HasArea(box) == Len(box) = 4 /\ Left(box) < Right(box) /\ Base(box) < Top(box)

BoxError(page, key) ==
    LET box == RoundedBox(page.at[key])
    IN  CASE ~HasArea(box) -> "INVALID_PAGE_BOX"
          [] HasArea(box) /\ ~Within(box, RoundedBox(page.at.MediaBox)) -> "PAGE_BOX_OUTSIDE_MEDIA"
          [] OTHER -> "none"

RotationError(rotate) ==
    CASE rotate = <<>> -> "INVALID_PAGE_BOX"
      [] rotate # <<>> /\ rotate[1] % 90 # 0 -> "INVALID_PAGE_ROTATION"
      [] OTHER -> "none"

(* The first of several errors is reported.                                *)
BoxErrors(page) ==
    LET unit == CASE page.unit = "malformed" -> "INVALID_PAGE_BOX"
                  [] page.unit = "other" -> "UNSUPPORTED_USER_UNIT"
                  [] OTHER -> "none"
        media == IF "MediaBox" \in DOMAIN page.at THEN BoxError(page, "MediaBox")
                 ELSE "INVALID_PAGE_BOX"
        boxes == SelectSeq(PageBoxKeys, LAMBDA k : k \in DOMAIN page.at)
        others == IF media = "none" THEN [i \in DOMAIN boxes |-> BoxError(page, boxes[i])] ELSE <<>>
    IN  SelectSeq(<<unit, media>> \o others \o <<RotationError(Field(page.at, "Rotate", <<0>>))>>,
                  LAMBDA e : e # "none")

PageBoxFacts(page) ==
    LET crop == RoundedBox(Field(page.at, "CropBox", page.at.MediaBox))
        rotation == Field(page.at, "Rotate", <<0>>)[1] % 360
        width == Right(crop) - Left(crop)
        height == Top(crop) - Base(crop)
        turned == rotation \in {90, 270}
    IN  [rotation |-> rotation, width |-> IF turned THEN height ELSE width,
         height |-> IF turned THEN width ELSE height]

-----------------------------------------------------------------------------
(* The tree of the pages, walked with a stack of objects, their depths and *)
(* the attributes they inherit.                                            *)

InheritableKeys == {"Resources", "MediaBox", "CropBox", "Rotate"}

TreeStops(tree, code, pages, nodes, depth) ==
    [tree EXCEPT !.stack = <<>>, !.error = code,
                 !.observed = [pages |-> pages, nodes |-> nodes, depth |-> depth]]

TreeIsInvalid(tree) == TreeStops(tree, "PDF_PAGE_TREE_INVALID", 0, 0, 0)

(* A bug: what is inherited covers what the page itself says.              *)
CollectPageCovered(tree, id, o, inherited, limits) ==
    LET page == [o EXCEPT !.at = inherited @@ @]
        pages == Append(tree.pages, page @@ [id |-> id])
    IN  IF Len(pages) > limits.max_pages
        THEN TreeStops(tree, "PAGE_COUNT_LIMIT_EXCEEDED", limits.max_pages + 1, tree.nodes,
                       tree.depth)
        ELSE [tree EXCEPT !.pages = pages]

(* A page is a copy of its object, with what it inherits.                  *)
CollectPage(tree, id, o, inherited, limits) ==
    LET page == [o EXCEPT !.at = @ @@ inherited]
        pages == Append(tree.pages, page @@ [id |-> id])
    IN  IF Len(pages) > limits.max_pages
        THEN TreeStops(tree, "PAGE_COUNT_LIMIT_EXCEEDED", limits.max_pages + 1, tree.nodes,
                       tree.depth)
        ELSE [tree EXCEPT !.pages = pages]

ExpandNode(tree, o, depth, inherited, limits) ==
    LET kept == InheritableKeys \cap DOMAIN o.at
        passed == [k \in kept |-> o.at[k]] @@ inherited
        children == [i \in DOMAIN o.kids |-> <<o.kids[i], depth + 1, passed>>]
    IN  CASE o.kids = <<>> -> TreeIsInvalid(tree)
          [] o.kids # <<>> /\ tree.nodes + Len(tree.stack) + Len(o.kids) > limits.max_objects ->
                 TreeStops(tree, "OBJECT_COUNT_LIMIT_EXCEEDED", Len(tree.pages),
                           limits.max_objects + 1, tree.depth)
          [] OTHER -> [tree EXCEPT !.stack = @ \o Reverse(children)]

VisitNode(tree, d, limits) ==
    LET id == Last(tree.stack)[1]
        depth == Last(tree.stack)[2]
        inherited == Last(tree.stack)[3]
        o == ObjectAt(d, id)
        popped == [tree EXCEPT !.stack = Front(@), !.depth = Max({@, depth})]
        seen == [popped EXCEPT !.seen = @ \cup {id}, !.nodes = @ + 1]
        type == Field(o, "type", "none")
    IN  CASE depth > limits.max_recursion_depth ->
               TreeStops(popped, "RECURSION_DEPTH_LIMIT_EXCEEDED", Len(tree.pages), tree.nodes,
                         limits.max_recursion_depth + 1)
          [] depth <= limits.max_recursion_depth /\ (id \in tree.seen \/ ~IsDictionary(o)) ->
               TreeIsInvalid(popped)
          [] depth <= limits.max_recursion_depth /\ id \notin tree.seen /\ IsDictionary(o) ->
               CASE seen.nodes > limits.max_objects ->
                      TreeStops(seen, "OBJECT_COUNT_LIMIT_EXCEEDED", Len(tree.pages),
                                limits.max_objects + 1, seen.depth)
                 [] seen.nodes <= limits.max_objects /\ type = "Page" ->
                      CollectPage(seen, id, o, inherited, limits)
                 [] seen.nodes <= limits.max_objects /\ type = "Pages" ->
                      ExpandNode(seen, o, depth, inherited, limits)
                 [] OTHER -> TreeIsInvalid(seen)

(* No node is expanded twice, so the walk ends.                            *)
TreeBound(d) == 1 + FoldLeft(LAMBDA n, o : n + Len(Field(o, "kids", <<>>)), 0, d.objects)

(* A count that is malformed or not positive is 0.                         *)
ControlledPageTree(d, limits) ==
    LET root == ObjectAt(d, d.tree)
        declared == Field(root, "count", 0)
        start == [stack |-> <<<<d.tree, 0, <<>>>>>>, seen |-> {}, pages |-> <<>>, nodes |-> 0,
                  depth |-> 0, error |-> "none", observed |-> [pages |-> 0, nodes |-> 0, depth |-> 0]]
        step(tree, k) == IF tree.stack = <<>> THEN tree ELSE VisitNode(tree, d, limits)
        walked == FoldLeft(step, start, [k \in 1 .. TreeBound(d) |-> k])
    IN  CASE ~IsDictionary(ObjectAt(d, d.root)) \/ ~IsDictionary(root) \/ declared = 0 ->
               TreeIsInvalid(start)
          [] IsDictionary(ObjectAt(d, d.root)) /\ IsDictionary(root)
             /\ declared > limits.max_pages ->
               TreeStops(start, "PAGE_COUNT_LIMIT_EXCEEDED", declared, 0, 0)
          [] IsDictionary(ObjectAt(d, d.root)) /\ IsDictionary(root)
             /\ declared \in 1 .. limits.max_pages /\ walked.error = "none"
             /\ declared # Len(walked.pages) ->
               TreeStops(walked, "PDF_PAGE_TREE_INVALID", Len(walked.pages), walked.nodes,
                         walked.depth)
          [] OTHER -> walked

-----------------------------------------------------------------------------
(* The boxes and the text of all pages.                                    *)

(* Decoded streams that extraction has left in memory are dropped again;   *)
(* that walk is bounded, too.                                              *)
ClearPageCaches(d, page, limits) ==
    LET push(walk, items) ==
            IF walk.visited + Len(walk.stack) + Len(items) > limits.max_objects
            THEN [walk EXCEPT !.stack = <<>>, !.cleared = FALSE]
            ELSE [walk EXCEPT !.stack = @ \o Reverse(items)]
        visit(walk, k) ==
            LET id == Last(walk.stack)
                popped == [walk EXCEPT !.stack = Front(@)]
                seen == [popped EXCEPT !.seen = @ \cup ({id} \ {0}), !.visited = @ + 1]
            IN  CASE walk.stack = <<>> -> walk
                  [] walk.stack # <<>> /\ id \in walk.seen -> popped
                  [] walk.stack # <<>> /\ id \notin walk.seen
                     /\ seen.visited > limits.max_objects ->
                         [seen EXCEPT !.stack = <<>>, !.cleared = FALSE]
                  [] OTHER -> push(seen, ObjectAt(d, id).items)
        start == push([stack |-> <<>>, seen |-> {}, visited |-> 1, cleared |-> TRUE], page.items)
    IN  FoldLeft(visit, start, [k \in 1 .. WalkBound(d) + Len(page.items) |-> k]).cleared

InspectPages(d, pages, limits) ==
    LET flawed == SelectSeq(pages, LAMBDA p : BoxErrors(p) # <<>>)
        geometry == {Head(BoxErrors(flawed[i])) : i \in DOMAIN flawed}
        sound == SelectSeq(pages, LAMBDA p : BoxErrors(p) = <<>>)
        facts == [i \in DOMAIN sound |-> PageBoxFacts(sound[i])]
        unreadable == \E i \in DOMAIN sound :
                          ~sound[i].text.readable \/ ~ClearPageCaches(d, sound[i], limits)
        texts == SelectSeq(sound, LAMBDA p : p.text.readable)
        characters == FoldLeft(LAMBDA n, p : n + p.text.characters, 0, texts)
        english == FoldLeft(LAMBDA n, p : n + p.text.english, 0, texts)
        letters == FoldLeft(LAMBDA n, p : n + p.text.letters, 0, texts)
        ratio == IF letters = 0 THEN 0 ELSE (english * 1000000) \div letters
        rotated == IF Cardinality({facts[i].rotation : i \in DOMAIN facts}) > 1
                   THEN {"INCONSISTENT_PAGE_ROTATION"} ELSE {}
        text == CASE unreadable -> {"TEXT_EXTRACTION_ERROR"}
                  [] ~unreadable /\ characters < limits.min_characters * Len(pages) ->
                         {"TEXT_LAYER_INSUFFICIENT"}
                  [] ~unreadable /\ characters >= limits.min_characters * Len(pages)
                     /\ (english < limits.min_english * Len(pages) \/ ratio < limits.min_ratio) ->
                         {"ENGLISH_TEXT_INSUFFICIENT"}
                  [] OTHER -> {}
    IN  [pages |-> facts,
         errors |-> IF geometry # {} THEN geometry \cup rotated ELSE rotated \cup text]

-----------------------------------------------------------------------------
(* The report.                                                             *)

Maximum(limits) ==
    [file_bytes |-> limits.max_file_bytes, page_count |-> limits.max_pages,
     object_count |-> limits.max_objects, recursion_depth |-> limits.max_recursion_depth,
     decompressed_stream_bytes |-> limits.max_decoded_stream_bytes,
     image_bytes |-> limits.max_image_bytes]

Report(errors, pages, observed, inventory) ==
    [passed |-> errors = {}, errors |-> errors, pages |-> pages, observed |-> observed,
     inventory |-> inventory]

NothingObserved ==
    [file_bytes |-> 0, page_count |-> 0, object_count |-> 0, recursion_depth |-> 0,
     decompressed_stream_bytes |-> 0, image_bytes |-> 0]

Refused(code, observed) == Report({code}, <<>>, observed, NoFacts.inventory)

PreflightSafeCopy(d, limits) ==
    LET read == [NothingObserved EXCEPT !.file_bytes = d.bytes]
        tree == ControlledPageTree(d, limits)
        broken == [read EXCEPT !.page_count = tree.observed.pages,
                               !.object_count = tree.observed.nodes,
                               !.recursion_depth = tree.observed.depth]
        catalog == InspectCatalog(d, tree.pages, limits)
        walked == [read EXCEPT !.page_count = Len(tree.pages), !.object_count = catalog.objects,
                               !.recursion_depth = catalog.depth,
                               !.decompressed_stream_bytes = catalog.decoded,
                               !.image_bytes = catalog.image]
        inspected == InspectPages(d, tree.pages, limits)
    IN  CASE d.path # "regular" -> Refused("INVALID_SAFE_COPY_PATH", NothingObserved)
          [] d.path = "regular" /\ d.bytes > limits.max_file_bytes ->
                 Refused("FILE_SIZE_LIMIT_EXCEEDED", read)
          [] d.path = "regular" /\ d.bytes <= limits.max_file_bytes /\ d.syntax # "pdf" ->
                 Refused("PDF_PARSE_ERROR", read)
          [] d.path = "regular" /\ d.bytes <= limits.max_file_bytes /\ d.syntax = "pdf" ->
                 CASE d.encrypted -> Refused("PDF_ENCRYPTED", read)
                   [] ~d.encrypted /\ tree.error # "none" -> Refused(tree.error, broken)
                   [] ~d.encrypted /\ tree.error = "none" /\ catalog.errors # <<>> ->
                          Report(ToSet(catalog.errors), <<>>, walked, catalog.inventory)
                   [] OTHER ->
                          Report(inspected.errors, inspected.pages, walked, catalog.inventory)
=============================================================================
