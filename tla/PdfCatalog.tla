----------------------------- MODULE PdfCatalog ------------------------------
(***************************************************************************)
(* preflight/pdf_catalog.py: a walk over every object of a PDF that can be *)
(* reached from its trailer, with bounds on the objects, the depth, the    *)
(* decoded bytes and the samples of images, and then over the contents of  *)
(* the pages, for the images that are drawn in line.                       *)
(*                                                                         *)
(* A document d has d.objects, of which the first is the trailer.  An      *)
(* object has a kind, "dictionary", "stream", "array", or "value"; a       *)
(* reference to one that is "unreadable" or "null" cannot be followed.     *)
(* o.items are the objects it refers to, 0 standing for a direct value     *)
(* that refers to nothing; o.parent is its entry /Parent.  Other fields    *)
(* are there when the object has them: action, subtype, image, type, kids. *)
(* d.spaces are the colour spaces.  Facts are what the walk has found.     *)
(***************************************************************************)
EXTENDS PageGeometry

CONSTANTS
    MaxReported,    \* _MAX_REPORTED_BYTES, at which sizes saturate
    MaxNesting,     \* how deep a colour space may be nested
    MaxOperands     \* how many operands an operator of a page may have

-----------------------------------------------------------------------------
(* Facts.                                                                  *)

Actions == {"JavaScript", "Launch", "SubmitForm"}
Subtypes == {"RichMedia", "FileAttachment"}
InventoryKeys == Actions \cup Subtypes \cup {"OpenAction", "Form"}

NoFacts ==
    [objects |-> 0, depth |-> 0, decoded |-> 0, image |-> 0, errors |-> <<>>,
     inventory |-> [k \in InventoryKeys |-> 0]]

Reject(facts, code) ==
    IF code \in ToSet(facts.errors) THEN facts ELSE [facts EXCEPT !.errors = Append(@, code)]

RejectIf(condition, facts, code) == IF condition THEN Reject(facts, code) ELSE facts

ObjectAt(d, id) == IF id = 0 THEN [kind |-> "value", items |-> <<>>] ELSE d.objects[id]
Field(o, name, absent) == IF name \in DOMAIN o THEN o[name] ELSE absent
IsDictionary(o) == o.kind \in {"dictionary", "stream"}
Children(o) == o.items \o Field(o, "parent", <<>>)

-----------------------------------------------------------------------------
(* Streams: o.filters, o.encoded, o.length without an ASCII filter, and    *)
(* what the Flate decoder makes of it, o.flate.                            *)

AsciiFilters == {"A85", "AHx"}
TerminalFilters == {"CCF", "DCT", "JPX"}
KnownFilters == AsciiFilters \cup TerminalFilters \cup {"Fl", "RL"}

(* The first filter that is not known decides.                             *)
FilterError(filters) ==
    LET unknown == SelectSeq(filters, LAMBDA f : f \notin KnownFilters)
    IN  CASE unknown = <<>> -> "none"
          [] unknown # <<>> /\ unknown[1] = "malformed" -> "MALFORMED_PDF_FILTER"
          [] unknown # <<>> /\ unknown[1] = "JBIG2" -> "UNSUPPORTED_JBIG2"
          [] OTHER -> "UNSUPPORTED_PDF_FILTER"

(* The filters that are left once the ASCII filter in front is undone.     *)
Unwrapped(filters) ==
    IF filters # <<>> /\ filters[1] \in AsciiFilters THEN Tail(filters) ELSE filters

(* Decoding stops one byte after the maximum.                              *)
BoundedFlateSize(flate, maximum) ==
    CASE flate.size > maximum -> [size |-> maximum + 1, complete |-> TRUE]
      [] flate.size <= maximum /\ flate.end = "error" -> [size |-> 0, complete |-> FALSE]
      [] OTHER -> [size |-> flate.size, complete |-> flate.end = "complete"]

(* The decoded size, or an upper bound, or the error.                      *)
StreamSize(o, remaining) ==
    LET rest == Unwrapped(o.filters)
        flate == BoundedFlateSize(o.flate, Max({0, remaining}))
        sized(n) == [size |-> n, error |-> "none"]
        refused(code) == [size |-> 0, error |-> code]
    IN  CASE o.encoded = "malformed" -> refused("MALFORMED_PDF_STREAM")
          [] o.encoded = "good" /\ rest = <<>> -> sized(o.length)
          [] o.encoded = "good" /\ rest = <<"Fl">> ->
                 IF ~flate.complete /\ flate.size <= remaining
                 THEN refused("MALFORMED_PDF_STREAM") ELSE sized(flate.size)
          [] o.encoded = "good" /\ rest \in {<<f>> : f \in TerminalFilters} -> sized(o.length)
          [] o.encoded = "good" /\ rest = <<"RL">> -> sized(Min({MaxReported, o.length * 128}))
          [] OTHER -> refused("UNSUPPORTED_PDF_FILTER")

(* What is decoded after the limit was passed is not counted any more.     *)
AddStream(facts, o, limits) ==
    LET limit == limits.max_decoded_stream_bytes
        size == StreamSize(o, limit - facts.decoded)
        total == facts.decoded + size.size
    IN  CASE facts.decoded > limit -> facts
          [] facts.decoded <= limit /\ size.error # "none" -> Reject(facts, size.error)
          [] facts.decoded <= limit /\ size.error = "none" /\ total > limit ->
                 Reject([facts EXCEPT !.decoded = limit + 1],
                        "DECOMPRESSED_STREAM_LIMIT_EXCEEDED")
          [] OTHER -> [facts EXCEPT !.decoded = total]

-----------------------------------------------------------------------------
(* Colour spaces: a name, or an array with a family and its members.       *)

Device == [DeviceGray |-> 1, DeviceRGB |-> 3, DeviceCMYK |-> 4]

(* How many components the colour space v has; 0 if it is not acceptable.  *)
(* v.sound says that the array has the length and the plain members that   *)
(* its family asks for, v.inner is the space it is based on, v.count the   *)
(* number of names or components that it declares.                         *)
ColorComponents(spaces, aliases, first) ==
    LET CountOf[depth \in 0 .. MaxNesting + 1, s \in DOMAIN spaces,
                   seen \in SUBSET (DOMAIN spaces \cup DOMAIN aliases)] ==
            LET v == spaces[s]
                base == CountOf[depth + 1, v.inner[1], seen \cup {s}]
            IN  CASE depth > MaxNesting -> 0
                  [] depth <= MaxNesting /\ v.family = "name" ->
                       CASE v.name \in DOMAIN Device -> Device[v.name]
                         [] v.name \in DOMAIN aliases \ seen ->
                                CountOf[depth + 1, aliases[v.name], seen \cup {v.name}]
                         [] OTHER -> 0
                  [] depth <= MaxNesting /\ v.family # "name" ->
                       CASE s \in seen \/ ~v.sound -> 0
                         [] s \notin seen /\ v.sound /\ v.family \in DOMAIN Device ->
                                Device[v.family]
                         [] s \notin seen /\ v.sound /\ v.family = "CalGray" -> 1
                         [] s \notin seen /\ v.sound /\ v.family \in {"CalRGB", "Lab"} -> 3
                         [] s \notin seen /\ v.sound /\ v.family \in {"Indexed", "Separation"} ->
                                IF base = 0 THEN 0 ELSE 1
                         [] s \notin seen /\ v.sound /\ v.family = "DeviceN" ->
                                IF base = 0 THEN 0 ELSE v.count
                         [] s \notin seen /\ v.sound /\ v.family = "ICCBased" ->
                                IF v.count \in {1, 3, 4} /\ (v.inner = <<>> \/ base = v.count)
                                THEN v.count ELSE 0
                         [] OTHER -> 0
    IN  CountOf[0, first, {}]

-----------------------------------------------------------------------------
(* Images.                                                                 *)

BitDepths == {1, 2, 4, 8, 16}

(* Rows are padded to whole bytes; what cannot be reported saturates.      *)
ScanlineImageBytes(width, height, bits, components) ==
    LET row == (width * bits * components + 7) \div 8
    IN  IF width > ((MaxReported * 8) \div bits) \div components \/ row > MaxReported \div height
        THEN MaxReported ELSE row * height

Samples(d, image, aliases) ==
    CASE image.mask -> [bits |-> 1, components |-> 1]
      [] ~image.mask /\ image.bits \in BitDepths ->
             [bits |-> image.bits,
              components |-> ColorComponents(d.spaces, aliases, image.space)]
      [] OTHER -> [bits |-> 0, components |-> 0]

(* A width, a height or a depth that is no positive integer is 0.          *)
ImageErrors(facts, image, samples) ==
    LET measures == RejectIf(0 \in {image.width, image.height, samples.bits}, facts,
                             "MALFORMED_IMAGE")
    IN  RejectIf(samples.bits # 0 /\ samples.components = 0, measures, "MALFORMED_COLOR_SPACE")

AddImageBytes(facts, size, limits) ==
    LET total == Min({MaxReported, facts.image + size})
    IN  RejectIf(total > limits.max_image_bytes, [facts EXCEPT !.image = total],
                 "IMAGE_BYTES_LIMIT_EXCEEDED")

MeasuresAreSound(image, samples) ==
    0 \notin {image.width, image.height, samples.bits, samples.components}

AddImage(facts, d, image, aliases, limits) ==
    LET samples == Samples(d, image, aliases)
    IN  IF MeasuresAreSound(image, samples)
        THEN AddImageBytes(facts, ScanlineImageBytes(image.width, image.height, samples.bits,
                                                     samples.components), limits)
        ELSE ImageErrors(facts, image, samples)

-----------------------------------------------------------------------------
(* The walk: a stack of objects with their depths.                         *)

CountInventory(facts, o) ==
    LET counted == {Field(o, "action", "none"), Field(o, "subtype", "none")}
                       \cap (Actions \cup Subtypes)
    IN  [facts EXCEPT !.inventory =
            [k \in InventoryKeys |-> IF k \in counted THEN @[k] + 1 ELSE @[k]]]

(* The entries of the catalog itself: an action, a form with its fields,   *)
(* and files, of which two entries make one.                               *)
RootInventory(root) ==
    [k \in InventoryKeys |->
        CASE k = "OpenAction" -> IF "open" \in DOMAIN root THEN 1 ELSE 0
          [] k = "Form" -> IF "fields" \in DOMAIN root THEN Max({1, root.fields}) ELSE 0
          [] k = "FileAttachment" ->
                 IF "embedded" \notin DOMAIN root THEN 0
                 ELSE IF root.embedded = <<>> THEN 1 ELSE root.embedded[1] \div 2
          [] OTHER -> 0]

(* One object that is seen for the first time.                             *)
InspectStream(facts, d, o, limits) ==
    LET filter == FilterError(o.filters)
        filtered == RejectIf(filter # "none", facts, filter)
        drawn == IF "image" \in DOMAIN o THEN AddImage(filtered, d, o.image, <<>>, limits)
                 ELSE filtered
    IN  IF filter = "none" THEN AddStream(drawn, o, limits) ELSE drawn

InspectObject(facts, d, o, limits) ==
    CASE o.kind \in {"unreadable", "null"} -> Reject(facts, "PDF_OBJECT_RESOLUTION_ERROR")
      [] o.kind = "dictionary" -> CountInventory(facts, o)
      [] o.kind = "stream" -> InspectStream(CountInventory(facts, o), d, o, limits)
      [] OTHER -> facts

TooMany(walk, limits) ==
    [walk EXCEPT !.stack = <<>>,
                 !.facts = Reject([@ EXCEPT !.objects = limits.max_objects + 1],
                                  "OBJECT_COUNT_LIMIT_EXCEEDED")]

(* The children are visited in their order; all that wait count as objects. *)
PushChildren(walk, o, depth, limits) ==
    LET children == Children(o)
    IN  CASE ~(IsDictionary(o) \/ o.kind = "array") -> walk
          [] (IsDictionary(o) \/ o.kind = "array")
             /\ walk.facts.objects + Len(walk.stack) + Len(children) > limits.max_objects ->
                 TooMany(walk, limits)
          [] OTHER ->
                 [walk EXCEPT !.stack =
                     @ \o Reverse([i \in DOMAIN children |-> <<children[i], depth + 1>>])]

Visit(walk, d, limits) ==
    LET id == Last(walk.stack)[1]
        depth == Last(walk.stack)[2]
        o == ObjectAt(d, id)
        popped == [walk EXCEPT !.stack = Front(@), !.facts.depth = Max({@, depth})]
        seen == [popped EXCEPT !.seen = @ \cup ({id} \ {0}), !.facts.objects = @ + 1]
    IN  CASE depth > limits.max_recursion_depth ->
               [popped EXCEPT !.facts = Reject([@ EXCEPT !.depth = limits.max_recursion_depth + 1],
                                               "RECURSION_DEPTH_LIMIT_EXCEEDED")]
          [] depth <= limits.max_recursion_depth /\ id \in walk.seen -> popped
          [] depth <= limits.max_recursion_depth /\ id \notin walk.seen
             /\ seen.facts.objects > limits.max_objects -> TooMany(seen, limits)
          [] OTHER -> PushChildren([seen EXCEPT !.facts = InspectObject(@, d, o, limits)],
                                   o, depth, limits)

(* Every object is expanded once, so the walk ends.                        *)
WalkBound(d) ==
    1 + FoldLeft(LAMBDA n, o : n + Len(Children(o)), 0, d.objects)

WalkObjects(d, limits) ==
    LET start == [stack |-> <<<<1, 0>>>>, seen |-> {},
                  facts |-> [NoFacts EXCEPT !.inventory = RootInventory(ObjectAt(d, d.root))]]
        step(walk, k) == IF walk.stack = <<>> THEN walk ELSE Visit(walk, d, limits)
    IN  FoldLeft(step, start, [k \in 1 .. WalkBound(d) |-> k]).facts

-----------------------------------------------------------------------------
(* The contents of a page, after a walk without errors: page.contents are  *)
(* its streams, and o.tokens is what a stream says: "operand", "operator", *)
(* "comment", "broken", or "image", which draws d.inline.  The resources   *)
(* of a page, which it may inherit, name colour spaces.                    *)

(* Painting may use a pattern, which the samples of an image may not.      *)
SpaceIsValid(d, aliases, s) ==
    LET v == d.spaces[s]
    IN  IF v.family # "Pattern" THEN ColorComponents(d.spaces, aliases, s) # 0
        ELSE v.sound /\ (v.inner = <<>> \/ ColorComponents(d.spaces, aliases, v.inner[1]) # 0)

SpacesOf(page) == Field(page.at, "Resources", <<>>)

InlineAliases(facts, d, page) ==
    LET aliases == SpacesOf(page)
    IN  RejectIf(\E n \in DOMAIN aliases : ~SpaceIsValid(d, aliases, aliases[n]), facts,
                 "MALFORMED_COLOR_SPACE")

ContentStreams(facts, d, page) ==
    RejectIf(\E i \in DOMAIN page.contents : ObjectAt(d, page.contents[i]).kind # "stream", facts,
             "MALFORMED_PDF_STREAM")

(* Contents are decoded again, up to the limit for all streams together.   *)
DecodedContent(facts, o, limits) ==
    LET rest == Unwrapped(o.filters)
        flate == BoundedFlateSize(o.flate, limits.max_decoded_stream_bytes)
    IN  CASE FilterError(o.filters) # "none" -> Reject(facts, FilterError(o.filters))
          [] FilterError(o.filters) = "none" /\ o.encoded = "malformed" ->
                 Reject(facts, "MALFORMED_PDF_STREAM")
          [] FilterError(o.filters) = "none" /\ o.encoded = "good" /\ rest = <<>> -> facts
          [] FilterError(o.filters) = "none" /\ o.encoded = "good" /\ rest = <<"Fl">> ->
                 CASE flate.size > limits.max_decoded_stream_bytes ->
                        Reject(facts, "DECOMPRESSED_STREAM_LIMIT_EXCEEDED")
                   [] OTHER -> RejectIf(~flate.complete, facts, "MALFORMED_PDF_STREAM")
          [] OTHER -> Reject(facts, "UNSUPPORTED_PDF_FILTER")

AddInlineDecodedBytes(facts, amount, limits) ==
    LET limit == limits.max_decoded_stream_bytes
    IN  IF amount > limit - facts.decoded
        THEN Reject([facts EXCEPT !.decoded = limit + 1], "DECOMPRESSED_STREAM_LIMIT_EXCEEDED")
        ELSE [facts EXCEPT !.decoded = @ + amount]

(* image.ends: the payload has its own end, and the end of the image       *)
(* follows; image.decoded: how much it decodes to.                         *)
SkipFilteredInlinePayload(facts, image, limits) ==
    LET filters == image.filters
        decodes == filters \in {<<"Fl">>, <<"RL">>}
        added == IF decodes THEN AddInlineDecodedBytes(facts, image.decoded, limits) ELSE facts
    IN  IF Len(filters) # 1 \/ filters \in {<<"JPX">>, <<"CCF">>}
        THEN Reject(facts, "UNSUPPORTED_PDF_FILTER")
        ELSE RejectIf(~image.ends /\ added.errors = <<>>, added, "MALFORMED_IMAGE")

InspectInlineImage(facts, d, image, aliases, limits) ==
    LET filter == FilterError(image.filters)
        filtered == RejectIf(filter # "none", facts, filter)
        samples == Samples(d, image, aliases)
        measured == AddImage(facts, d, image, aliases, limits)
    IN  CASE ~image.readable -> Reject(facts, "MALFORMED_IMAGE")
          [] image.readable /\ (filter # "none" \/ ~MeasuresAreSound(image, samples)) ->
                 ImageErrors(filtered, image, samples)
          [] OTHER -> IF image.filters = <<>>
                      THEN RejectIf(~image.ends, measured, "MALFORMED_IMAGE")
                      ELSE SkipFilteredInlinePayload(measured, image, limits)

(* An image takes no operands, and nothing is read after the first error.  *)
ScanToken(scan, d, token, aliases, limits) ==
    CASE scan.facts.errors # <<>> \/ token = "comment" -> scan
      [] scan.facts.errors = <<>> /\ token = "operand" /\ scan.operands < MaxOperands ->
             [scan EXCEPT !.operands = @ + 1]
      [] scan.facts.errors = <<>> /\ token = "operator" -> [scan EXCEPT !.operands = 0]
      [] scan.facts.errors = <<>> /\ token = "image" /\ scan.operands = 0 ->
             [scan EXCEPT !.facts = InspectInlineImage(@, d, d.inline, aliases, limits)]
      [] OTHER -> [scan EXCEPT !.facts = Reject(@, "MALFORMED_PDF_STREAM")]

ScanPageInlineImages(facts, d, page, limits) ==
    LET opened == ContentStreams(InlineAliases(facts, d, page), d, page)
        streams == [i \in DOMAIN page.contents |-> ObjectAt(d, page.contents[i])]
        decode(found, o) == IF found.errors = <<>> THEN DecodedContent(found, o, limits) ELSE found
        tokens == FlattenSeq([i \in DOMAIN streams |-> streams[i].tokens])
        decoded == FoldLeft(decode, opened, streams)
        scan(found, token) == ScanToken(found, d, token, SpacesOf(page), limits)
    IN  CASE opened.errors # <<>> -> opened
          [] opened.errors = <<>> /\ decoded.errors # <<>> -> decoded
          [] OTHER -> FoldLeft(scan, [facts |-> decoded, operands |-> 0], tokens).facts

InspectCatalog(d, pages, limits) ==
    LET scanned(facts, page) ==
            IF facts.errors = <<>> THEN ScanPageInlineImages(facts, d, page, limits) ELSE facts
    IN  FoldLeft(scanned, WalkObjects(d, limits), pages)
=============================================================================
