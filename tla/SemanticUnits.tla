---------------------------- MODULE SemanticUnits ----------------------------
(***************************************************************************)
(* The units that are translated: extraction/unit_merge.py, and the audit  *)
(* of unit_mapping.py over what it made.  A paragraph that is broken by a  *)
(* column, a page or a floating caption is put together again when its     *)
(* text shows that it goes on, and the document is refused for a review    *)
(* when that cannot be told.                                               *)
(***************************************************************************)
EXTENDS PageTopology

Captions == {"figure-caption", "table-caption"}

ColumnsOfBlock(b, bands) == bands[b.page].bands[b.place[1]].columns

AtBottom(b, bands) == Base(b.box) - bands[b.page].bands[b.place[1]].bottom <= 20000
AtTop(b, bands) == bands[b.page].bands[b.place[1]].top - Top(b.box) <= 20000
IsIndented(b, bands) == Left(b.first) - ColumnsOfBlock(b, bands)[b.place[2]][1] > 10000

SameBand(a, b) == a.page = b.page /\ a.place[1] = b.place[1]
ToNextColumn(a, b) == b.place[2] = a.place[2] + 1

IsBreakTransition(a, b, bands) ==
    /\ AtBottom(a, bands) /\ AtTop(b, bands)
    /\ \/ SameBand(a, b) /\ ToNextColumn(a, b)
       \/ /\ b.page = a.page + 1
          /\ a.place[2] = Len(ColumnsOfBlock(a, bands)) /\ b.place[2] = 1

FloatTransition(a, b) ==
    \/ a.page = b.page /\ ToNextColumn(a, b)
    \/ a.page = b.page /\ a.place[1] # b.place[1] /\ b.place[2] = 1
    \/ b.page = a.page + 1

HyphenTransition(a, b, bands) ==
    LET gap == Base(a.box) - Top(b.box)
    IN  /\ a.ends = "hyphen" /\ b.begins = "lower" /\ SameBand(a, b)
        /\ \/ a.place[2] = b.place[2] /\ 0 <= gap /\ gap <= 50000
           \/ ToNextColumn(a, b) /\ AtTop(b, bands)

BoundaryDecision(a, b, floated, bands) ==
    IF \/ a.role # "body" \/ b.role # "body"
       \/ ~(\/ IsBreakTransition(a, b, bands) \/ (floated /\ FloatTransition(a, b))
            \/ HyphenTransition(a, b, bands))
    THEN "separate"
    ELSE IF a.ends = "stop" \/ IsIndented(b, bands) \/ b.begins \in {"list", "quote"}
         THEN "separate"
    ELSE IF a.ends = "hyphen" THEN (IF b.begins = "lower" THEN "merge" ELSE "review")
    ELSE IF b.begins \in {"lower", "infix", "formula"} \/ a.ends = "and" THEN "merge"
    ELSE "review"

(* A unit is [role, order, sure, fragments], a fragment the reading order   *)
(* of a block.                                                              *)
NewUnit(b) == [role |-> b.role, order |-> b.order, sure |-> b.sure, fragments |-> <<b.order>>]

AddBlock(state, b, bands) ==
    LET decision == IF state.previous = <<>> THEN "separate"
                    ELSE BoundaryDecision(state.previous[1], b, state.floated, bands)
    IN  IF b.role \in Captions
        THEN [state EXCEPT !.units = Append(@, NewUnit(b)),
                           !.floated = state.previous # <<>>]
        ELSE IF decision = "merge"
        THEN [state EXCEPT !.units[state.open] =
                               [@ EXCEPT !.sure = Min({@, b.sure}),
                                         !.fragments = Append(@, b.order)],
                           !.previous = <<b>>, !.floated = FALSE]
        ELSE [units |-> Append(state.units, NewUnit(b)), open |-> Len(state.units) + 1,
              issues |-> state.issues \/ decision = "review",
              previous |-> <<b>>, floated |-> FALSE]

MergeBlocks(blocks, bands) ==
    FoldLeft(LAMBDA state, b : AddBlock(state, b, bands),
             [units |-> <<>>, open |-> 0, issues |-> FALSE, previous |-> <<>>, floated |-> FALSE],
             SelectSeq(blocks, LAMBDA b : b.role \in Translatable))
-----------------------------------------------------------------------------
(* The audit knows the blocks and the units, and not how they were made.    *)
UnitIsMapped(blocks, unit) ==
    LET n == Len(unit.fragments)
        last == unit.fragments[n]
    IN  /\ \A k \in 1 .. n : /\ blocks[unit.fragments[k]].role = unit.role
                             /\ unit.role \in Translatable
                             /\ k > 1 => unit.fragments[k - 1] < unit.fragments[k]
        /\ unit.order = unit.fragments[1]
        /\ unit.sure = Min({blocks[i].sure : i \in Range(unit.fragments)})
        /\ \A i \in unit.order .. last :
              \/ i \in Range(unit.fragments) \/ blocks[i].role \notin Translatable
              \/ unit.role = "body" /\ blocks[i].role \in Captions

MappingIsValid(blocks, units) ==
    LET fragments == FlattenSeq([k \in DOMAIN units |-> units[k].fragments])
        flowing == SelectSeq(fragments, LAMBDA i : blocks[i].role \notin Captions)
    IN  /\ \A k \in DOMAIN units : UnitIsMapped(blocks, units[k])
        /\ \A k \in 2 .. Len(units) : units[k - 1].order < units[k].order
        /\ \A k \in 2 .. Len(flowing) : flowing[k - 1] < flowing[k]
        /\ Cardinality(Range(fragments)) = Len(fragments)
        /\ Range(fragments) = {i \in DOMAIN blocks : blocks[i].role \in Translatable}

BuildSemanticUnits(topology) ==
    LET blocks == Kept([i \in DOMAIN topology.blocks |-> [order |-> i] @@ topology.blocks[i]])
        merged == MergeBlocks(blocks, topology.bands)
    IN  [status |-> IF merged.issues THEN "NEEDS_UNIT_REVIEW"
                    ELSE IF MappingIsValid(blocks, merged.units) THEN "OK" ELSE "UnitMergeError",
         units |-> merged.units]
=============================================================================
