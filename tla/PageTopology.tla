---------------------------- MODULE PageTopology -----------------------------
(***************************************************************************)
(* The source of an edition: topology/confidence.py, reading_order.py and  *)
(* contracts.py.  A document is refused for a review when a detection is   *)
(* not certain; otherwise its blocks are put in one order, and the whole   *)
(* is checked against a contract of its own.                               *)
(***************************************************************************)
EXTENDS PageRoles

BlankPage(page) ==
    {} = page.lines \cup page.graphics \cup page.vectors \cup page.images

NeedsReview(pages, bands, blocks) ==
    \/ \E p \in DOMAIN pages :
          /\ ~BlankPage(pages[p])
          /\ \/ bands[p].score < Accepted
             \/ \E i \in DOMAIN bands[p].bands : bands[p].bands[i].score < Accepted
             \/ \E g \in pages[p].graphics : g.sure < Accepted
    \/ \E b \in Range(blocks) : b.role \in Translatable /\ b.sure < Accepted

(* A bug: the height on the page goes before the column.                    *)
ReadingKeyByHeight(b) ==
    << b.page, b.place[1], -Top(b.box), b.place[2], -Base(b.box), Left(b.box), Right(b.box),
       b.ordinal >>

(* By the place where the roles were found, and there from the top down.    *)
ReadingKey(b) ==
    << b.page, b.place[1], b.place[2], -Top(b.box), -Base(b.box), Left(b.box), Right(b.box),
       b.ordinal >>

BuildReadingOrder(blocks) ==
    Sorted(blocks, LAMBDA a, b : Lexicographic(ReadingKey(a), ReadingKey(b)))
-----------------------------------------------------------------------------
(* The contract, which the construction of an accepted outcome checks.      *)
BandsAreValid(page, bands) ==
    /\ \A i \in DOMAIN bands :
          /\ bands[i].bottom < bands[i].top
          /\ Base(page.crop) <= bands[i].bottom /\ bands[i].top <= Top(page.crop)
          /\ i > 1 => bands[i].top <= bands[i - 1].bottom
    /\ \A i \in DOMAIN bands : \A j \in DOMAIN bands[i].columns :
          LET column == bands[i].columns[j]
          IN  /\ column[1] < column[2]
              /\ Left(page.crop) <= column[1] /\ column[2] <= Right(page.crop)
              /\ j > 1 => bands[i].columns[j - 1][2] <= column[1]

Frame(bands, place) ==
    LET band == bands[place[1]]
        column == band.columns[place[2]]
    IN  <<column[1], band.bottom, column[2], band.top>>

TargetKind(role) ==
    CASE role \in {"figure-caption", "figure-text"} -> "figure"
      [] role \in {"table-caption", "table-cell"} -> "table"
      [] OTHER -> "none"

BlockIsValid(page, bands, b) ==
    /\ Within(b.box, page.crop)
    /\ b.role \in Translatable => Within(b.box, Frame(bands, b.place))
    /\ Within(b.first, b.box)
    /\ IF TargetKind(b.role) = "none" THEN b.target = 0
       ELSE \E g \in page.graphics : g.id = b.target /\ g.kind = TargetKind(b.role)

SourceIsValid(pages, bands, blocks) ==
    /\ \A p \in DOMAIN pages :
          /\ BandsAreValid(pages[p], bands[p].bands)
          /\ \A g \in pages[p].graphics : Within(g.box, pages[p].crop)
    /\ \A b \in Range(blocks) : BlockIsValid(pages[b.page], bands[b.page].bands, b)

BuildTopology(pages) ==
    LET bands == DetectDocumentBands(pages)
        blocks == ClassifyDocumentLines(pages, bands)
        ordered == BuildReadingOrder(Range(blocks))
    IN  [status |-> IF NeedsReview(pages, bands, blocks) THEN "NEEDS_TOPOLOGY_REVIEW"
                    ELSE IF SourceIsValid(pages, bands, ordered) THEN "OK"
                    ELSE "TopologyContractError",
         bands |-> bands, blocks |-> ordered]
=============================================================================
