---------------------------- MODULE EditionCases ----------------------------
(***************************************************************************)
(* The stages that make the edition: lines, pages, and the choice of the   *)
(* notes and marks, each applied to every input of a small set.            *)
(***************************************************************************)
EXTENDS Cases, QaGates

(* A translated paper and the candidates for its marks and notes, of which *)
(* nothing is known but their form.                                        *)
Units == [role : STRING, pages : SUBSET Nat, text : Seq(STRING)]
Spans == [unit : Nat, start : Nat, end : Nat]
Emphases == [id : Nat, unit : Nat, start : Nat, end : Nat, importance : Nat]
Terms == [id : Nat, places : Seq(Spans), content : Seq(STRING), priority : Nat,
          essential : BOOLEAN, quoted : BOOLEAN]
FigureNotes == [id : Nat, figure : Nat, unit : Nat, start : Nat, end : Nat,
                content : Seq(STRING), compact : Seq(STRING), priority : Nat,
                essential : BOOLEAN, quoted : BOOLEAN]

IsPaper(paper) ==
    /\ paper.units \in Seq(Units)
    /\ paper.manifest.red \in Seq(Emphases)
    /\ paper.manifest.teaching \in Seq(Terms)
    /\ paper.manifest.figures \in Seq(FigureNotes)

(* What has been decided is drawn and then put to the gates.               *)
MakeEdition(paper) ==
    LET final == Finalize(paper)
        plan == BuildOverlayPlan(paper, final)
        failed == IF plan.error = "none" THEN RunMechanicalQa(paper, final, plan) ELSE {}
    IN  IF final.error # "none" THEN final
        ELSE [error |-> "none", manifest |-> "none", selection |-> final.selection,
              artifact |-> final.artifact, graph |-> final.graph, layout |-> final.layout,
              plan |-> plan, failed |-> failed]

Broken(c) == MeasureComposite(c.text, c.labels, c.width, c.leading)

Packed(c) == SolveLayout(c.graph)

Finalized(c) == MakeEdition(c.paper)

BreakLines == Answer("break", Broken)

PackLines == Answer("pack", Packed)

FinalizePaper == Answer("finalize", Finalized)

Editing == BreakLines \/ PackLines \/ FinalizePaper

(* The lines of a translation, with the labels of its ambiguous passages   *)
(* inserted, hold all of it, once and in order, partition its axis and     *)
(* break no rule of Chinese typography, whatever the text and the width.   *)
(* The one text that stops the breaker without a LineBreakError has a mark *)
(* right after white space.                                                *)
LinesAreComplete ==
    Answered("break") =>
        LET answer == result[1]
        IN  CASE answer.error = "none" ->
               /\ CoversAxis(Len(input.text), answer.lines)
               /\ \A k \in DOMAIN answer.lines : LegalLine(answer.lines[k], input.width)
               /\ ConsumesText(CompositeText(Segments(input.text, input.labels)), answer.lines)
               /\ input.labels = <<>> =>
                     \A k \in DOMAIN answer.lines :
                           BetweenClusters(input.text, answer.lines[k])
          [] answer.error = "KeyError" -> MarkAfterSpace(input.text)
          [] answer.error = "UnitPartError" -> ~InsertionsValid(input.text, input.labels)
          [] OTHER -> answer.error = "LineBreakError"

(* A layout places every line once, in reading order and without overlap,  *)
(* leaves the statement its room, keeps headings with their text, and is   *)
(* refused only when something is too high for a column or the pages end.  *)
LayoutIsSound == Answered("pack") => SoundLayout(input.graph, result[1])

(* A selection keeps the longest prefix of the optional notes, in the      *)
(* order of their worth, with which the paper stays within the pages of    *)
(* the source: no longer one would, though a binary search has looked at   *)
(* few of them.  It is refused only for what the first look at the core or *)
(* at all the notes would have told: it never depends on where the search  *)
(* happens to look.                                                        *)
SelectionIsSound ==
    Answered("finalize") =>
        LET answer == result[1]
        IN  /\ answer.error = "none" => LongestPrefix(answer.selection)
            /\ answer.manifest = "none" /\ answer.error = "FINALIZATION_FAILED" =>
                  RefusedAtOnce(answer.selection)

(* What the binary search owes to every paper, however many notes it has:  *)
(* if fewer notes never take more pages, the longest prefix.               *)
SearchIsSound ==
    Answered("finalize") =>
        LET answer == result[1]
        IN  answer.error = "none" /\ FewerNotesFit(answer.selection) =>
                LongestPrefix(answer.selection)

(* The trials decide on what is finally made and drawn: when a selection   *)
(* has been found, the final graph, its layout and the receipt over all of *)
(* it pass every check of their own, and the pages are those of the trial; *)
(* every character is drawn once, in order and in the colour and with the  *)
(* lines of its marks, and no gate refuses the result.  The one drawing    *)
(* that is refused has a mark without a character to stand on.             *)
SelectedIsFinal ==
    Answered("finalize") =>
        LET answer == result[1]
            units == input.paper.units
            items == answer.artifact.items
        IN  /\ answer.manifest = "none" => answer.error \in {"none", "FINALIZATION_FAILED"}
            /\ answer.error = "FINALIZATION_FAILED" => ~answer.selected
            /\ answer.error = "none" =>
                  /\ answer.layout.chinese = answer.selection.trial.chinese
                  /\ NoteCharacters(items) =
                        SumFunction([p \in answer.selection.notes |-> Visible(p.content)])
                  /\ IF answer.plan.error = "none"
                     THEN DrawnAsMarked(units, items, answer.plan) /\ answer.failed = {}
                     ELSE HasLoneMark(units, items)
=============================================================================
