---------------------------- MODULE Finalization ----------------------------
(***************************************************************************)
(* job/finalize.py: one paper is annotated and laid out under one chain of *)
(* artifacts and policies.  A receipt names them all; before it is         *)
(* returned every artifact is validated again and recomputed from the      *)
(* receipt's parents, so that a stage that disagrees with another one is   *)
(* found here.  A value stands for its hash.                               *)
(***************************************************************************)
EXTENDS AnnotationSelection

FinalGraph(paper, artifact) ==
    BuildGraph(paper.units, artifact.items, paper.sources, paper.figures, paper.warning)

Receipt(paper, selection, artifact, graph, layout) ==
    [source |-> <<paper.sources, paper.figures>>, units |-> paper.units,
     review |-> paper.keys, annotations |-> artifact, graph |-> graph, layout |-> layout,
     selection |-> selection.notes, continuation |-> selection.trial.continuation]

NotesOf(artifact) == {i \in ToSet(artifact.items) : i.kind \in NoteKinds}

(* The receipt against the artifacts, and each artifact against those it   *)
(* is made from.                                                           *)
ReceiptError(paper, artifact, graph, layout, receipt) ==
    LET parents == /\ receipt.source = <<paper.sources, paper.figures>>
                   /\ receipt.units = paper.units
                   /\ receipt.review = paper.keys
                   /\ receipt.annotations = artifact
                   /\ receipt.graph = graph
                   /\ receipt.layout = layout
                   /\ receipt.selection = NotesOf(artifact)
                   /\ receipt.continuation = layout.continuation
        accepted == /\ AnnotationsValid(paper.units, paper.keys, artifact)
                    /\ WithinLimits(paper.units, artifact.items)
                    /\ SpansSafe(paper.units, artifact.items)
                    /\ graph.error = "none"
                    /\ graph = FinalGraph(paper, artifact)
    IN  CASE ~parents -> "FINALIZATION_PARENT_MISMATCH"
          [] ~accepted -> "FINALIZATION_RECEIPT_INVALID"
          [] layout # SolveLayout(graph) -> "FINALIZATION_PARENT_MISMATCH"
          [] OTHER -> "none"

(* The whole pass over one paper.                                          *)
Finalize(paper) ==
    LET refused == ManifestError(paper.units, paper.keys, paper.manifest)
        selection == SelectNotes(paper)
        artifact == ToArtifact(paper.units, Mandatory(paper.units, paper.manifest),
                               selection.notes)
        graph == FinalGraph(paper, artifact)
        layout == SolveLayout(graph)
        receipt == Receipt(paper, selection, artifact, graph, layout)
        failed == ReceiptError(paper, artifact, graph, layout, receipt)
        stopped(error) == [error |-> error, manifest |-> refused, selected |-> refused = "none"]
    IN  CASE refused # "none" -> stopped(refused)
          [] selection.error # "none" ->
                [error |-> "FINALIZATION_FAILED", manifest |-> refused, selected |-> FALSE,
                 selection |-> selection]
          [] graph.error # "none" -> stopped(graph.error)
          [] layout.error # "none" -> stopped(layout.error)
          [] layout.continuation # selection.trial.continuation ->
                stopped("FINAL_CONTINUATION_COUNT_MISMATCH")
          [] failed # "none" -> stopped(failed)
          [] OTHER -> [error |-> "none", manifest |-> refused, selection |-> selection,
                       artifact |-> artifact, graph |-> graph, layout |-> layout]
=============================================================================
