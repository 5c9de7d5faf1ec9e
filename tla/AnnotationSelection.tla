------------------------ MODULE AnnotationSelection ------------------------
(***************************************************************************)
(* annotations/: what is marked in the translation and noted below it.     *)
(* The candidates of the manifest are validated (input_manifest.py); the   *)
(* red emphasis and the ambiguous passages are mandatory (red_emphasis.py, *)
(* ambiguity.py); of the notes as many are kept as the pages of the source *)
(* allow, by trial layouts (selection.py); validation.py recomputes the    *)
(* stored artifact.  Candidates are records:                               *)
(*   red       [id, unit, start, end, importance]                          *)
(*   ambiguity [key, unit, start, end]                                     *)
(*   teaching  [id, places, content, priority, essential, quoted]          *)
(*   figure    [id, figure, unit, start, end, content, compact, priority,  *)
(*              essential, quoted]                                         *)
(* where `quoted' says that the quotation is the text of the source at the *)
(* place the candidate names.                                              *)
(***************************************************************************)
EXTENDS FrameGraph

CONSTANTS TargetBasisPoints, HardCapBasisPoints, AmbiguityLabel

ASSUME SelectionAssumption ==
    /\ TargetBasisPoints \in 0 .. HardCapBasisPoints
    /\ HardCapBasisPoints \in 0 .. 10000
    /\ AmbiguityLabel # <<>>

CaptionRoles == {"figure-caption", "table-caption"}

Visible(s) ==
    Cardinality({i \in DOMAIN s : s[i] \notin {"space", "newline", "open", "close", "slash"}})

Slice(units, c) == SubSeq(units[c.unit].text, c.start + 1, c.end)

SpanValid(units, c) ==
    /\ c.unit \in DOMAIN units
    /\ 0 <= c.start /\ c.start < c.end /\ c.end <= Len(units[c.unit].text)

SpansOverlap(a, b) == a.unit = b.unit /\ a.start < b.end /\ b.start < a.end

NoneOverlap(spans) == \A i, j \in DOMAIN spans : i < j => ~SpansOverlap(spans[i], spans[j])

SpanBefore(a, b) ==
    \/ a.unit < b.unit
    \/ a.unit = b.unit /\ a.start < b.start
    \/ a.unit = b.unit /\ a.start = b.start /\ a.end < b.end

PlaceBefore(a, b) ==
    \/ a.unit < b.unit
    \/ a.unit = b.unit /\ a.start < b.start

(* The body text that emphasis is measured against.                        *)
Denominator(units) ==
    SumFunction([u \in DOMAIN units |->
        IF units[u].role \in OneColumnRoles THEN 0 ELSE Visible(units[u].text)])

(***************************************************************************)
(* Red emphasis: by importance, then in reading order, while it moves the  *)
(* share of red text towards the target and not above the cap.             *)
(***************************************************************************)
RedValid(units, candidates) ==
    /\ \A i, j \in DOMAIN candidates : candidates[i].id = candidates[j].id => i = j
    /\ \A i \in DOMAIN candidates :
          /\ SpanValid(units, candidates[i])
          /\ units[candidates[i].unit].role \notin OneColumnRoles
          /\ Visible(Slice(units, candidates[i])) > 0

Distance(a, b) == IF a < b THEN b - a ELSE a - b

RedItem(c) == [id |-> c.id, kind |-> "dark-red-highlight", unit |-> c.unit,
               start |-> c.start, end |-> c.end, content |-> <<>>, key |-> 0]

SelectRed(units, candidates) ==
    LET total == Denominator(units)
        before(a, b) ==
            \/ a.importance > b.importance
            \/ a.importance = b.importance /\ SpanBefore(a, b)
            \/ a.importance = b.importance /\ ~SpanBefore(b, a) /\ a.id < b.id
        ordered == Sorted(ToSet(candidates), before)
        consider(done, c) ==
            LET proposed == done.highlighted + Visible(Slice(units, c))
                away(n) == Distance(n * 10000, total * TargetBasisPoints)
            IN  IF \/ \E s \in done.items : SpansOverlap(c, s)
                   \/ total = 0
                   \/ proposed * 10000 > total * HardCapBasisPoints
                   \/ away(proposed) >= away(done.highlighted)
                THEN done
                ELSE [items |-> done.items \cup {RedItem(c)}, highlighted |-> proposed]
    IN  FoldLeft(consider, [items |-> {}, highlighted |-> 0], ordered)

(***************************************************************************)
(* Ambiguous passages: every unresolved key of the review is marked where  *)
(* it occurs, and labelled at its first occurrence.                        *)
(***************************************************************************)
AmbiguityValid(units, keys, occurrences) ==
    /\ \A i \in DOMAIN occurrences :
          /\ occurrences[i].key \in keys
          /\ SpanValid(units, occurrences[i])
          /\ Visible(Slice(units, occurrences[i])) > 0
    /\ NoneOverlap(occurrences)
    /\ keys = {occurrences[i].key : i \in DOMAIN occurrences}

AmbiguityMarks(occurrences) ==
    LET ordered == Sorted(ToSet(occurrences), SpanBefore)
        first(k) == \A j \in 1 .. k - 1 : ordered[j].key # ordered[k].key
    IN  {[id |-> 100 + k, kind |-> "bright-red-ambiguity", unit |-> ordered[k].unit,
          start |-> ordered[k].start, end |-> ordered[k].end, key |-> ordered[k].key,
          content |-> IF first(k) THEN AmbiguityLabel ELSE <<>>] : k \in DOMAIN ordered}

(***************************************************************************)
(* Notes: validated once, in a canonical order.                            *)
(***************************************************************************)
TeachingValid(units, teaching) ==
    \A i \in DOMAIN teaching :
        LET places == teaching[i].places
        IN  /\ places # <<>>
            /\ IsInjective(places)
            /\ teaching[i].quoted
            /\ \A p \in DOMAIN places :
                  SpanValid(units, places[p]) /\ Visible(Slice(units, places[p])) > 0

FiguresValid(units, figures) ==
    \A i \in DOMAIN figures :
        /\ figures[i].quoted
        /\ figures[i].content # <<>> /\ figures[i].compact # <<>>
        /\ Visible(figures[i].compact) <= Visible(figures[i].content)
        /\ SpanValid(units, figures[i])
        /\ units[figures[i].unit].role \in CaptionRoles
        /\ Visible(Slice(units, figures[i])) > 0

KeysUnique(candidates) ==
    \A i, j \in DOMAIN candidates : candidates[i].id = candidates[j].id => i = j

FirstPlace(c) == Sorted(ToSet(c.places), SpanBefore)[1]

FigureBefore(a, b) ==
    \/ a.essential /\ ~b.essential
    \/ a.essential = b.essential /\ a.priority > b.priority
    \/ a.essential = b.essential /\ a.priority = b.priority
          /\ PlaceBefore(a, b)
    \/ a.essential = b.essential /\ a.priority = b.priority
          /\ a.unit = b.unit /\ a.start = b.start /\ a.id < b.id

TeachingBefore(a, b) ==
    LET once(c) == Len(c.places) = 1
        p == FirstPlace(a)
        q == FirstPlace(b)
    IN  \/ once(a) /\ ~once(b)
        \/ once(a) = once(b) /\ a.priority > b.priority
        \/ once(a) = once(b) /\ a.priority = b.priority
              /\ PlaceBefore(p, q)
        \/ once(a) = once(b) /\ a.priority = b.priority
              /\ p.unit = q.unit /\ p.start = q.start /\ a.id < b.id

FreezeCandidates(teaching, figures) ==
    [teaching |-> Sorted(ToSet(teaching), TeachingBefore),
     figures |-> Sorted(ToSet(figures), FigureBefore)]

(***************************************************************************)
(* The manifest as a whole.  Each refusal is an error code; the checks are *)
(* made in this order.                                                     *)
(***************************************************************************)
ManifestError(units, keys, m) ==
    LET captions == {u \in DOMAIN units : units[u].role \in CaptionRoles}
        sound == /\ AmbiguityValid(units, keys, m.ambiguities)
                 /\ RedValid(units, m.red)
                 /\ KeysUnique(m.teaching \o m.figures)
                 /\ TeachingValid(units, m.teaching)
                 /\ FiguresValid(units, m.figures)
    IN  CASE ~m.bound -> "SEMANTIC_CANDIDATES_PARENT_MISMATCH"
          [] units # <<>> /\ m.teaching = <<>> -> "CORE_VOCABULARY_MISSING"
          [] ~(captions \subseteq {m.figures[i].unit : i \in DOMAIN m.figures}) ->
                "CORE_FIGURE_READING_MISSING"
          [] ~sound -> "SEMANTIC_CANDIDATES_INVALID"
          [] OTHER -> "none"

Mandatory(units, m) == SelectRed(units, m.red).items \cup AmbiguityMarks(m.ambiguities)

(***************************************************************************)
(* Placements: the first note of a figure and the essential notes are      *)
(* core, the others optional, figures before terms.                        *)
(***************************************************************************)
FigurePlacement(c, essential) ==
    [id |-> c.id, kind |-> "figure-table-reading", unit |-> c.unit, start |-> c.start,
     end |-> c.end, content |-> c.content, key |-> c.id, priority |-> c.priority,
     essential |-> essential]

TeachingPlacement(c, essential) ==
    LET p == FirstPlace(c)
    IN  [id |-> c.id, kind |-> "dark-orange-teaching", unit |-> p.unit, start |-> p.start,
         end |-> p.end, content |-> c.content, key |-> c.id, priority |-> c.priority,
         essential |-> essential]

Placements(frozen) ==
    LET figure(i) ==
            LET c == frozen.figures[i]
                represented == {frozen.figures[j].figure : j \in 1 .. i - 1}
            IN  FigurePlacement(c, c.essential \/ c.figure \notin represented)
        term(i) == TeachingPlacement(frozen.teaching[i], frozen.teaching[i].essential)
        all == {figure(i) : i \in DOMAIN frozen.figures}
               \cup {term(i) : i \in DOMAIN frozen.teaching}
        core == {p \in all : p.essential}
        optionalTerms == {i \in DOMAIN frozen.teaching : ~frozen.teaching[i].essential}
        survivor == IF \E p \in core : p.kind = "dark-orange-teaching" THEN {}
                    ELSE IF optionalTerms = {} THEN {} ELSE {term(Min(optionalTerms))}
        before(a, b) ==
            \/ KindOrder[a.kind] < KindOrder[b.kind]
            \/ a.kind = b.kind /\ a.priority > b.priority
            \/ a.kind = b.kind /\ a.priority = b.priority /\ a.key < b.key
    IN  [core |-> core \cup {[p EXCEPT !.essential = TRUE] : p \in survivor},
         optional |-> Sorted((all \ core) \ survivor, before)]

Compacted(core, frozen) ==
    LET compact(p) == (CHOOSE c \in ToSet(frozen.figures) : c.id = p.key).compact
    IN  {IF p.kind = "figure-table-reading" THEN [p EXCEPT !.content = compact(p)] ELSE p :
            p \in core}

(* A bug: the mandatory items are left out of the trial.                   *)
ProbeNotesOnly(paper, placements) ==
    Trial(paper.units, placements, paper.sources, paper.figures, paper.warning)

(* The trial of a set of placements beside the mandatory items.            *)
Probe(paper, placements) ==
    Trial(paper.units, Mandatory(paper.units, paper.manifest) \cup placements,
          paper.sources, paper.figures, paper.warning)

WithinBudget(trial) == trial.feasible /\ trial.chinese <= trial.budget

(* A bug: the prefix that was too long is not the excluded end any more.   *)
NarrowedTooFar(range, middle, trial) ==
    IF trial.error # "none" THEN [range EXCEPT !.error = trial.error]
    ELSE IF WithinBudget(trial) THEN [range EXCEPT !.low = middle]
    ELSE [range EXCEPT !.high = middle - 1]

(* A look at one more prefix; a trial that fails ends the search.          *)
Narrowed(range, middle, trial) ==
    IF trial.error # "none" THEN [range EXCEPT !.error = trial.error]
    ELSE IF WithinBudget(trial) THEN [range EXCEPT !.low = middle]
    ELSE [range EXCEPT !.high = middle]

(* The longest prefix of the optional notes that stays within the budget.  *)
BinaryPrefix(n, trials) ==
    LET step(range, i) ==
            LET middle == (range.low + range.high) \div 2
            IN  IF range.error # "none" \/ range.low + 1 >= range.high THEN range
                ELSE Narrowed(range, middle, trials[middle])
    IN  FoldLeft(step, [low |-> 0, high |-> n, error |-> "none"], [i \in 1 .. n |-> i])

Verdict(trial) ==
    IF trial.error # "none" THEN trial.error
    ELSE IF ~trial.feasible THEN "AnnotationValidationError" ELSE "none"

FirstError(errors) ==
    LET failed == {i \in DOMAIN errors : errors[i] # "none"}
    IN  IF failed = {} THEN "none" ELSE errors[Min(failed)]

(* The core, compacted if it takes too many pages.                         *)
CoreWithin(core, frozen, first) ==
    IF first.feasible /\ first.chinese > first.budget THEN Compacted(core, frozen) ELSE core

WithPrefix(core, optional, k) == core \cup {optional[i] : i \in 1 .. k}

(* If pages are left, all the optional notes are tried; if they do not fit *)
(* as many of them as a search finds are kept; and the choice is tried     *)
(* once more.  The first of these trials that fails ends it.               *)
Chosen(core, optional, first, trials) ==
    LET n == Len(optional)
        tried == n > 0 /\ WithinBudget(trials[0])
        searched == tried /\ ~WithinBudget(trials[n])
        search == BinaryPrefix(n, trials)
        kept == IF ~tried THEN 0 ELSE IF searched THEN search.low ELSE n
        error == FirstError(<<Verdict(first), Verdict(trials[0]),
                              IF tried THEN trials[n].error ELSE "none",
                              IF searched THEN search.error ELSE "none",
                              Verdict(trials[kept])>>)
    IN  [error |-> error, notes |-> WithPrefix(core, optional, kept), kept |-> kept,
         optional |-> n, first |-> first, trial |-> trials[kept], trials |-> trials]

(* trials[k] is what a look at the first k optional notes tells.           *)
SelectNotes(paper) ==
    LET frozen == FreezeCandidates(paper.manifest.teaching, paper.manifest.figures)
        placed == Placements(frozen)
        first == Probe(paper, placed.core)
        core == CoreWithin(placed.core, frozen, first)
        trials == [k \in 0 .. Len(placed.optional) |->
                      Probe(paper, WithPrefix(core, placed.optional, k))]
    IN  Chosen(core, placed.optional, first, trials)

(***************************************************************************)
(* The stored artifact, and what its validation recomputes from it.        *)
(***************************************************************************)
BasisPoints(a, b) == IF b = 0 THEN 0 ELSE (a * 10000 + b \div 2) \div b

Highlighted(units, items) ==
    SumFunction([i \in DOMAIN items |->
        IF items[i].kind = "dark-red-highlight" THEN Visible(Slice(units, items[i])) ELSE 0])

NoteCharacters(items) ==
    SumFunction([i \in DOMAIN items |->
        IF items[i].kind \in NoteKinds THEN Visible(items[i].content) ELSE 0])

TranslationCharacters(units) ==
    SumFunction([u \in DOMAIN units |-> Visible(units[u].text)])

ToArtifact(units, mandatory, notes) ==
    LET items == Sorted(mandatory \cup notes, ItemOrder)
        orange == NoteCharacters(items)
    IN  [items |-> items,
         highlight |-> BasisPoints(Highlighted(units, items), Denominator(units)),
         teaching |-> BasisPoints(orange, TranslationCharacters(units) + orange)]

(* Neighbours in reading order are enough to find two that overlap.        *)
NeighboursOverlap(spans) ==
    LET ordered == Sorted(spans, SpanBefore)
    IN  \E i \in 1 .. Len(ordered) - 1 : SpansOverlap(ordered[i], ordered[i + 1])

ItemValid(units, keys, item) ==
    /\ SpanValid(units, item)
    /\ item.kind = "dark-red-highlight" =>
          /\ units[item.unit].role \notin OneColumnRoles
          /\ Visible(Slice(units, item)) > 0
    /\ item.kind = "figure-table-reading" => units[item.unit].role \in CaptionRoles
    /\ item.kind = "bright-red-ambiguity" =>
          /\ item.key \in keys
          /\ item.content \in {<<>>, AmbiguityLabel}
          /\ Visible(Slice(units, item)) > 0

AnnotationsValid(units, keys, a) ==
    LET of(kind) == {i \in ToSet(a.items) : i.kind = kind}
        bright == of("bright-red-ambiguity")
        labelled(k) == {i \in bright : i.key = k /\ i.content # <<>>}
        highlighted == Highlighted(units, a.items)
        total == Denominator(units)
        orange == NoteCharacters(a.items)
    IN  /\ \A i \in DOMAIN a.items : ItemValid(units, keys, a.items[i])
        /\ \A i, j \in DOMAIN a.items : a.items[i].id = a.items[j].id => i = j
        /\ {i.key : i \in bright} = keys
        /\ \A k \in keys : Cardinality(labelled(k)) = 1
        /\ \A i, j \in bright : i.key = j.key /\ SpanBefore(i, j) => j.content = <<>>
        /\ ~NeighboursOverlap(bright) /\ ~NeighboursOverlap(of("dark-red-highlight"))
        /\ \A i, j \in of("dark-orange-teaching") : i.key = j.key => i = j
        /\ highlighted * 10000 <= total * HardCapBasisPoints
        /\ a.highlight = BasisPoints(highlighted, total)
        /\ a.teaching = BasisPoints(orange, TranslationCharacters(units) + orange)
        /\ \A i \in 1 .. Len(a.items) - 1 : ItemOrder(a.items[i], a.items[i + 1])

(***************************************************************************)
(* What a selection must be.                                               *)
(***************************************************************************)
(* With every prefix of the optional notes that was not kept, the paper    *)
(* would be longer than its budget, and with the kept one it is not.       *)
LongestPrefix(selection) ==
    /\ selection.kept > 0 => WithinBudget(selection.trial)
    /\ \A k \in selection.kept + 1 .. selection.optional : ~WithinBudget(selection.trials[k])

(* Fewer notes never take more pages.                                      *)
FewerNotesFit(selection) ==
    \A j, k \in 0 .. selection.optional :
        j <= k /\ WithinBudget(selection.trials[k]) => WithinBudget(selection.trials[j])

(* The core alone, at its full length, cannot be laid out, or all the      *)
(* notes together are too many, or one is not placed as it must be.        *)
RefusedAtOnce(selection) ==
    ~selection.first.feasible \/ selection.trials[selection.optional].error # "none"
=============================================================================
