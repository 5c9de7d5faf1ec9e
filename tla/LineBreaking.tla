---------------------------- MODULE LineBreaking ----------------------------
(***************************************************************************)
(* From the Chinese text of one unit to its measured lines:                *)
(* typography/font_runs.py (grapheme clusters, font runs), measure.py      *)
(* (line boxes), cjk_breaker.py (legal breaks) and layout/unit_parts.py    *)
(* (lines bound to the complete translation, labels inserted into it).     *)
(*                                                                         *)
(* A text is a sequence of character classes, as many as the code tells    *)
(* apart: an offset of the code is the number of characters before it.     *)
(* Widths and heights are small integers instead of thousandths of points. *)
(***************************************************************************)
EXTENDS PageGeometry, Integers, Sequences, SequencesExt, FiniteSetsExt

Classes == {"han", "latin", "digit", "open", "close", "space", "newline",
            "mark", "url", "slash", "symbol"}

WidthOf == [c \in Classes |->
             CASE c = "han" -> 2 [] c \in {"mark", "newline"} -> 0 [] OTHER -> 1]

(* The face the fixed chain (body, then symbol) finds for a character.     *)
FaceOf(c) == IF c = "symbol" THEN "symbol" ELSE "body"
NaturalHeight(face) == IF face = "symbol" THEN 4 ELSE 2

IsSpace(c) == c \in {"space", "newline"}
IsBlank(s) == \A i \in DOMAIN s : IsSpace(s[i])

RStrip(s) == SubSeq(s, 1, Max({0} \cup {i \in DOMAIN s : ~IsSpace(s[i])}))
LStrip(s) == SubSeq(s, Min({Len(s) + 1} \cup {i \in DOMAIN s : ~IsSpace(s[i])}), Len(s))
Strip(s) == LStrip(RStrip(s))

(***************************************************************************)
(* Grapheme clusters: a mark joins the cluster before it.  Starts(t)[i]    *)
(* says that a cluster begins at character i.                              *)
(***************************************************************************)
Starts(t) == [i \in DOMAIN t |-> i = 1 \/ t[i] # "mark"]

Boundaries(t) == {0, Len(t)} \cup {i - 1 : i \in {j \in DOMAIN t : Starts(t)[j]}}

ClusterEnd(t, i) ==
    Max({i} \cup {j \in i + 1 .. Len(t) : \A k \in i + 1 .. j : ~Starts(t)[k]})

(* Adjacent clusters of one face form one run; the runs are what is        *)
(* measured and later drawn.                                               *)
Resolve(t) ==
    LET face(i) == IF Starts(t)[i] THEN FaceOf(t[i]) ELSE "same"
        extend(runs, i) ==
            IF runs # <<>> /\ (face(i) = "same" \/ Last(runs).face = face(i))
            THEN Front(runs) \o <<[Last(runs) EXCEPT !.text = Append(@, t[i])]>>
            ELSE Append(runs, [face |-> face(i), text |-> <<t[i]>>])
    IN  FoldLeft(extend, <<>>, [i \in DOMAIN t |-> i])

(* The width of a line is the sum of its runs, its height the requested    *)
(* leading unless a face needs more.                                       *)
LineBox(t, leading) ==
    LET runs == Resolve(t)
    IN  [text |-> t, runs |-> runs,
         width |-> SumFunction([i \in DOMAIN t |-> WidthOf[t[i]]]),
         height |-> Max({leading} \cup {NaturalHeight(runs[i].face) : i \in DOMAIN runs})]

(***************************************************************************)
(* Atoms: what a line break must not separate.                             *)
(***************************************************************************)
Atom(t, k) == [text |-> t, kind |-> k]

(* Where a protected token that starts at i ends, or 0: a URL runs to the  *)
(* next white space or closing mark, a number must end between clusters.   *)
ProtectedEnd(t, i) ==
    LET run(ok) == Max({i} \cup {j \in i + 1 .. Len(t) : \A k \in i + 1 .. j : ok[t[k]]})
        url == run([c \in Classes |-> ~IsSpace(c) /\ c # "close"])
        number == run([c \in Classes |-> c = "digit"])
    IN  CASE t[i] = "url" /\ url > i -> url
          [] t[i] = "digit" /\ number \in Boundaries(t) -> number
          [] OTHER -> 0

LatinEnd(t, i) ==
    Max({i} \cup {j \in i .. Len(t) :
                    /\ j \in Boundaries(t)
                    /\ \A k \in i .. j : Starts(t)[k] => t[k] \in {"latin", "url", "digit"}})

(* A URL may break after a slash only.                                     *)
UrlAtoms(t) ==
    LET cut(done, c) ==
            IF done # <<>> /\ Last(Last(done).text) # "slash"
            THEN Front(done) \o <<Atom(Append(Last(done).text, c), "url")>>
            ELSE Append(done, Atom(<<c>>, "url"))
    IN  FoldLeft(cut, <<>>, t)

(* The atoms of t from character i on.  A mark that follows white space is *)
(* in the middle of a cluster: the code looks the cluster up by its start  *)
(* and finds none, which is the atom of kind "KeyError" here.              *)
RawAtoms(t) ==
    LET spaces(i) == Max({i} \cup {j \in i .. Len(t) : \A k \in i .. j : t[k] = "space"})
        raw[i \in 1 .. Len(t) + 1] ==
            IF i > Len(t) THEN <<>>
            ELSE CASE t[i] = "newline" -> <<Atom(<<t[i]>>, "hard-break")>> \o raw[i + 1]
                   [] t[i] = "space" ->
                        <<Atom(SubSeq(t, i, spaces(i)), "space")>> \o raw[spaces(i) + 1]
                   [] ProtectedEnd(t, i) > 0 ->
                        LET e == ProtectedEnd(t, i)
                        IN  (IF t[i] = "url" THEN UrlAtoms(SubSeq(t, i, e))
                             ELSE <<Atom(SubSeq(t, i, e), "semantic-protected")>>)
                            \o raw[e + 1]
                   [] t[i] \in {"latin", "url"} /\ Starts(t)[i] ->
                        <<Atom(SubSeq(t, i, LatinEnd(t, i)), "latin")>> \o raw[LatinEnd(t, i) + 1]
                   [] t[i] = "mark" /\ i > 1 -> <<Atom(<<t[i]>>, "KeyError")>>
                   [] OTHER -> <<Atom(SubSeq(t, i, ClusterEnd(t, i)), "ordinary")>>
                               \o raw[ClusterEnd(t, i) + 1]
    IN  raw[1]

Merge(left, right) ==
    LET kinds == {left.kind, right.kind}
    IN  Atom(left.text \o right.text,
             CASE kinds \cap {"url", "url-group"} # {} -> "url-group"
               [] "semantic-protected" \in kinds -> "semantic-protected"
               [] kinds \cap {"latin", "protected-group"} # {} -> "protected-group"
               [] OTHER -> "ordinary")

EndsOpen(s) == RStrip(s) # <<>> /\ Last(RStrip(s)) = "open"
StartsClose(s) == s # <<>> /\ s[1] = "close"

(* One explicit line: white space joins the atom before it, an opening     *)
(* mark the atom after it, a closing mark the atom before it.              *)
LegalSegment(segment) ==
    LET unspaced(done, a) ==
            IF a.kind # "space" THEN Append(done, a)
            ELSE IF done = <<>> THEN done
            ELSE Front(done) \o <<Atom(Last(done).text \o a.text, Last(done).kind)>>
        opened(done, a) ==
            IF done # <<>> /\ EndsOpen(Last(done).text)
            THEN Front(done) \o <<Merge(Last(done), a)>>
            ELSE Append(done, a)
        closed(done, a) ==
            IF done # <<>> /\ StartsClose(a.text)
            THEN Front(done) \o <<Merge(Last(done), a)>>
            ELSE Append(done, a)
        atoms == FoldLeft(closed, <<>>,
                          FoldLeft(opened, <<>>, FoldLeft(unspaced, <<>>, segment)))
    IN  IF atoms = <<>> \/ StartsClose(LStrip(atoms[1].text)) \/ EndsOpen(Last(atoms).text)
        THEN <<Atom(<<>>, "LineBreakError")>>
        ELSE atoms

(* Explicit lines are legalized one by one; none may be empty.             *)
LegalAtoms(t) ==
    LET raw == RawAtoms(t)
        cuts == Ascending({i \in DOMAIN raw : raw[i].kind = "hard-break"})
        bound == <<0>> \o cuts
        segment(k) == LegalSegment(SubSeq(raw, bound[k] + 1,
                                     IF k = Len(bound) THEN Len(raw) ELSE bound[k + 1] - 1))
        broken == [k \in DOMAIN bound |->
                     (IF k = 1 THEN <<>> ELSE <<raw[bound[k]]>>) \o segment(k)]
    IN  FlattenSeq(broken)

(* A bug: a closing mark may begin a line.                                 *)
EmergencyAtomsAnywhere(atom) ==
    LET t == atom.text
        cluster(i) == SubSeq(t, i, ClusterEnd(t, i))
        heads == Ascending({i \in DOMAIN t : Starts(t)[i]})
    IN  [k \in DOMAIN heads |-> Atom(cluster(heads[k]), atom.kind)]

(* An atom wider than a line is split between clusters, except a URL, a    *)
(* number or a name, and never so that a line breaks the rules.            *)
EmergencyAtoms(atom) ==
    LET t == atom.text
        cluster(i) == SubSeq(t, i, ClusterEnd(t, i))
        heads == Ascending({i \in DOMAIN t : Starts(t)[i]})
        group(done, i) ==
            IF done # <<>> /\ (\/ IsBlank(cluster(i))
                               \/ EndsOpen(Last(done).text)
                               \/ StartsClose(cluster(i)))
            THEN Front(done) \o <<Atom(Last(done).text \o cluster(i), Last(done).kind)>>
            ELSE Append(done, Atom(cluster(i), IF atom.kind = "ordinary" THEN "ordinary"
                                               ELSE "latin"))
        groups == FoldLeft(group, <<>>, heads)
    IN  IF atom.kind \in {"url", "url-group", "semantic-protected", "protected-group"}
           \/ Len(groups) = 1
        THEN <<Atom(<<>>, "LineBreakError")>>
        ELSE groups

(* Greedy lines: an atom joins the current line when it fits, else starts  *)
(* the next one, else is split.  `cur' is the accepted part of the line.   *)
Joins(done, atom, width, leading) ==
    LineBox(RStrip(done.cur \o atom.text), leading).width <= width

Accept(done, atom) == [done EXCEPT !.cur = @ \o atom.text]

Flush(done, leading) ==
    [done EXCEPT !.cur = <<>>, !.lines = Append(@, LineBox(RStrip(done.cur), leading))]

Place(done, atom, width, leading) ==
    CASE done.error # "none" -> done
      [] atom.kind \in {"LineBreakError", "KeyError"} -> [done EXCEPT !.error = atom.kind]
      [] atom.kind = "hard-break" ->
            IF done.cur = <<>> THEN [done EXCEPT !.error = "LineBreakError"]
            ELSE Flush(done, leading)
      [] Joins(done, atom, width, leading) -> Accept(done, atom)
      [] OTHER ->
            LET fresh == IF done.cur = <<>> THEN done ELSE Flush(done, leading)
                piece(d, a) ==
                    CASE d.error # "none" -> d
                      [] a.kind = "LineBreakError" -> [d EXCEPT !.error = a.kind]
                      [] Joins(d, a, width, leading) -> Accept(d, a)
                      [] Joins([d EXCEPT !.cur = <<>>], a, width, leading) ->
                            Accept(Flush(d, leading), a)
                      [] OTHER -> [d EXCEPT !.error = "LineBreakError"]
            IN  IF Joins(fresh, atom, width, leading) THEN Accept(fresh, atom)
                ELSE FoldLeft(piece, fresh, EmergencyAtoms(atom))

BreakText(t, width, leading) ==
    LET atoms == LegalAtoms(t)
        place(done, atom) == Place(done, atom, width, leading)
        raw == RawAtoms(t)
        lost == \E i \in DOMAIN raw : raw[i].kind = "KeyError"
        done == FoldLeft(place, [lines |-> <<>>, cur |-> <<>>, error |-> "none"], atoms)
        all == IF done.cur = <<>> THEN done ELSE Flush(done, leading)
    IN  CASE lost -> [error |-> "KeyError", lines |-> <<>>]
          [] all.error # "none" \/ all.lines = <<>> ->
                [error |-> "LineBreakError", lines |-> <<>>]
          [] OTHER -> [error |-> "none", lines |-> all.lines]

(***************************************************************************)
(* Lines bound to the translation: contiguous ranges that take all of its  *)
(* white space, or an error when the visible lines do not add up to it.    *)
(***************************************************************************)
Find(t, part, from) ==
    LET at == {i \in from .. Len(t) - Len(part) : SubSeq(t, i + 1, i + Len(part)) = part}
    IN  IF at = {} THEN -1 ELSE Min(at)

TargetRanges(t, lines) ==
    LET last == Len(lines)
        visible(k) == lines[k].text
        range(done, k) ==
            LET start == done.cursor
                at == Find(t, visible(k), start)
                seen == at + Len(visible(k))
                end == IF k = last THEN Len(t) ELSE Find(t, visible(k + 1), seen)
                sound == /\ at >= 0
                         /\ IsBlank(SubSeq(t, start + 1, at))
                         /\ end >= 0
                         /\ IsBlank(SubSeq(t, seen + 1, end))
                         /\ Strip(SubSeq(t, start + 1, end)) = visible(k)
            IN  IF ~done.sound \/ ~sound
                THEN [done EXCEPT !.sound = FALSE]
                ELSE [sound |-> TRUE, cursor |-> end,
                      ranges |-> Append(done.ranges, <<start, end>>)]
        done == FoldLeft(range, [sound |-> TRUE, cursor |-> 0, ranges |-> <<>>],
                         [k \in DOMAIN lines |-> k])
    IN  [sound |-> done.sound /\ done.cursor = Len(t), ranges |-> done.ranges]

MeasureTargetLines(t, width, leading) ==
    LET broken == BreakText(t, width, leading)
        bound == TargetRanges(t, broken.lines)
    IN  CASE broken.error # "none" -> broken
          [] ~bound.sound -> [error |-> "UnitPartError", lines |-> <<>>]
          [] OTHER ->
                [error |-> "none",
                 lines |-> [k \in DOMAIN broken.lines |->
                              [text |-> broken.lines[k].text,
                               width |-> broken.lines[k].width,
                               height |-> broken.lines[k].height,
                               start |-> bound.ranges[k][1],
                               end |-> bound.ranges[k][2]]]]

(***************************************************************************)
(* Labels (of ambiguous passages) inserted into the translation.  The      *)
(* composite text is a sequence of segments; a line keeps its place on the *)
(* axis of the translation, on which a label has no extent.                *)
(***************************************************************************)
InsertionsValid(t, insertions) ==
    \A i \in DOMAIN insertions :
        /\ insertions[i].offset \in Boundaries(t)
        /\ insertions[i].text # <<>>
        /\ \A j \in DOMAIN insertions : insertions[i].id = insertions[j].id => i = j

Segments(t, insertions) ==
    LET before(a, b) == \/ a.offset < b.offset
                        \/ a.offset = b.offset /\ a.id < b.id
        ordered == Sorted(ToSet(insertions), before)
        target(from, to) ==
            IF from >= to THEN <<>>
            ELSE <<[kind |-> "target", start |-> from, end |-> to, id |-> 0,
                    text |-> SubSeq(t, from + 1, to)]>>
        label(item) ==
            <<[kind |-> "ambiguity-label", start |-> item.offset, end |-> item.offset,
               id |-> item.id, text |-> item.text]>>
        cursor(k) == IF k = 1 THEN 0 ELSE ordered[k - 1].offset
        pieces == [k \in DOMAIN ordered |->
                     target(cursor(k), ordered[k].offset) \o label(ordered[k])]
    IN  FlattenSeq(pieces) \o target(cursor(Len(ordered) + 1), Len(t))

CompositeText(segments) == FlattenSeq([k \in DOMAIN segments |-> segments[k].text])

(* Where segment k begins in the composite text.                           *)
SegmentStart(segments, k) == Len(CompositeText(SubSeq(segments, 1, k - 1)))

(* The place of one composite line on the axis of the translation.         *)
Rebind(segments, line) ==
    LET from(k) == Max({line.start, SegmentStart(segments, k)})
        to(k) == Min({line.end, SegmentStart(segments, k + 1)})
        met == {k \in DOMAIN segments : from(k) < to(k)}
        targets == {k \in met : segments[k].kind = "target"}
        onTarget(k, x) == segments[k].start + x - SegmentStart(segments, k)
        anchors == {segments[k].start : k \in met \ targets}
        ids == {segments[k].id : k \in met \ targets}
    IN  CASE targets # {} ->
               [bound |-> TRUE, ids |-> ids,
                start |-> onTarget(Min(targets), from(Min(targets))),
                end |-> onTarget(Max(targets), to(Max(targets)))]
          [] targets = {} /\ Cardinality(anchors) = 1 ->
               [bound |-> TRUE, ids |-> ids,
                start |-> Max(anchors), end |-> Max(anchors)]
          [] OTHER -> [bound |-> FALSE, ids |-> ids, start |-> 0, end |-> 0]

MeasureComposite(t, insertions, width, leading) ==
    LET segments == Segments(t, insertions)
        raw == MeasureTargetLines(CompositeText(segments), width, leading)
        place(k) == Rebind(segments, raw.lines[k])
        line(k) == [text |-> raw.lines[k].text, width |-> raw.lines[k].width,
                    height |-> raw.lines[k].height,
                    compositeStart |-> raw.lines[k].start,
                    compositeEnd |-> raw.lines[k].end,
                    start |-> place(k).start, end |-> place(k).end, ids |-> place(k).ids]
    IN  CASE ~InsertionsValid(t, insertions) -> [error |-> "UnitPartError", lines |-> <<>>]
          [] raw.error # "none" -> raw
          [] \E k \in DOMAIN raw.lines : ~place(k).bound ->
                [error |-> "UnitPartError", lines |-> <<>>]
          [] OTHER -> [error |-> "none", lines |-> [k \in DOMAIN raw.lines |-> line(k)]]

(* A note below the translation has no range of its own in it.             *)
MeasureAuxiliary(t, id, offset, width, leading) ==
    LET raw == MeasureTargetLines(t, width, leading)
        line(l) == [text |-> l.text, width |-> l.width, height |-> l.height,
                    compositeStart |-> l.start, compositeEnd |-> l.end,
                    start |-> offset, end |-> offset, ids |-> {id}]
    IN  IF raw.error # "none" THEN raw
        ELSE [error |-> "none", lines |-> [k \in DOMAIN raw.lines |-> line(raw.lines[k])]]

(***************************************************************************)
(* What the measured lines of one unit must be, whatever the text.         *)
(***************************************************************************)
(* Nothing of the translation is lost, repeated or moved by the lines.     *)
ConsumesText(t, lines) ==
    LET visible(s) == SelectSeq(s, LAMBDA c : ~IsSpace(c))
    IN  visible(FlattenSeq([k \in DOMAIN lines |-> lines[k].text])) = visible(t)

(* The lines partition the axis of the translation, in order.              *)
CoversAxis(length, lines) ==
    /\ lines # <<>>
    /\ lines[1].start = 0
    /\ Last(lines).end = length
    /\ \A k \in DOMAIN lines :
          /\ lines[k].start <= lines[k].end
          /\ k < Len(lines) => lines[k].end = lines[k + 1].start

LegalLine(line, width) ==
    /\ line.text # <<>>
    /\ line.width <= width
    /\ ~StartsClose(line.text)
    /\ ~EndsOpen(line.text)
    /\ "newline" \notin ToSet(line.text)

(* A line begins in the middle of a cluster only in a URL, at a mark behind *)
(* its slash.                                                              *)
BetweenClusters(t, line) ==
    line.compositeStart \in Boundaries(t) \cup {i \in DOMAIN t : t[i] = "slash"}

(* A mark right after white space is the one thing the breaker neither     *)
(* breaks nor refuses.                                                     *)
MarkAfterSpace(t) == \E i \in 2 .. Len(t) : t[i] = "mark" /\ IsSpace(t[i - 1])
=============================================================================
