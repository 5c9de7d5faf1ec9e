---------------------------- MODULE PageGeometry -----------------------------
(***************************************************************************)
(* Boxes on a page, <<left, base, right, top>> with the origin at the lower *)
(* left corner, and sorting by a key, as all stages do it: Before is a      *)
(* strict total order on the elements.                                     *)
(***************************************************************************)
EXTENDS Integers, Sequences, FiniteSets, FiniteSetsExt, SequencesExt, TLC

Left(b) == b[1]
Base(b) == b[2]
Right(b) == b[3]
Top(b) == b[4]
Across(b) == Right(b) - Left(b)

UnionBox(boxes) ==
    << Min({Left(b) : b \in boxes}), Min({Base(b) : b \in boxes}),
       Max({Right(b) : b \in boxes}), Max({Top(b) : b \in boxes}) >>

BoxOf(items) == UnionBox({k.box : k \in items})

Within(inner, outer) ==
    /\ Left(outer) <= Left(inner) /\ Right(inner) <= Right(outer)
    /\ Base(outer) <= Base(inner) /\ Top(inner) <= Top(outer)

Apart(a, b) == IF a < b THEN b - a ELSE a - b

(* The length that two intervals share.                                     *)
Shared(low, high, low2, high2) == Max({0, Min({high, high2}) - Max({low, low2})})
-----------------------------------------------------------------------------
(* Each element is inserted behind those that come before it, before[x].   *)
Inserted(S, before) ==
    LET insert(x, seq) == InsertAt(seq, 1 + Cardinality(before[x] \cap ToSet(seq)), x)
    IN  FoldSet(insert, <<>>, S)

Sorted(S, Before(_, _)) == Inserted(S, [x \in S |-> {y \in S \ {x} : Before(y, x)}])

(* The order of Python tuples of integers.                                 *)
Lexicographic(a, b) ==
    \/ \E i \in DOMAIN a \cap DOMAIN b : a[i] < b[i] /\ \A j \in 1 .. i - 1 : a[j] = b[j]
    \/ a # b /\ IsPrefix(a, b)

(* The parts of S that the relation joins, directly or through others.      *)
Components(S, Linked(_, _)) ==
    LET grow(part, k) == part \cup {x \in S : \E y \in part : Linked(x, y)}
    IN  {FoldLeft(grow, {x}, [k \in 1 .. Cardinality(S) |-> k]) : x \in S}

(* f itself, of which TLC computes every value once.                        *)
Kept(f) == f @@ <<>>

Ascending(S) == Sorted(S, LAMBDA a, b : a < b)
=============================================================================
