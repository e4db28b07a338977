------------------------------- MODULE MCIngest -------------------------------
(***************************************************************************)
(* Instances of Ingest: i1, i2 and i3 index, c cleans up, r reindexes.       *)
(***************************************************************************)
EXTENDS Ingest

CONSTANTS i1, i2, i3, c, r, s1, s2, h1, b, v, w1, w2

Kinds == [t \in Tasks |-> CASE t \in {i1, i2, i3} -> "index" [] t = c -> "cleanup" [] t = r -> "reindex"]

\* All tasks of one source but i2, which is of a second one.
TwoSources == [t \in Tasks |-> IF t = i2 THEN s2 ELSE s1]

NoImages == [t \in Tasks |-> {}]
OneImage == [t \in Tasks |-> IF KindOf[t] = "index" THEN {h1} ELSE {}]
\* Only the second task's file shows the image.
NewImage == [t \in Tasks |-> IF t = i2 THEN {h1} ELSE {}]
=============================================================================
