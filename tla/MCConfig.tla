------------------------------ MODULE MCConfig ------------------------------
(***************************************************************************)
(* Configurations for model-checking Config.  Tables of one and two points *)
(* and of none; they differ in their first point, in their last one, in    *)
(* their length or in the build.                                           *)
(***************************************************************************)
EXTENDS Config

Point(i, p) == [information |-> i, point |-> p]
Device(m, f, i) == [measure |-> m, frozen |-> f, info |-> <<<<i>>>>]

PQ == <<Point(1, 1), Point(2, 2)>>
RQ == <<Point(3, 3), Point(2, 2)>>      \* another first point
PR == <<Point(1, 1), Point(3, 3)>>      \* another last point
P == <<Point(1, 1)>>

\* Every kind of change: in the first and the last point of a table, in its
\* length, in the build, and to no points at all.
Changes ==
    {Device(PQ, PQ, 1), Device(RQ, PQ, 1), Device(PR, P, 1), Device(PQ, PQ, 2),
     Device(PQ, <<>>, 1), Device(<<>>, PQ, 1)}

LastPoint == {Device(PQ, PQ, 1), Device(PR, PQ, 1)}
NoFrozen == {Device(PQ, PQ, 1), Device(RQ, <<>>, 1)}
OneDevice == {Device(PQ, PQ, 1)}

=============================================================================
