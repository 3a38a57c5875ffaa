----------------------------- MODULE MCLogFiles -----------------------------
(* The two builds of fsmid_config.h, and point counts at the edges: of what *)
(* fits in a block, of a block exactly filled, and the most of each kind.   *)
EXTENDS LogFiles

BothBuilds == {DeviceBuild, FastBuild}

Counts(m, f) == [measure |-> m, frozen |-> f]
PointCounts == {Counts(0, 0), Counts(7, 7), Counts(8, 7), Counts(7, 8), Counts(38, 16),
                Counts(40, 16), Counts(64, 16)}

=============================================================================
