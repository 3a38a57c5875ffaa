--------------------------- MODULE MCExtremeDays ---------------------------
(* Samples for model-checking ExtremeDays: of both signs, the greater       *)
(* magnitude negative.                                                      *)
EXTENDS ExtremeDays

Samples == {-3, 2}

=============================================================================
