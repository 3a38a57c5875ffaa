--------------------------- MODULE MCEventRecords ---------------------------
(* Points for model-checking EventRecords: two double points, a single one  *)
(* and one that is not configured; two controls and one of no known point.  *)
EXTENDS EventRecords

DoublePoints == {<<"aOn", "aOff">>, <<"bOn", "bOff">>}
SinglePoints == {"c"}
OtherPoints == {"x"}
ControlPoints == {"k", "l"}
StrangePoints == {"y"}

=============================================================================
