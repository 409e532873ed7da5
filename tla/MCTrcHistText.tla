---------------------------- MODULE MCTrcHistText ----------------------------
EXTENDS TrcHistText

\* a catalog of an engine call's entry and exit points, a valued point
\* inside it and a structural point without a value
MCTracePoints ==
  (1 :> [fn |-> "ism_engine_put", value |-> "entryTime"]) @@
  (2 :> [fn |-> "ism_engine_put", value |-> "exitTime"]) @@
  (3 :> [fn |-> "ism_engine_put", value |-> "other"]) @@
  (4 :> [fn |-> "ism_engine_put", value |-> ""])

\* identifier 0 (an unused slot) and 9 (not in the catalog)
MCIdents == {0, 1, 2, 3, 4, 9}
MCStatuses == {"active"}
=============================================================================
