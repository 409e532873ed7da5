----------------------------- MODULE MCTrcHistRaw -----------------------------
EXTENDS TrcHistRaw

\* the engine call's entry and exit points; 9 is not in the catalog
MCTracePoints ==
  (1 :> [fn |-> "ism_engine_put", value |-> "entryTime"]) @@
  (2 :> [fn |-> "ism_engine_put", value |-> "exitTime"])
MCIdents == {0, 1, 2, 9}

\* one -r directory with the snapshots of two active threads
MCLayout == << <<"active", "active">> >>
\* two -r directories with an active snapshot each
MCLayoutTwoDirs == << <<"active">>, <<"active">> >>
=============================================================================
