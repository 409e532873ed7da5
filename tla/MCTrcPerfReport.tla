-------------------------- MODULE MCTrcPerfReport --------------------------
(* Model values and bounds for checking TrcPerfReport with TLC.            *)
EXTENDS TrcPerfReport

CONSTANTS f1, f2

MCFiles == {f1, f2}
MCArgv == <<f1, f2>>
\* two threads' formatted traces, e.g. Trace_active0.fmt and Trace_active1.fmt
MCBaseName == (f1 :> "Trace_active0.fmt") @@ (f2 :> "Trace_active1.fmt")
\* the same name in two output directories
MCBaseNameClash == (f1 :> "Trace_active0.fmt") @@ (f2 :> "Trace_active0.fmt")
MCFuncs == {"ism_engine_put", "ism_engine_get"}
MCSubs == {"commit"}
=============================================================================
