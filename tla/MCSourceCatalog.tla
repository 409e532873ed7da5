---------------------------- MODULE MCSourceCatalog ----------------------------
EXTENDS SourceCatalog

MCFuncNames == {"ism_engine_put", "ism_engine_get"}
MCValues == {"entryTime", "exitTime"}
\* one-line signatures, and the statement layouts the engine's sources use
MCSigStyles == {"oneline"}
MCStmtStyles == {"plain", "trace", "contd", "guarded"}
\* all layouts, including a trace guarded by braces and continued on the
\* next line
MCAllStmtStyles == {"plain", "trace", "contd", "guarded", "guardedContd"}
=============================================================================
