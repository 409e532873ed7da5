-------------------------------- MODULE MCTrcFmt --------------------------------
EXTENDS TrcFmt

\* two named threads whose lines interleave
MCThreads == {"t1", "t2"}
\* and the empty thread name the date-thread regex also matches
MCThreadsEmpty == {"t1", ""}
MCArgs == <<"a", "b">>
=============================================================================
