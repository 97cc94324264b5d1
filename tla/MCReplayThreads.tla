-------------------------- MODULE MCReplayThreads --------------------------
EXTENDS ReplayThreads

MCCounters == {"ready", "start", "iter", "done"}
MCThreads == {"main", "sub"}
=============================================================================
