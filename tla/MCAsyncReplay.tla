--------------------------- MODULE MCAsyncReplay ---------------------------
EXTENDS AsyncReplay

MCCounters == {"done", "reclaim"}
MCThreads == {"main"}
=============================================================================
