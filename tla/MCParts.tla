------------------------------ MODULE MCParts ------------------------------
(***************************************************************************)
(* Parts of the program that share nothing: the threads of the default     *)
(* build and those of a build with ASYNCIO, the cutting of blocks, and the *)
(* metadata of IODEDUP in their containers.  A behaviour is that of one.   *)
(***************************************************************************)
EXTENDS ReplayThreads, AsyncReplay, Chunking, DedupTables

VARIABLE part

MCCounters == {"ready", "start", "iter", "done", "reclaim"}
MCThreads == {"main", "sub"}

\* Two letters of two bits and words of eight: the power of the window, 10, is
\* no multiple of the word, as in the code (248 and 32).
MCBits == 2
MCWord == 8
\* t^8 + t^4 + t^3 + t + 1
MCPoly == {0, 1, 3, 4}
\* The last letter tells no boundary from another: it is the same in all.
MCContents == {k \in [1..BlockSize -> {{0}, {0, 1}}] : k[BlockSize] = {0}}
MCMask == {0, 1}
MCPrint == {1}

-----------------------------------------------------------------------------
\* What belongs to one of the builds only; both have the condition variables.
onlyDefault == <<progVars, fileVars, setup, flags>>
onlyAsync == <<waiter, senderVars, reclaimVars, deviceVars, countVars, waitVars, endVars>>
bothBuilds == <<cvVars, onlyDefault, onlyAsync>>
partsVars == <<part, bothBuilds, chunkingVars, tableVars>>

InDefault(A) ==
  part = "default" /\ A /\ UNCHANGED <<part, onlyAsync, chunkingVars, tableVars>>
InAsync(A) ==
  part = "asyncio" /\ A /\ UNCHANGED <<part, onlyDefault, chunkingVars, tableVars>>
InChunking(A) == part = "chunking" /\ A /\ UNCHANGED <<part, bothBuilds, tableVars>>
InTables(A) == part = "metadata" /\ A /\ UNCHANGED <<part, bothBuilds, chunkingVars>>

\* What the other parts would do is of no account.
PartsInit ==
  /\ part \in {"default", "asyncio", "chunking", "metadata"}
  /\ ThreadsInit /\ AsyncInit /\ ChunkingInit /\ TablesInit
  /\ part # "asyncio" => requests = 0
  /\ part # "default" =>
       /\ format = "events" /\ trace = [f \in {"warm", "sub"} |-> 0]
       /\ iterations.main = 1 /\ ~warmupflag

\* A content is chosen only where one is taken up, which its action says too.
PartsNext ==
  \/ InDefault(ThreadsNext)
  \/ InAsync(AsyncNext)
  \/ InChunking(InitRabin)
  \/ stage = "idle" /\ \E k \in Contents : InChunking(ResumeDynChunking(k))
  \/ InChunking(CutStep)
  \/ InTables(TablesNext)

PartsSpec ==
  /\ PartsInit /\ [][PartsNext]_partsVars
  /\ WF_partsVars(InDefault(MainStep))
  /\ WF_partsVars(InDefault(WarmStep))
  /\ WF_partsVars(InDefault(SubStep))
  /\ WF_partsVars(InAsync(SendStep))
  /\ WF_partsVars(InAsync(ReclaimStep))
  /\ WF_partsVars(InAsync(MainWaits))
  /\ WF_partsVars(InAsync(Complete))
  /\ WF_partsVars(InChunking(CutStep))

-----------------------------------------------------------------------------
\* The program comes to an end: no thread waits for a signal sent before it
\* began to wait, or for one that nobody sends (replay-generic.c:156-330).
DefaultEnds == part = "default" => ReplayEnds

\* With ASYNCIO the sender comes to the end of the trace however slowly
\* control blocks come back (async-replay-generic.c:286-359).
AsyncSubmitEnds == part = "asyncio" => SubmitEnds
=============================================================================
