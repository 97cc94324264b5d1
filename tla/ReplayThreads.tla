--------------------------- MODULE ReplayThreads ---------------------------
(***************************************************************************)
(* The threads of a replay: main, which hands out iterations and waits for *)
(* them; the warm-up thread, which tip_init joins before it creates the    *)
(* replay thread; and the replay thread.  They share the caches and the    *)
(* metadata without a lock.  A termination signal may arrive at any time.  *)
(* One trace file is replayed, as main adds one (add_input_file); a trace  *)
(* of bunches without a bunch is not added at all, and then main has no    *)
(* thread to wait for.                                                     *)
(*                                                                         *)
(* A request is its number in the trace.  What is left of a file is the    *)
(* number of requests before its end.                                      *)
(***************************************************************************)
EXTENDS CondVars

CONSTANTS
  MaxRequests,         \* bound: the requests of a trace
  BunchIterations,     \* bound: the iterations of a trace of bunches ...
  EventIterations      \* ... and of a trace of events

ASSUME ThreadsAssumption ==
  /\ {"ready", "start", "iter", "done"} \subseteq Counters
  /\ {"main", "sub"} \subseteq Threads
  /\ {MaxRequests, BunchIterations, EventIterations} \subseteq Nat

VARIABLES
  main, warm, sub,     \* program counters; a thread not yet created is "none"
  iterations,          \* iterations that main, the warm-up and the replay have left
  format,              \* whether the trace is a file of "bunches" or of "events"
  trace,               \* the requests in each of the two trace files
  ifd,                 \* the offset in each file, as the number of requests passed
  aligned,             \* whether the replay's offset is the start of a request
  current, replayed,   \* the request in progress, the last one of this iteration
  warmupflag, signalDone, died

progVars == <<main, warm, sub, iterations>>
fileVars == <<ifd, aligned, current, replayed>>
setup == <<format, trace>>
flags == <<warmupflag, signalDone, died>>
threadVars == <<cvVars, progVars, fileVars, setup, flags>>

\* add_input_file: an empty file of bunches is closed again.
nfiles == IF format = "bunches" /\ trace.sub = 0 THEN 0 ELSE 1

ThreadsInit ==
  /\ CvInit
  /\ main = "create" /\ warm = "none" /\ sub = "none"
  /\ format \in {"bunches", "events"}
  /\ \E n \in 1..(IF format = "bunches" THEN BunchIterations ELSE EventIterations) :
       iterations = [main |-> n, warm |-> n, sub |-> n]
  /\ trace \in [{"warm", "sub"} -> 0..MaxRequests]
  /\ ifd = [f \in {"warm", "sub"} |-> 0]
  /\ aligned = TRUE
  /\ current = 0 /\ replayed = 0
  /\ warmupflag \in BOOLEAN
  /\ signalDone = FALSE /\ died = FALSE

-----------------------------------------------------------------------------
\* Main.  The steps of a thread that is not asleep in a process still alive.
MainAt(here, there) ==
  /\ ~died /\ Awake("main")
  /\ main = here
  /\ main' = there

MainOnly == UNCHANGED <<warm, sub, iterations, fileVars, setup, flags>>

\* tip_init: with a warm-up, its thread comes first ...
CreateWarmup ==
  /\ nfiles = 1 /\ warmupflag
  /\ MainAt("create", "join")
  /\ warm' = "next"
  /\ iterations' = [iterations EXCEPT !.warm = @ - 1]
  /\ UNCHANGED <<cvVars, sub, fileVars, setup, flags>>

\* Faulty variant: the replay does not wait for the end of the warm-up.
JoinNothing ==
  /\ MainAt("join", "create")
  /\ warmupflag' = FALSE
  /\ UNCHANGED <<cvVars, warm, sub, iterations, fileVars, setup, signalDone, died>>

\* ... and is joined before the flag is reset ...
JoinWarmup ==
  /\ warm = "ended"
  /\ MainAt("join", "create")
  /\ warmupflag' = FALSE
  /\ UNCHANGED <<cvVars, warm, sub, iterations, fileVars, setup, signalDone, died>>

\* ... and the replay thread created.
CreateReplay ==
  /\ nfiles = 1 /\ ~warmupflag
  /\ MainAt("create", "ready")
  /\ sub' = "ready"
  /\ UNCHANGED <<cvVars, warm, iterations, fileVars, setup, flags>>

CreateNone ==
  /\ nfiles = 0
  /\ MainAt("create", "ready")
  /\ UNCHANGED cvVars /\ MainOnly

\* wait_replays_ready, wait_iters_done, wait_replays_done
MainSleeps ==
  \E c \in {"ready", "iter", "done"} :
    /\ MainAt(c, c)
    /\ MustSleep(c, nfiles)
    /\ Sleep(c, "main") /\ MainOnly

MainTakes(c, next) ==
  /\ MainAt(c, next)
  /\ ~MustSleep(c, nfiles)
  /\ TakeCv(c)

WaitReplaysReady == MainTakes("ready", "start") /\ MainOnly

\* The loop over def_iterations.
StartIter ==
  /\ iterations.main > 0
  /\ MainAt("start", "iter")
  /\ iterations' = [iterations EXCEPT !.main = @ - 1]
  /\ IF counter["start"] = 0
     THEN SetAll("start", nfiles) /\ UNCHANGED died
     ELSE died' = TRUE /\ UNCHANGED cvVars
  /\ UNCHANGED <<warm, sub, fileVars, setup, warmupflag, signalDone>>

WaitItersDone == MainTakes("iter", "start") /\ MainOnly

AfterIterations ==
  /\ iterations.main = 0
  /\ MainAt("start", "done")
  /\ UNCHANGED cvVars /\ MainOnly

WaitReplaysDone == MainTakes("done", "release") /\ MainOnly

\* rem_input_files: tip_release joins the replay thread.
RemInputFiles ==
  /\ nfiles = 1 => sub = "ended"
  /\ MainAt("release", "exited")
  /\ UNCHANGED cvVars /\ MainOnly

-----------------------------------------------------------------------------
\* sim_warmup_sub.  Its file is not rewound between iterations.
WarmAt(here) == ~died /\ warm = here
WarmOnly == UNCHANGED <<cvVars, main, sub, aligned, current, replayed, setup, flags>>

WarmNext ==
  /\ WarmAt("next")
  /\ ~signalDone /\ ifd["warm"] < trace["warm"]
  /\ warm' = "process"
  /\ ifd' = [ifd EXCEPT !["warm"] = @ + 1]
  /\ WarmOnly /\ UNCHANGED iterations

WarmProcess ==
  /\ WarmAt("process")
  /\ warm' = "next"
  /\ WarmOnly /\ UNCHANGED <<ifd, iterations>>

WarmIterationEnds ==
  /\ WarmAt("next")
  /\ signalDone \/ ifd["warm"] = trace["warm"]
  /\ IF iterations.warm > 0
     THEN iterations' = [iterations EXCEPT !.warm = @ - 1] /\ UNCHANGED warm
     ELSE warm' = "ended" /\ UNCHANGED iterations
  /\ WarmOnly /\ UNCHANGED ifd

-----------------------------------------------------------------------------
\* sim_replay_sub
SubAt(here, there) ==
  /\ ~died /\ Awake("sub")
  /\ sub = here
  /\ sub' = there

SubOnly == UNCHANGED <<main, warm, setup, warmupflag, signalDone>>

\* set_replay_ready, set_iter_done, set_replay_done
SubSets(c, next) ==
  /\ SubAt(c, next)
  /\ IF CanSet(c, nfiles)
     THEN SetCv(c) /\ UNCHANGED died
     ELSE died' = TRUE /\ UNCHANGED cvVars
  /\ SubOnly /\ UNCHANGED <<iterations, fileVars>>

SetReplayReady == SubSets("ready", "loop")
SetIterDone == SubSets("iter", "reset")
SetReplayDone == SubSets("done", "ended")

\* The loop over tip->iterations, and wait_iter_start.
Loop ==
  /\ SubAt("loop", IF iterations.sub > 0 THEN "start" ELSE "done")
  /\ iterations' = [iterations EXCEPT !.sub = @ - 1]
  /\ SubOnly /\ UNCHANGED <<cvVars, fileVars, died>>

SubSleeps ==
  /\ SubAt("start", "start")
  /\ MustSleep("start", 1)
  /\ Sleep("start", "sub")
  /\ SubOnly /\ UNCHANGED <<iterations, fileVars, died>>

WaitIterStart ==
  /\ SubAt("start", "next")
  /\ ~MustSleep("start", 1)
  /\ TakeOne("start")
  /\ replayed' = 0
  /\ SubOnly /\ UNCHANGED <<iterations, ifd, aligned, current, died>>

\* The next bunch of the trace, or the next event, is read.
ReadNext ==
  /\ ifd["sub"] < trace["sub"]
  /\ ifd' = [ifd EXCEPT !["sub"] = @ + 1]
  /\ current' = ifd["sub"] + 1

\* next_record, off a boundary: no magic number is found.
NextRecordFails == current' = 0 /\ UNCHANGED ifd

NextBunch ==
  /\ format = "bunches"
  /\ SubAt("next", "process")
  /\ ~signalDone
  /\ ReadNext
  /\ SubOnly /\ UNCHANGED <<cvVars, iterations, aligned, replayed, died>>

\* next_io_tip, whose LOG_ERR is taken for TRUE: a request without content
\* follows an error.
NextIoTip ==
  /\ format = "events"
  /\ SubAt("next", "process")
  /\ ~signalDone
  /\ IF aligned THEN ReadNext ELSE NextRecordFails
  /\ SubOnly /\ UNCHANGED <<cvVars, iterations, aligned, replayed, died>>

\* convert_spec_to_bunch, which needs a content, and sim_map_n_process_bunch
Process ==
  /\ SubAt("process", "next")
  /\ replayed' = current
  /\ died' = (current = 0)
  /\ SubOnly /\ UNCHANGED <<cvVars, iterations, ifd, aligned, current>>

TraceEnds ==
  /\ SubAt("next", "iter")
  /\ signalDone \/ (aligned /\ ifd["sub"] = trace["sub"])
  /\ SubOnly /\ UNCHANGED <<cvVars, iterations, fileVars, died>>

\* Faulty variant: the header is read again, but from where the file is.
ResetWithoutSeek ==
  /\ SubAt("reset", "loop")
  /\ SubOnly /\ UNCHANGED <<cvVars, iterations, fileVars, died>>

\* reset_input_file: a header is read whatever the format; a file of events
\* has none.
ResetInputFile ==
  /\ SubAt("reset", "loop")
  /\ ifd' = [ifd EXCEPT !["sub"] = 0]
  /\ aligned' = (format = "bunches")
  /\ died' = (trace["sub"] = 0)
  /\ SubOnly /\ UNCHANGED <<cvVars, iterations, current, replayed>>

-----------------------------------------------------------------------------
\* set_signal_done
Interrupt ==
  /\ ~died /\ main # "exited"
  /\ signalDone' = TRUE
  /\ UNCHANGED <<cvVars, progVars, fileVars, setup, warmupflag, died>>

Spurious ==
  /\ ~died
  /\ \E t \in Threads : WakeSpuriously(t)
  /\ UNCHANGED <<progVars, fileVars, setup, flags>>

Ended == died \/ main = "exited"

MainStep ==
  \/ CreateWarmup \/ JoinWarmup \/ CreateReplay \/ CreateNone
  \/ MainSleeps \/ WaitReplaysReady \/ StartIter \/ WaitItersDone
  \/ AfterIterations \/ WaitReplaysDone \/ RemInputFiles
WarmStep == WarmNext \/ WarmProcess \/ WarmIterationEnds
SubStep ==
  \/ SetReplayReady \/ Loop \/ SubSleeps \/ WaitIterStart \/ NextBunch
  \/ NextIoTip \/ Process \/ TraceEnds \/ SetIterDone \/ ResetInputFile \/ SetReplayDone

ThreadsNext ==
  \/ MainStep \/ WarmStep \/ SubStep
  \/ Interrupt \/ Spurious
  \/ Ended /\ UNCHANGED threadVars

\* Each thread is scheduled; signals and spurious wake-ups may never come.
ThreadsSpec ==
  /\ ThreadsInit /\ [][ThreadsNext]_threadVars
  /\ WF_threadVars(MainStep) /\ WF_threadVars(WarmStep) /\ WF_threadVars(SubStep)

-----------------------------------------------------------------------------
\* The warm-up and the replay are never at work together: they use the same
\* caches, maps and counters, and none of these has a lock.  While the warm-up
\* is at work warmupflag is set, and reset before the first request replayed;
\* no request is counted or cached as one of the other.
WarmupApart ==
  /\ warm \in {"next", "process"} => warmupflag /\ sub = "none"
  /\ sub # "none" => ~warmupflag /\ warm \in {"none", "ended"}
  /\ sub \in {"next", "process"} => main = "iter"

\* An iteration replays the trace from its first request to its last ("The
\* same input file can be replayed multiple number of times",
\* main_sim_replay.c:1489; "a dummy read of the file header to get us to the
\* first bunch", per-input-file.c:462), unless a signal cuts it short.
IterationsWhole ==
  /\ sub = "process" => current = replayed + 1
  /\ sub = "iter" /\ ~signalDone => replayed = trace["sub"]

\* The program comes to an end: no thread waits for a signal sent before it
\* began to wait, or for one that nobody sends.
ReplayEnds == <>Ended
=============================================================================
