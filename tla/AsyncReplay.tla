---------------------------- MODULE AsyncReplay ----------------------------
(***************************************************************************)
(* The asynchronous replay of a program built with ASYNCIO: a sender maps  *)
(* requests to packets and submits them (asyncio/async-replay-generic.c,   *)
(* iocbs.c), a reclaimer collects the completed ones and makes their       *)
(* control blocks free again (reclaim-generic.c), and main waits for both. *)
(* The two threads of a trace share a mutex and ONE condition variable;    *)
(* each critical section is a step.  The device completes packets in any   *)
(* order and at any time, also before the sender has counted them.         *)
(*                                                                         *)
(* Control blocks are alike, so the free and used lists are their lengths. *)
(* The handshake that starts the iteration is that of ReplayThreads.       *)
(***************************************************************************)
EXTENDS CondVars

CONSTANTS
  naios,          \* control blocks
  MaxAsyncRequests,    \* bound: the requests of the trace
  MaxPackets      \* bound: the packets that a request is mapped to (num_vop)

ASSUME AsyncAssumption ==
  /\ naios \in Nat \ {0}
  /\ MaxAsyncRequests \in Nat /\ MaxPackets \in Nat
  /\ {"done", "reclaim"} \subseteq Counters
  /\ "main" \in Threads

VARIABLES
  waiter, sender, rec,            \* program counters of main, sender and reclaimer
  requests, packets,         \* requests not yet taken up; packets left of this one
  ntodo,                     \* packets in the list of the sender
  naiosFree, naiosOut,       \* naios_free, naios_out: free, and known to be submitted
  kernel, ready,             \* packets under way, and completed
  recOut, ndone,             \* the reclaimer's naios_out, and the events it has
  sendWait, reapWait, tipAsleep,   \* the waits under tip->cond
  sendDone, interrupted, aborted

senderVars == <<sender, requests, packets, ntodo>>
reclaimVars == <<rec, recOut, ndone>>
deviceVars == <<kernel, ready>>
countVars == <<naiosFree, naiosOut>>
waitVars == <<sendWait, reapWait, tipAsleep>>
endVars == <<sendDone, interrupted, aborted>>
asyncVars == <<cvVars, waiter, senderVars, reclaimVars, deviceVars, countVars,
               waitVars, endVars>>

\* pthread_cond_signal(&tip->cond) where a thread has announced its wait
TipSignal(waits) ==
  IF waits /\ tipAsleep # {}
  THEN \E t \in tipAsleep : tipAsleep' = tipAsleep \ {t}
  ELSE UNCHANGED tipAsleep

Min2(a, b) == IF a < b THEN a ELSE b

AsyncInit ==
  /\ CvInit
  /\ waiter = "done" /\ sender = "next" /\ rec = "check"
  /\ requests \in 0..MaxAsyncRequests /\ packets = 0 /\ ntodo = 0
  /\ naiosFree = naios /\ naiosOut = 0
  /\ kernel = 0 /\ ready = 0
  /\ recOut = 0 /\ ndone = 0
  /\ sendWait = FALSE /\ reapWait = FALSE /\ tipAsleep = {}
  /\ sendDone = FALSE /\ interrupted = FALSE /\ aborted = FALSE

-----------------------------------------------------------------------------
\* The sender.
SenderAt(here) == ~aborted /\ sender = here /\ "sub" \notin tipAsleep
SenderOnly == UNCHANGED <<waiter, reclaimVars, interrupted>>

\* async_map_n_process_bunch: a request is mapped to packets.
NextPacket ==
  /\ SenderAt("next")
  /\ requests > 0 /\ ~interrupted
  /\ requests' = requests - 1
  /\ packets' \in 1..MaxPackets
  /\ sender' = "free"
  /\ SenderOnly
  /\ UNCHANGED <<cvVars, ntodo, deviceVars, countVars, waitVars, sendDone, aborted>>

AsyncTraceEnds ==
  /\ SenderAt("next")
  /\ requests = 0 \/ interrupted
  /\ sender' = "finish"
  /\ SenderOnly
  /\ UNCHANGED <<cvVars, requests, packets, ntodo, deviceVars, countVars, waitVars,
                 sendDone, aborted>>

\* nfree_current sleeps until a control block is free; it returns 0 when a
\* signal has come, and the caller asserts that it did not.
NFreeSleeps ==
  /\ SenderAt("free")
  /\ ~interrupted /\ naiosFree = 0
  /\ sendWait' = TRUE
  /\ tipAsleep' = tipAsleep \cup {"sub"}
  /\ SenderOnly
  /\ UNCHANGED <<cvVars, senderVars, deviceVars, countVars, reapWait, sendDone, aborted>>

NFreeCurrent ==
  /\ SenderAt("free")
  /\ interrupted \/ naiosFree > 0
  /\ ntodo' = IF interrupted THEN 0 ELSE Min2(naiosFree, packets)
  /\ aborted' = (ntodo' = 0)
  /\ sender' = "map"
  /\ SenderOnly
  /\ UNCHANGED <<cvVars, requests, packets, deviceVars, countVars, waitVars, sendDone>>

\* iocbs_map: control blocks go from the free to the used list.
IocbsMap ==
  /\ SenderAt("map")
  /\ naiosFree' = naiosFree - ntodo
  /\ sender' = "submit"
  /\ SenderOnly
  /\ UNCHANGED <<cvVars, requests, packets, ntodo, deviceVars, naiosOut, waitVars,
                 sendDone, aborted>>

IoSubmit ==
  /\ SenderAt("submit")
  /\ kernel' = kernel + ntodo
  /\ sender' = "count"
  /\ SenderOnly
  /\ UNCHANGED <<cvVars, requests, packets, ntodo, ready, countVars, waitVars,
                 sendDone, aborted>>

\* The packets are counted as outstanding after they were submitted, and the
\* reclaimer is woken.
CountSubmitted ==
  /\ SenderAt("count")
  /\ naiosOut' = naiosOut + ntodo
  /\ packets' = packets - ntodo
  /\ reapWait' = FALSE
  /\ TipSignal(reapWait)
  /\ sender' = IF packets' > 0 THEN "free" ELSE "next"
  /\ SenderOnly
  /\ UNCHANGED <<cvVars, requests, ntodo, naiosFree, deviceVars, sendWait, sendDone, aborted>>

\* async_replay_sub: send_done is set outside the mutex.
Finish ==
  /\ SenderAt("finish")
  /\ sendDone' = TRUE
  /\ sender' = "done"
  /\ SenderOnly
  /\ UNCHANGED <<cvVars, requests, packets, ntodo, deviceVars, countVars, waitVars, aborted>>

SenderSetDone ==
  /\ SenderAt("done")
  /\ SetCv("done")
  /\ sender' = "ended"
  /\ SenderOnly
  /\ UNCHANGED <<requests, packets, ntodo, deviceVars, countVars, waitVars, sendDone, aborted>>

-----------------------------------------------------------------------------
\* The reclaimer.
RecAt(here) == ~aborted /\ rec = here /\ "rec" \notin tipAsleep
RecOnly == UNCHANGED <<waiter, senderVars, endVars>>

\* is_reap_done, without the mutex
ReapDone == sendDone /\ naiosOut = 0

ReapCheck ==
  /\ RecAt("check")
  /\ rec' = IF ReapDone THEN "done" ELSE "wait"
  /\ RecOnly
  /\ UNCHANGED <<cvVars, recOut, ndone, deviceVars, countVars, waitVars>>

\* reap_wait_aios: the sleeper looks at naios_out, and not at send_done.
ReapSleeps ==
  /\ RecAt("wait")
  /\ naiosOut = 0
  /\ reapWait' = TRUE
  /\ tipAsleep' = tipAsleep \cup {"rec"}
  /\ RecOnly
  /\ UNCHANGED <<cvVars, reclaimVars, deviceVars, countVars, sendWait>>

ReapWaitAios ==
  /\ RecAt("wait")
  /\ naiosOut > 0
  /\ recOut' = naiosOut
  /\ rec' = "events"
  /\ RecOnly
  /\ UNCHANGED <<cvVars, ndone, deviceVars, countVars, waitVars>>

\* io_getevents: at least one event, and no more than are known to be out.
GetEvents ==
  /\ RecAt("events")
  /\ \E n \in 1..Min2(ready, recOut) : ndone' = n /\ ready' = ready - n
  /\ rec' = "reclaim"
  /\ RecOnly
  /\ UNCHANGED <<cvVars, recOut, kernel, countVars, waitVars>>

\* Faulty variant: the control blocks are reclaimed but the sender not told.
ReclaimSilently ==
  /\ RecAt("reclaim")
  /\ naiosFree' = naiosFree + ndone
  /\ naiosOut' = naiosOut - ndone
  /\ recOut' = Min2(recOut, naiosOut')
  /\ rec' = IF recOut' > 0 THEN "events" ELSE "check"
  /\ ndone' = 0
  /\ RecOnly
  /\ UNCHANGED <<cvVars, deviceVars, waitVars>>

\* Faulty variant: the events that could be had are taken as the ones had.
ReclaimAllKnown ==
  /\ RecAt("reclaim")
  /\ naiosFree' = naiosFree + recOut
  /\ naiosOut' = naiosOut - recOut
  /\ recOut' = 0
  /\ rec' = "check"
  /\ ndone' = 0
  /\ sendWait' = FALSE
  /\ TipSignal(sendWait)
  /\ RecOnly
  /\ UNCHANGED <<cvVars, deviceVars, reapWait>>

\* reclaim_ios
ReclaimIos ==
  /\ RecAt("reclaim")
  /\ naiosFree' = naiosFree + ndone
  /\ naiosOut' = naiosOut - ndone
  /\ recOut' = Min2(recOut, naiosOut')
  /\ rec' = IF recOut' > 0 THEN "events" ELSE "check"
  /\ ndone' = 0
  /\ sendWait' = FALSE
  /\ TipSignal(sendWait)
  /\ RecOnly
  /\ UNCHANGED <<cvVars, deviceVars, reapWait>>

\* replay_rec
SetReclaimDone ==
  /\ RecAt("done")
  /\ SetCv("reclaim")
  /\ rec' = "ended"
  /\ RecOnly
  /\ UNCHANGED <<recOut, ndone, deviceVars, countVars, waitVars>>

-----------------------------------------------------------------------------
\* Main: wait_replays_done, wait_reclaims_done.
WaiterOnly == UNCHANGED <<senderVars, reclaimVars, deviceVars, countVars, waitVars, endVars>>

MainWaits ==
  /\ ~aborted /\ Awake("main")
  /\ waiter \in {"done", "reclaim"}
  /\ IF MustSleep(waiter, 1)
     THEN Sleep(waiter, "main") /\ UNCHANGED waiter
     ELSE TakeCv(waiter) /\ waiter' = IF waiter = "done" THEN "reclaim" ELSE "exits"
  /\ WaiterOnly

\* The device, and what may go wrong.
Complete ==
  /\ ~aborted /\ kernel > 0
  /\ kernel' = kernel - 1
  /\ ready' = ready + 1
  /\ UNCHANGED <<cvVars, waiter, senderVars, reclaimVars, countVars, waitVars, endVars>>

InterruptAsync ==
  /\ ~aborted
  /\ interrupted' = TRUE
  /\ UNCHANGED <<cvVars, waiter, senderVars, reclaimVars, deviceVars, countVars,
                 waitVars, sendDone, aborted>>

\* io_submit fails, or an event reports a short transfer: fatal.
IoFails ==
  /\ SenderAt("submit") \/ RecAt("reclaim")
  /\ aborted' = TRUE
  /\ UNCHANGED <<cvVars, waiter, senderVars, reclaimVars, deviceVars, countVars,
                 waitVars, sendDone, interrupted>>

TipSpurious ==
  /\ ~aborted
  /\ \/ \E t \in tipAsleep : tipAsleep' = tipAsleep \ {t} /\ UNCHANGED cvVars
     \/ WakeSpuriously("main") /\ UNCHANGED tipAsleep
  /\ UNCHANGED <<waiter, senderVars, reclaimVars, deviceVars, countVars, sendWait,
                 reapWait, endVars>>

SendStep ==
  \/ NextPacket \/ AsyncTraceEnds \/ NFreeSleeps \/ NFreeCurrent \/ IocbsMap
  \/ IoSubmit \/ CountSubmitted \/ Finish \/ SenderSetDone
ReclaimStep ==
  \/ ReapCheck \/ ReapSleeps \/ ReapWaitAios \/ GetEvents \/ ReclaimIos
  \/ SetReclaimDone

AsyncNext ==
  \/ SendStep \/ ReclaimStep \/ MainWaits
  \/ Complete \/ InterruptAsync \/ IoFails \/ TipSpurious

\* The threads are scheduled, and the device completes what it was given.
AsyncSpec ==
  /\ AsyncInit /\ [][AsyncNext]_asyncVars
  /\ WF_asyncVars(SendStep) /\ WF_asyncVars(ReclaimStep)
  /\ WF_asyncVars(MainWaits) /\ WF_asyncVars(Complete)

-----------------------------------------------------------------------------
\* Every control block is free, in the sender's list or outstanding, and every
\* packet outstanding is with the device, completed or being reclaimed, though
\* a packet may complete, and be reclaimed in place of another, before the
\* sender has counted it (the assertions on naios_out, naios_free and
\* slist_len at async-replay-generic.c:188, iocbs.c:127 and 158).
Held == IF sender \in {"submit", "count"} THEN ntodo ELSE 0
Uncounted == IF sender = "count" THEN ntodo ELSE 0
IocbsAccounted ==
  /\ naiosFree >= 0 /\ naiosOut >= 0
  /\ naiosFree + naiosOut + Held = naios
  /\ kernel + ready + ndone = naiosOut + Uncounted

\* The sender gets through the trace however few control blocks there are: it
\* and the reclaimer never both sleep on their condition variable, and neither
\* misses the other's signal.
SubmitEnds == <>(aborted \/ sender = "ended")

\* The replay ends: reap_wait_aios "will return 0 if we are done"
\* (reclaim-generic.c:64), and main gets past wait_reclaims_done.
ReclaimEnds == <>(aborted \/ waiter = "exits")
=============================================================================
