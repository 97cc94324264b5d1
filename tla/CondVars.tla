------------------------------ MODULE CondVars ------------------------------
(***************************************************************************)
(* The counters that threads wait for under condition variables            *)
(* (generic-replay/replay-generic.c): each has a mutex and a condition     *)
(* variable of its own, so a critical section is one step.  Operators      *)
(* constrain counter' and asleep'; a signal wakes one sleeper, who looks   *)
(* at the counter again, and POSIX lets a sleeper wake without one.        *)
(***************************************************************************)
EXTENDS Integers

CONSTANTS
  Counters,   \* the counters under condition variables
  Threads     \* the threads that may wait for them

VARIABLES
  counter,    \* the value of each counter
  asleep      \* the threads in pthread_cond_wait, by counter

cvVars == <<counter, asleep>>

CvInit ==
  /\ counter = [c \in Counters |-> 0]
  /\ asleep = [c \in Counters |-> {}]

Awake(t) == \A c \in Counters : t \notin asleep[c]

\* pthread_cond_signal
Signal(c) ==
  \E T \in SUBSET asleep[c] :
    /\ asleep' = [asleep EXCEPT ![c] = @ \ T]
    /\ T = {} <=> asleep[c] = {}
    /\ \A s, t \in T : s = t

\* Faulty variant: nobody is woken.
SetCvSilently(c) ==
  /\ counter' = [counter EXCEPT ![c] = @ + 1]
  /\ UNCHANGED asleep

\* __set_cv, where the assertion on the maximum holds
CanSet(c, mxv) == counter[c] < mxv
SetCv(c) ==
  /\ counter' = [counter EXCEPT ![c] = @ + 1]
  /\ Signal(c)

Sleep(c, t) ==
  /\ asleep' = [asleep EXCEPT ![c] = @ \cup {t}]
  /\ UNCHANGED counter

\* __wait_cv: the thread sleeps until the counter has the value, resets it ...
MustSleep(c, mxv) == counter[c] < mxv
TakeCv(c) == counter' = [counter EXCEPT ![c] = 0] /\ UNCHANGED asleep

\* ... and, in wait_iter_start, decrements it.
TakeOne(c) == counter' = [counter EXCEPT ![c] = @ - 1] /\ UNCHANGED asleep

\* start_iter: all are woken.
SetAll(c, n) ==
  /\ counter' = [counter EXCEPT ![c] = n]
  /\ asleep' = [asleep EXCEPT ![c] = {}]

WakeSpuriously(t) ==
  /\ ~Awake(t)
  /\ asleep' = [c \in Counters |-> asleep[c] \ {t}]
  /\ UNCHANGED counter
=============================================================================
