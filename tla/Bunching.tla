------------------------------ MODULE Bunching ------------------------------
(***************************************************************************)
(* Files of bunches: how process writes one from a trace (vmbunchio:       *)
(* stream_add_io, stream_flush, stream_close) and how add_input_file and   *)
(* next_bunch read it back.                                                *)
(*                                                                         *)
(* A packet is known by its place in the trace; what matters of it is the  *)
(* time.  A file of bunches that was cut ends inside a bunch.              *)
(***************************************************************************)
EXTENDS Integers, Sequences, SequencesExt

CONSTANTS
  Times,        \* the traces: sequences of times
  MaxPkts,      \* max_pkts_per_bunch (8)
  MaxTm,        \* max_bunch_tm (10 milliseconds)
  BtMaxPkts     \* BT_MAX_PKTS (512)

ASSUME BunchingAssumption ==
  /\ Times \subseteq Seq(Nat)
  /\ BtMaxPkts \in Nat /\ MaxPkts \in 1..BtMaxPkts /\ MaxTm \in Nat

VARIABLES
  times,     \* the trace
  next,      \* the packets taken from it
  cur,       \* stream->cur, without a bunch before the first packet
  stream,    \* start_time, last_time and the counts of bunches and packets
  header,    \* nbunches and total_pkts, as the file says
  bunches,   \* the bunches in the file
  cut,       \* how much of the file is left: bunches, and whether part of the next
  read,      \* the bunches the replay was handed
  state      \* "bunching", "replay", or how it ended

bunchVars == <<times, next, cur, stream, header, bunches, cut, read, state>>

NoBunch == << >>

\* write_file_hdr; stream_open writes one without counts.
FileHdr(nbunches, pkts) == [nbunches |-> nbunches, total_pkts |-> pkts]

StreamOpen ==
  /\ times \in Times /\ next = 0 /\ cur = NoBunch
  /\ stream = [start_time |-> 0, last_time |-> 0, bunches |-> 0, pkts |-> 0]
  /\ header = FileHdr(0, 0)
  /\ bunches = << >> /\ cut = [whole |-> 0, part |-> FALSE]
  /\ read = << >> /\ state = "bunching"

\* bunch_done.
BunchDone(time) == Len(cur) >= MaxPkts \/ time - stream.start_time > MaxTm

\* stream_flush, on what the file and the counts were.
Flushed(counts) ==
  IF cur = NoBunch THEN counts
  ELSE [counts EXCEPT !.bunches = @ + 1, !.pkts = @ + Len(cur)]
Written == IF cur = NoBunch THEN bunches ELSE Append(bunches, cur)

\* vm_bunch_create and vm_bunch_add, which expects times in order.
VmBunchCreate(s, time) == [s EXCEPT !.start_time = time]
VmBunchAdd(s, bunch, time) ==
  /\ IF s.last_time # 0 /\ s.last_time > time
     THEN state' = "aborted" /\ stream' = s /\ UNCHANGED next
     ELSE stream' = [s EXCEPT !.last_time = time] /\ next' = next + 1 /\ UNCHANGED state
  /\ cur' = IF state' = "aborted" THEN bunch ELSE Append(bunch, next')

StreamAddIo ==
  /\ state = "bunching" /\ next < Len(times)
  /\ LET time == times[next + 1] IN
     IF cur = NoBunch \/ BunchDone(time)
     THEN /\ bunches' = Written
          /\ VmBunchAdd(VmBunchCreate(Flushed(stream), time), NoBunch, time)
     ELSE VmBunchAdd(stream, cur, time) /\ UNCHANGED bunches
  /\ UNCHANGED <<times, header, cut, read>>

\* stream_close takes the counts for the header before it flushes the last
\* bunch.  The file may be cut afterwards.
StreamClose ==
  /\ state = "bunching" /\ next = Len(times)
  /\ header' = FileHdr(stream.bunches, stream.pkts)
  /\ bunches' = Written
  /\ stream' = Flushed(stream)
  /\ \E n \in 0..Len(Written), part \in BOOLEAN :
       cut' = [whole |-> n, part |-> part /\ n < Len(Written)]
  /\ cur' = NoBunch /\ state' = "input"
  /\ UNCHANGED <<times, next, read>>

\* add_input_file leaves out a file whose header counts no bunches.
AddBunches ==
  /\ state = "input"
  /\ state' = IF header.nbunches = 0 THEN "left out" ELSE "replay"
  /\ UNCHANGED <<times, next, cur, stream, header, bunches, cut, read>>

\* Faulty variant: a bunch that is cut short is taken as it is.
GetVmbunchShort(i) == bunches[i]
\* get_vmbunch: the packets of a bunch, or the end of the file among them.
GetVmbunch(i) == IF i <= cut.whole THEN bunches[i] ELSE << >>

\* next_bunch: nothing is left, or less than a bunch ends the program.
NextBunch ==
  /\ state = "replay"
  /\ LET i == Len(read) + 1 IN
     IF i > cut.whole /\ ~cut.part THEN state' = "ended" /\ UNCHANGED read
     ELSE IF Len(GetVmbunch(i)) < Len(bunches[i]) THEN state' = "fatal" /\ UNCHANGED read
     ELSE read' = Append(read, GetVmbunch(i)) /\ UNCHANGED state
  /\ UNCHANGED <<times, next, cur, stream, header, bunches, cut>>

BunchingNext == StreamAddIo \/ StreamClose \/ AddBunches \/ NextBunch

BunchingSpec == StreamOpen /\ [][BunchingNext]_bunchVars

-----------------------------------------------------------------------------
\* What is replayed is the trace: the packets in their order, none twice and
\* none of a bunch that is not whole, in bunches that are no larger and last
\* no longer than they may; and all of it, if the file is whole, but for a trace
\* that fits in one bunch, which may be left out (vmfile-bunching.c:49-155,
\* vmbunching-generic.c:100-112, replay-generic.c:200-330, per-input-file.c:196).
BunchesKeepTrace ==
  LET packets == FlattenSeq(read) IN
  /\ packets = [i \in 1..Len(packets) |-> i]
  /\ \A i \in DOMAIN read :
       /\ i <= cut.whole
       /\ Len(read[i]) \in 1..MaxPkts
       /\ times[Last(read[i])] - times[Head(read[i])] <= MaxTm
  /\ state = "ended" /\ cut.whole = Len(bunches) => Len(packets) = Len(times)
  /\ state = "fatal" => cut.part
  /\ state = "left out" /\ times # << >> =>
       Len(times) <= MaxPkts /\ times[Len(times)] - times[1] <= MaxTm

\* "@nbunches: Number of bunches put into the file" (vmbunching_structs.h:18):
\* the header of a file that was closed counts the bunches behind it.
HeaderCounts ==
  state \notin {"bunching", "aborted"} => header.nbunches = Len(bunches)
=============================================================================
