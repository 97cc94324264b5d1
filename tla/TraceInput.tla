----------------------------- MODULE TraceInput -----------------------------
(***************************************************************************)
(* The reading of traces of events: read_data, next_record and             *)
(* interpret_event (pddparse), and the three passes that read records: the *)
(* scan of a trace (next_io; scandisk.c, fscandisk.c), the warm-up and the *)
(* replay (next_io_tip; sim-replay-generic.c).                             *)
(*                                                                         *)
(* A file is made of cells, which a read returns one or more of.  A record *)
(* has a header (trace_event_element), a body of elt_len bytes and, if its *)
(* content was preprocessed, the rest of its content.  A file may end      *)
(* anywhere, and may have a trailer, the number of its bytes.  What a      *)
(* block number is for depends on the mode: after a scan, blocks are       *)
(* numbered in the order of the trace, by the scan and again by the replay.*)
(***************************************************************************)
EXTENDS Integers, Sequences, FiniteSets

CONSTANTS
  Traces,      \* files: [recs, trailer, size], size the cells there are
  Warmups,     \* the files to warm the caches up with, one without records for none
  Vms,         \* the virtual machines in the traces
  HeaderCells, BodyCells, RestCells, TrailerCells

Records == [event : STRING, vm : Vms, whole : BOOLEAN,
            contentflag : Int, bytes : Nat, time : Nat]

\* Only contents that the parsers go on to read were preprocessed.
ASSUME TraceAssumption ==
  /\ {HeaderCells, BodyCells, RestCells} \subseteq Nat \ {0}
  /\ \A f \in Traces \cup Warmups :
       /\ f \in [recs : Seq(Records), trailer : BOOLEAN, size : Nat]
       /\ \A i \in DOMAIN f.recs :
            f.recs[i].whole \/ f.recs[i].event \in {"SFN", "SFD", "OFNW", "OFDW"}

VARIABLES
  trace, warm,    \* the files
  enabled,        \* the kinds of requests that are enabled
  scanner,        \* "p" and "f" scan the trace, "none" does not
  pass,           \* which pass reads
  phase,          \* what read_data was called for
  pos, left,      \* the offset in the file, and what is still to read
  rec,            \* the record being read
  spec,           \* what the pass keeps of the records before
  scanned,        \* what the scan was handed: record, number, flag
  handed,         \* what the replay was handed: record, number
  blkidx,         \* the blocks of each machine numbered so far
  genesis,        \* the time of the first record of the scan
  errors,         \* whether a pass was handed an error
  status          \* "running", or how the passes ended

fileVars == <<trace, warm, enabled, scanner>>
readVars == <<phase, pos, left, rec>>
passVars == <<pass, spec, scanned, handed, blkidx, genesis, errors, status>>
traceVars == <<fileVars, readVars, passVars>>

file == IF pass = "warmup" THEN warm ELSE trace

CellsOf(r) == HeaderCells + BodyCells + (IF r.whole THEN 0 ELSE RestCells)
StartOf(f, i) ==
  LET start[j \in 1..(Len(f.recs) + 1)] ==
        IF j = 1 THEN 0 ELSE start[j - 1] + CellsOf(f.recs[j - 1])
  IN  start[i]
TrailerOf(f) == StartOf(f, Len(f.recs) + 1)
WholeIn(f, i) == StartOf(f, i + 1) <= f.size

NoNumbers == [v \in Vms |-> 0]
HasWarmup == warm.recs # << >>

\* What a pass keeps: of no record, of one without content, of one.
Unset == [rec |-> -1, rw |-> "none"]
Kept(i) == [rec |-> i, rw |-> "none"]

TraceInit ==
  /\ trace \in Traces /\ warm \in Warmups
  /\ enabled \in SUBSET {"read", "write"} \ {{}}
  /\ scanner \in {"p", "f", "none"}
  /\ pass = CASE scanner # "none" -> "scan" [] HasWarmup -> "warmup" [] OTHER -> "replay"
  /\ phase = "header" /\ pos = 0 /\ left = HeaderCells /\ rec = 0
  /\ spec = Unset
  /\ scanned = << >> /\ handed = << >>
  /\ blkidx = NoNumbers /\ genesis = 0 /\ errors = FALSE
  /\ status = "running"

-----------------------------------------------------------------------------
\* interpret_event and the parsers: "more" if the content goes on after the body.
ParseOFW(r) == IF r.whole THEN "done" ELSE "more"
ParseSF(r) == IF r.whole THEN "done" ELSE "more"
ParseCFW(r) == IF r.contentflag < 0 THEN "error" ELSE "done"
Interpret(r) ==
  CASE r.event \in {"SFN", "SFD"} -> ParseSF(r)
    [] r.event = "CFNW" -> ParseCFW(r)
    [] r.event \in {"OFNW", "OFDW"} -> ParseOFW(r)
    [] r.event \in {"SZ", "DFR", "CFR", "OFR"} -> "done"
    [] OTHER -> "error"

\* verify_replayready.
ReplayReady(r) ==
  /\ r.event \in {"OFR", "CFR", "CFNW", "OFNW", "OFDW"}
  /\ r.event = "OFDW" => r.contentflag # 0

NextPass == CASE pass = "scan" /\ HasWarmup -> "warmup" [] pass = "replay" -> "over"
              [] OTHER -> "replay"

\* The next call of next_record, at an offset of the file or of the next.
ReadsOn(offset) == phase' = "header" /\ pos' = offset /\ left' = HeaderCells /\ rec' = 0
PassEnds(numbers) ==
  /\ pass' = NextPass /\ ReadsOn(0) /\ spec' = Unset
  /\ blkidx' = numbers
  /\ status' = IF pass' = "over" THEN "ended" ELSE status
Stops(how) == status' = how /\ UNCHANGED <<readVars, pass, spec, scanned, handed, blkidx>>

-----------------------------------------------------------------------------
\* The scan.  next_io: a record that is not ready for a replay counts as an
\* error, one older than the first ends the program.
HasContent(i) == trace.recs[i].event # "OFR"

\* Faulty variant: all machines are numbered together.
ScanNumberTogether(r) == Len(scanned)
\* The number the scan gives a block.
ScanNumber(r) == blkidx[r.vm]

Scanned(i, flag) ==
  /\ scanned' = Append(scanned, [rec |-> i, number |-> ScanNumber(trace.recs[i]), flag |-> flag])
  /\ blkidx' = [blkidx EXCEPT ![trace.recs[i].vm] = @ + 1]

\* pro_scan_trace_and_process looks one record ahead, to know the last block.
ProScan(i, offset) ==
  CASE spec.rec = -1 ->
         /\ spec' = Kept(IF i > 0 /\ HasContent(i) THEN i ELSE 0)
         /\ ReadsOn(offset) /\ UNCHANGED <<pass, status, scanned, handed, blkidx>>
    [] spec.rec = 0 ->
         PassEnds(NoNumbers) /\ UNCHANGED <<scanned, handed>>
    [] spec.rec > 0 /\ i > 0 ->
         IF ~HasContent(i) THEN Stops("crashed")
         ELSE /\ Scanned(spec.rec, IF scanned = << >> THEN "first" ELSE "good")
              /\ spec' = Kept(i)
              /\ ReadsOn(offset) /\ UNCHANGED <<pass, status, handed>>
    [] OTHER ->
         /\ scanned' = Append(scanned, [rec |-> spec.rec, flag |-> "last",
                                        number |-> ScanNumber(trace.recs[spec.rec])])
         /\ PassEnds(NoNumbers) /\ UNCHANGED handed

\* con_scan_trace_and_process.
ConScan(i, offset) ==
  IF i > 0 /\ HasContent(i)
  THEN /\ Scanned(i, "good")
       /\ ReadsOn(offset) /\ UNCHANGED <<pass, status, spec, handed>>
  ELSE PassEnds(NoNumbers) /\ UNCHANGED <<scanned, handed>>

ScanReturns(i, offset) ==
  LET ready == i > 0 /\ ReplayReady(trace.recs[i])
      r == IF ready THEN i ELSE 0
  IN  /\ errors' = (errors \/ (i # 0 /\ ~ready))
      /\ genesis' = IF ready /\ genesis = 0 THEN trace.recs[i].time ELSE genesis
      /\ IF ready /\ trace.recs[i].event \in {"OFNW", "OFDW"} /\ trace.recs[i].bytes = 0
         THEN Stops("aborted")
         ELSE IF ready /\ genesis > trace.recs[i].time THEN Stops("exit")
         ELSE IF scanner = "p" THEN ProScan(r, offset) ELSE ConScan(r, offset)

-----------------------------------------------------------------------------
\* Warm-up and replay.  next_io_tip: the loops take its error, LOG_ERR, for a
\* record and go on with what the record before left behind: they skip it, or
\* convert a request whose content was freed and set to NULL, or, before the
\* first record, was never set.
KindOf(r) ==
  CASE r.event \in {"CFR", "DFR"} -> "read" [] r.event \in {"CFNW", "OFNW"} -> "write"
    [] OTHER -> "none"

Unfit(r) == r.bytes = 0 \/ (KindOf(r) = "none" /\ r.event # "OFR")

Hands(i, number) ==
  handed' = IF pass = "replay" THEN Append(handed, [rec |-> i, number |-> number]) ELSE handed

TakesErrorForRecord(offset) ==
  \/ /\ spec.rec = -1 \/ spec.rw \notin enabled
     /\ ReadsOn(offset) /\ UNCHANGED <<pass, status, spec, scanned, handed, blkidx>>
  \/ /\ spec.rec = -1 \/ spec.rw \in enabled
     /\ Stops("stale")

TipReturns(i, offset) ==
  /\ errors' = (errors \/ i < 0 \/ (i > 0 /\ Unfit(file.recs[i]))) /\ UNCHANGED genesis
  /\ IF i = 0 THEN PassEnds(blkidx) /\ UNCHANGED <<scanned, handed>>
     ELSE IF i < 0 \/ (i > 0 /\ Unfit(file.recs[i])) THEN TakesErrorForRecord(offset)
     ELSE LET r == file.recs[i] IN
          IF r.event = "OFR" THEN Stops("aborted")
          ELSE /\ spec' = [rec |-> i, rw |-> KindOf(r)]
               /\ IF KindOf(r) \in enabled
                  THEN Hands(i, blkidx[r.vm]) /\ blkidx' = [blkidx EXCEPT ![r.vm] = @ + 1]
                  ELSE Hands(i, -1) /\ UNCHANGED blkidx
               /\ ReadsOn(offset) /\ UNCHANGED <<pass, status, scanned>>

\* next_record returns a record, 0 for FILE_EOF or -1.
Returns(i, offset) ==
  IF pass = "scan" THEN ScanReturns(i, offset) ELSE TipReturns(i, offset)

-----------------------------------------------------------------------------
\* read_data: a read returns some of what is asked for, and is repeated for
\* the rest.
Read ==
  /\ status = "running"
  /\ \E n \in 1..left :
       pos + n <= file.size /\ pos' = pos + n /\ left' = left - n
  /\ UNCHANGED <<fileVars, phase, rec, passVars>>

\* Faulty variant: a body that is cut short is taken.
FileEndsUnchecked ==
  /\ status = "running" /\ left > 0 /\ pos = file.size
  /\ Returns(IF phase = "header" THEN 0 ELSE rec, pos)
  /\ UNCHANGED fileVars
\* Nothing is left of the file.
FileEnds ==
  /\ status = "running" /\ left > 0 /\ pos = file.size
  /\ Returns(IF phase = "header" THEN 0 ELSE -1, pos)
  /\ UNCHANGED fileVars

\* read fails: an error if nothing was read yet, and tried again otherwise.
ReadFails ==
  /\ status = "running"
  /\ left = CASE phase = "header" -> HeaderCells [] phase = "body" -> BodyCells
              [] OTHER -> RestCells
  /\ Returns(-1, pos)
  /\ UNCHANGED fileVars

\* The header has a record's magic, or is the trailer's beginning, which is
\* read again as a line into a buffer never set up; anything else is an error,
\* with the stream left somewhere behind it.
HeaderRead ==
  /\ status = "running" /\ phase = "header" /\ left = 0
  /\ LET at == pos - HeaderCells
         here == {i \in DOMAIN file.recs : StartOf(file, i) = at}
     IN  IF here # {}
         THEN /\ phase' = "body" /\ left' = BodyCells /\ rec' \in here
              /\ UNCHANGED <<pos, passVars>>
         ELSE \/ Stops("crashed") /\ UNCHANGED <<errors, genesis>>
              \/ IF file.trailer /\ at = TrailerOf(file) THEN Returns(0, pos)
                 ELSE \E p \in pos..file.size : Returns(-1, p)
  /\ UNCHANGED fileVars

BodyRead ==
  /\ status = "running" /\ phase = "body" /\ left = 0
  /\ CASE Interpret(file.recs[rec]) = "done" -> Returns(rec, pos)
       [] Interpret(file.recs[rec]) = "more" /\ file.recs[rec].contentflag = 1 ->
            phase' = "rest" /\ left' = RestCells /\ UNCHANGED <<pos, rec, passVars>>
       [] OTHER -> Returns(-1, pos)
  /\ UNCHANGED fileVars

RestRead ==
  /\ status = "running" /\ phase = "rest" /\ left = 0
  /\ Returns(rec, pos)
  /\ UNCHANGED fileVars

TraceNext == Read \/ FileEnds \/ ReadFails \/ HeaderRead \/ BodyRead \/ RestRead

TraceSpec == TraceInit /\ [][TraceNext]_traceVars

-----------------------------------------------------------------------------
Whole == {i \in DOMAIN trace.recs : WholeIn(trace, i)}

\* However the file is cut and its bytes come, a pass is handed whole records
\* only, once and in order, and without an error all there are
\* (parse-generic.c:55-109, 641-786).
HandedInOrder ==
  /\ \A k \in DOMAIN scanned : scanned[k].rec = k /\ k \in Whole
  /\ \A k \in DOMAIN handed :
       /\ handed[k].rec \in Whole
       /\ k > 1 => handed[k - 1].rec < handed[k].rec
  /\ ~errors /\ status = "ended" => Len(handed) = Cardinality(Whole)

\* The requests of a file that warm the caches up, and those of the trace that
\* are not enabled: what the scan's numbers do not know of.
WarmedUp(v) == Cardinality({i \in DOMAIN warm.recs :
  WholeIn(warm, i) /\ warm.recs[i].vm = v /\ KindOf(warm.recs[i]) \in enabled})
LeftOut(k, v) == Cardinality({i \in 1..(k - 1) :
  trace.recs[i].vm = v /\ KindOf(trace.recs[i]) \notin enabled})

\* After a scan the replay looks its blocks up by numbers of its own.  They are
\* the scan's, further on by the requests of the machine that warmed the caches
\* up and back by those left out before, and by nothing else, however the files
\* are cut and read (scandisk.c:165-308, fscandisk.c:167-229,
\* sim-replay-generic.c:985-1213); and the last block of the scan, and no other,
\* is flagged so that its last chunk is closed.
ReplayedAsScanned ==
  /\ pass # "scan" /\ scanner = "p" =>
       \A k \in DOMAIN scanned : scanned[k].flag = "last" <=> k = Len(scanned)
  /\ scanner # "none" /\ ~errors =>
       \A k \in DOMAIN handed \cap DOMAIN scanned :
         LET r == trace.recs[k] IN
         handed[k] = [rec |-> k, number |->
           IF KindOf(r) \in enabled
           THEN scanned[k].number + WarmedUp(r.vm) - LeftOut(k, r.vm) ELSE -1]

\* What the loops of warm-up and replay take for a record is one that was read:
\* next_io_tip "Returns TRUE if we recovered a bunch of IOs, else hit EOF"
\* (replay-plugins.c:743, sim-replay-generic.c:1250, 1325).
RecoveredOnly == status # "stale"
=============================================================================
