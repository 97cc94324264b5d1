------------------------------ MODULE Startup ------------------------------
(***************************************************************************)
(* The program from its command line to its exit: handle_args and main     *)
(* (main_sim_replay.c), pdd_replay_init (replay-plugins.c), what the worker *)
(* threads of sim-replay-generic.c check before they read, and the handler *)
(* registered with atexit.                                                 *)
(*                                                                         *)
(* An option is [opt, n, words]: its letter, its number and the words its  *)
(* file or device name contains, of those strstr looks for.  Which tables  *)
(* exist is the set `live`; what the replay does with them is the subject  *)
(* of the other modules.                                                   *)
(***************************************************************************)
EXTENDS Integers, Sequences, FiniteSets

CONSTANTS
  CommandLines,   \* the sequences of options the program is started with
  DefaultRAM, DefaultCCACHE,   \* megabytes, if -O and -o are not given
  WordMB,         \* megabytes a 32-bit int can count the bytes of (4096)
  BlocksPerMB,    \* blocks of BLKSIZE in a megabyte (256)
  BlockBytes      \* BLKSIZE (4096)

ASSUME StartupAssumption ==
  /\ CommandLines \subseteq Seq([opt : STRING, n : Int, words : SUBSET STRING])
  /\ WordMB \in Nat /\ WordMB % 2 = 0 /\ WordMB > 0
  /\ {BlocksPerMB, BlockBytes} \subseteq Nat \ {0}
  /\ {DefaultRAM, DefaultCCACHE} \subseteq 1..(WordMB \div 2 - 1)

VARIABLES
  stage,      \* how far main has come
  args,       \* the options getopt_long has not returned yet
  flags,      \* the flags that are 1
  replay,     \* the modes of replay whose flags are 1
  name,       \* the words in the device's, the input's and the warm-up file's name
  size,       \* RAMsize_MB and CCACHEsize_MB
  cache,      \* MAX_CACHE_COUNT and MAX_CCACHE_SIZE, both in blocks
  live,       \* the tables and files that exist
  scan,       \* the thread that scans or reads up mappings
  reader      \* what the replay reads its input with

startVars == <<stage, args, flags, replay, name, size, cache, live, scan, reader>>
optionVars == <<flags, replay, name, size>>

StartupInit ==
  /\ args \in CommandLines
  /\ stage = "options"
  /\ flags = {} /\ replay = {"s"}
  /\ name = [f \in {"device", "input", "warmup"} |-> {}]
  /\ size = [ram |-> DefaultRAM, ccache |-> DefaultCCACHE]
  /\ cache = [sectors |-> 0, contents |-> 0]
  /\ live = {} /\ scan = "none" /\ reader = "none"

-----------------------------------------------------------------------------
\* The formats of replay-defines.h, from the flags.
Sources == flags \cap {"scanp", "scans", "initmap", "runtime"}
Scanning == flags \cap {"scanp", "scans"} # {}
Runtime == "disksim" \in flags /\ "runtime" \in flags
Vanilla == "disksim" \in flags /\ "s" \in replay
Collect == "collect" \in flags
ScanningTrace == Collect /\ "disksim" \in flags /\ Scanning
\* Faulty variant: the name of the input does not reset what -D set.
BunchesUnreset == ~ScanningTrace /\ ("device" \in flags \/ "vmbunch" \in name.input)

\* vmbunchreplay.
Bunches == ~ScanningTrace /\ "vmbunch" \in name.input

RuntimeBunches == Runtime /\ Collect /\ Bunches
ReplaysEvents == ~Bunches /\ (ScanningTrace \/ Runtime \/ Vanilla)
RealDiskScanning == "disksim" \notin flags /\ ~Collect /\ Bunches /\ Scanning
\* The six formats whose device name main frees.
NamesDevice == (Runtime \/ Vanilla) /\ (Collect \/ ~Bunches)

-----------------------------------------------------------------------------
\* handle_args: one option of the getopt_long loop.
FlagOf ==
  [A |-> {"intraonly", "disksim"}, b |-> {"disksim"}, c |-> {"cachesim"},
   C |-> {"collect"}, D |-> {"device"}, f |-> {"input"}, W |-> {"warmup"},
   i |-> {"initmap"}, r |-> {"runtime"}, S |-> {"scanp"}, s |-> {"scans"},
   e |-> {"read"}, E |-> {"write"}, F |-> {"speedup"}]
ModeOf == [P |-> "p", R |-> "f", T |-> "io"]
NameOf == [D |-> "device", f |-> "input", W |-> "warmup"]
SizeOf == [O |-> "ram", o |-> "ccache"]

\* -h and -V end the program, a letter without a case (-w) is refused, and so
\* are a stall factor and a number of iterations that are not positive.
StopsAt(o) ==
  \/ o.opt \in {"h", "V", "w"}
  \/ o.opt \in {"F", "I"} /\ o.n <= 0

Option ==
  /\ stage = "options" /\ args # << >>
  /\ LET o == Head(args) IN
     /\ args' = Tail(args)
     /\ stage' = IF StopsAt(o) THEN "refused" ELSE stage
     /\ flags' = IF o.opt \in DOMAIN FlagOf THEN flags \cup FlagOf[o.opt] ELSE flags
     /\ replay' = CASE o.opt = "Q" -> replay \cup {"s"}
                    [] o.opt \in DOMAIN ModeOf -> (replay \ {"s"}) \cup {ModeOf[o.opt]}
                    [] OTHER -> replay
     /\ name' = IF o.opt \in DOMAIN NameOf
                THEN [name EXCEPT ![NameOf[o.opt]] = o.words] ELSE name
     /\ size' = IF o.opt \in DOMAIN SizeOf
                THEN [size EXCEPT ![SizeOf[o.opt]] = o.n] ELSE size
  /\ UNCHANGED <<cache, live, scan, reader>>

-----------------------------------------------------------------------------
\* handle_args: the checks after the loop.  Each refuses the command line.
\* verify_replayflags and verify_preplayflags.
OneMode == Cardinality(replay) = 1
OneSource == Cardinality(Sources) = 1

FlagsRefused ==
  \/ flags \cap {"read", "write"} = {}
  \/ ~OneMode
  \/ replay = {"s"} /\ Sources # {}
  \/ replay # {"s"} /\ ~OneSource
  \/ "cachesim" \notin flags

SizesRefused ==
  \/ size.ram <= 0
  \/ "io" \in replay /\ size.ccache <= 0
  \/ "io" \in replay /\ size.ccache >= size.ram

DeviceRefused ==
  IF "device" \notin flags THEN ScanningTrace
  ELSE IF ScanningTrace THEN "pioevents" \notin name.device \/ "vmbunch" \in name.device
  ELSE "dev" \in name.device

InputRefused ==
  \/ /\ "input" \in flags
     /\ name.input \cap (IF ScanningTrace THEN {"pioevents"} ELSE {"pioevents", "vmbunch"}) = {}
  \/ "input" \notin flags /\ ~ScanningTrace
  \/ "input" \in flags /\ "consistent" \notin name.input

WarmupRefused == "warmup" \in flags /\ "pioevents" \notin name.warmup

\* A scan of a trace needs no -f to come as far as the test of its name.
NameMissing == "input" \notin flags /\ ScanningTrace

\* sectorcache_init and contentcache_init: the products are 32-bit ints, the
\* limits unsigned.  Where 1024 * 1024 times a size overflows, the compiler may
\* let it wrap before the division by BLKSIZE, or have folded the two (gcc).
IntMB(mb) ==
  LET bytes == mb % WordMB IN IF bytes < WordMB \div 2 THEN bytes ELSE bytes - WordMB
SectorLimit(mb, folded) ==
  ((IF folded THEN mb ELSE IntMB(mb)) * BlocksPerMB) % (WordMB * BlocksPerMB * BlockBytes)
ContentLimit(mb) == (mb % WordMB) * BlocksPerMB

\* The megabytes of the sector cache.
SectorMB == IF "io" \in replay THEN size.ram - size.ccache ELSE size.ram

\* Faulty variant: the two caches overlap.
CachesShared(folded) ==
  [sectors |-> SectorLimit(size.ram, folded),
   contents |-> IF "io" \in replay THEN ContentLimit(size.ccache) ELSE 0]
\* In blocks.  Where a digest is cached for its block it takes a 128th of the
\* space, and the limit is a 128th.
Caches(folded) ==
  [sectors |-> SectorLimit(SectorMB, folded),
   contents |-> IF "io" \in replay THEN ContentLimit(size.ccache) ELSE 0]

\* The file that is scanned, opened and released.
VmAddInputFile(files) == files \cup {"iip"}
VmRemInputFile(files) == files \ {"iip"}

\* Files that cannot be read refuse the command line too.
HandleArgs(readable) ==
  /\ stage = "options" /\ args = << >>
  /\ LET refused == FlagsRefused \/ SizesRefused \/ DeviceRefused IN
     IF refused \/ InputRefused \/ ~readable \/ (~NameMissing /\ WarmupRefused)
     THEN stage' = "refused" /\ UNCHANGED <<cache, live>>
     ELSE IF NameMissing THEN stage' = "crashed" /\ UNCHANGED <<cache, live>>
     ELSE /\ stage' = "input"
          /\ \E folded \in BOOLEAN : cache' = Caches(folded)
          /\ live' = (IF ScanningTrace THEN VmAddInputFile({}) ELSE {})
                \cup (IF "warmup" \in flags THEN {"wip"} ELSE {})
                \cup (IF "io" \in replay THEN {"contentcache"} ELSE {})
  /\ UNCHANGED <<args, optionVars, scan, reader>>

-----------------------------------------------------------------------------
\* sim_replay_exit, run by every exit after atexit: it prints to the file of
\* access times, if warmupflag is 0, and releases what main does not.
ExitReleases ==
  {"accesstime", "hashrabin", "simdisk"}
    \cup (IF "disksim" \in flags /\ ("runtime" \in flags \/ "s" \in replay)
          THEN {"blkidtab"} \cup (IF "p" \in replay THEN {"rabin"} ELSE {}) ELSE {})

SimReplayExit(end) ==
  IF "accesstime" \notin live /\ "warmup" \notin flags
  THEN stage' = "crashed" /\ live' = live
  ELSE stage' = end /\ live' = live \ ExitReleases

Fails == SimReplayExit("failed") /\ UNCHANGED <<args, optionVars, cache, scan, reader>>
Aborts == stage' = "aborted" /\ UNCHANGED <<args, optionVars, cache, live, scan, reader>>

\* add_input_file: a file of bunches begins with a header.  A short file, or a
\* header that counts no bunches, is left out; another version ends the program.
AddInputFile(header) ==
  /\ stage = "input"
  /\ IF "vmbunch" \in name.input /\ header = "version" THEN Fails
     ELSE /\ stage' = "tables"
          /\ live' = IF "vmbunch" \in name.input /\ header = "empty" THEN live
                     ELSE live \cup {"input"}
          /\ UNCHANGED <<args, optionVars, cache, scan, reader>>

\* The tables pdd_replay_init creates for a mode of replay, and main frees.
TablesOf ==
  [s |-> {}, f |-> {"v2fmaps", "fixedmap", "fixedtab"},
   p |-> {"v2cmaps", "chunkmap", "chunktab"}, io |-> {"p2dmaps", "dedupmap", "deduptab"}]
Mode == CHOOSE m \in replay : TRUE
MapTables == {"v2pmaps", "voltab"} \cup TablesOf[Mode]
OutputFiles == {"accesstime", "hashrabin"}

\* pdd_replay_init as far as the volumes' mapping file, which must exist.
CreateTables(mapfile) ==
  /\ stage = "tables"
  /\ IF replay \cap {"f", "p"} # {} /\ "disksim" \notin flags THEN Aborts
     ELSE /\ live' = live \cup MapTables \cup OutputFiles
          /\ stage' = IF mapfile THEN "disk" ELSE "fatal"
          /\ UNCHANGED <<args, optionVars, cache, scan, reader>>

\* pdd_replay_init: the simulated disk and its table of blocks.
CreateDisk ==
  /\ stage = "disk"
  /\ stage' = "scan"
  /\ live' = live
       \cup (IF "disksim" \in flags THEN {"simdisk"} ELSE {})
       \cup (IF "disksim" \in flags /\ ("runtime" \in flags \/ "s" \in replay)
             THEN {"blkidtab"} \cup (IF "p" \in replay THEN {"rabin"} ELSE {}) ELSE {})
  /\ UNCHANGED <<args, optionVars, cache, scan, reader>>

\* pdd_replay_init: the scanning or the read-up thread is created.
StartScan ==
  /\ stage = "scan"
  /\ IF "initmap" \in flags /\ "io" \in replay
     THEN stage' = "fatal" /\ UNCHANGED scan
     ELSE /\ stage' = "join"
          /\ scan' = IF Scanning \/ "initmap" \in flags THEN "running" ELSE "none"
  /\ UNCHANGED <<args, optionVars, cache, live, reader>>

\* The thread ends without a word to main if it cannot go on.  What is scanned
\* is the trace or the device, and by IODEDUP's always the device.
Scans == ScanningTrace \/ RealDiskScanning
ScanEnds(ends, tables) == scan' \in ends /\ live' = live \cup tables /\ UNCHANGED stage
ScanAborts == stage' = "aborted" /\ UNCHANGED <<live, scan>>

ProScandiskRoutine == IF Scans THEN ScanEnds({"ended", "failed"}, {"rabin"}) ELSE ScanAborts
ConScandiskRoutine == IF Scans THEN ScanEnds({"ended", "failed"}, {}) ELSE ScanAborts
IoScandiskRoutine == ScanEnds({"ended", "failed"}, {})
\* No dump is ever written for it to read.
MapreadupRoutine == ScanEnds({"failed"}, {})

ScanThread ==
  /\ scan = "running"
  /\ \/ Scanning /\ "p" \in replay /\ ProScandiskRoutine
     \/ Scanning /\ "f" \in replay /\ ConScandiskRoutine
     \/ Scanning /\ "io" \in replay /\ IoScandiskRoutine
     \/ ~Scanning /\ MapreadupRoutine
  /\ UNCHANGED <<args, optionVars, cache, reader>>

\* Faulty variant: no scan is waited for.
JoinScanUnwaited ==
  /\ stage = "join"
  /\ stage' = "threads"
  /\ UNCHANGED <<args, optionVars, cache, live, scan, reader>>
\* pdd_replay_init waits for a sequential scan and for a read-up, not for a
\* scan in parallel.
JoinScan ==
  /\ stage = "join"
  /\ flags \cap {"scans", "initmap"} # {} => scan # "running"
  /\ stage' = "threads"
  /\ UNCHANGED <<args, optionVars, cache, live, scan, reader>>

-----------------------------------------------------------------------------
\* tip_init, for each input file there is: the warm-up, awaited, and the replay.
StartThreads ==
  /\ stage = "threads"
  /\ stage' = IF "input" \notin live THEN "release"
              ELSE IF "warmup" \in flags THEN "warmup" ELSE "replay"
  /\ UNCHANGED <<args, optionVars, cache, live, scan, reader>>

\* sim_warmup_sub reads events; warmupflag is 0 from then on.
Warmup ==
  /\ stage = "warmup"
  /\ IF "disksim" \notin flags /\ ~RealDiskScanning THEN Aborts
     ELSE /\ stage' = "replay" /\ flags' = flags \ {"warmup"}
          /\ UNCHANGED <<args, replay, name, size, cache, live, scan, reader>>

\* sim_replay_sub chooses between next_bunch and next_io_tip.
ChooseReader ==
  /\ stage = "replay" /\ reader = "none"
  /\ IF \/ "disksim" \notin flags /\ ~RealDiskScanning
        \/ ~ReplaysEvents /\ ~RuntimeBunches /\ "s" \notin replay
     THEN Aborts
     ELSE /\ reader' = IF ReplaysEvents THEN "events" ELSE "bunches"
          /\ UNCHANGED <<stage, args, optionVars, cache, live, scan>>

\* The replay of the whole input: to its end, to a failure, or to the first
\* look for a block in the table that a replay after a scan has not.
\* get_vmbunch reads digests only.
Replay(end) ==
  /\ stage = "replay" /\ reader # "none"
  /\ IF reader = "bunches" /\ ~Collect THEN Aborts
     ELSE \/ end = "failed" /\ Fails
          \/ /\ end = "release" \/ (end = "crashed" /\ "blkidtab" \notin live)
             /\ stage' = end
             /\ UNCHANGED <<args, optionVars, cache, live, scan, reader>>

-----------------------------------------------------------------------------
\* main after the replay: the volumes' mapping is written if it was built at
\* run time, and the tables are freed.
ReleaseTables(mapfile) ==
  /\ stage = "release"
  /\ IF "runtime" \in flags /\ ~mapfile THEN Fails
     ELSE /\ stage' = "release files"
          /\ live' = live \ (MapTables \cup {"contentcache"})
          /\ UNCHANGED <<args, optionVars, cache, scan, reader>>

\* The file that was scanned is removed, or else the device's name, which was
\* allocated only if no -D gave it; then the warm-up's, if no replay took the
\* flag away, and the input.
ReleaseFiles ==
  /\ stage = "release files"
  /\ IF NamesDevice /\ "device" \in flags THEN Aborts
     ELSE /\ IF ~NamesDevice /\ "iip" \notin live
             THEN stage' = "crashed" /\ UNCHANGED <<flags, live>>
             ELSE /\ stage' = "exit" /\ flags' = flags \ {"warmup"}
                  /\ live' = (IF NamesDevice THEN live ELSE VmRemInputFile(live))
                               \ ({"input"} \cup IF "warmup" \in flags THEN {"wip"} ELSE {})
          /\ UNCHANGED <<args, replay, name, size, cache, scan, reader>>

\* exit, after what went wrong or at the end of main.
Exit ==
  /\ \/ stage = "exit" /\ SimReplayExit("ended")
     \/ stage = "fatal" /\ SimReplayExit("failed")
  /\ UNCHANGED <<args, optionVars, cache, scan, reader>>

MainStep ==
  \/ Option
  \/ \E ok \in BOOLEAN : HandleArgs(ok) \/ CreateTables(ok) \/ ReleaseTables(ok)
  \/ \E h \in {"good", "empty", "version"} : AddInputFile(h)
  \/ CreateDisk \/ StartScan \/ JoinScan \/ StartThreads \/ Warmup \/ ChooseReader
  \/ \E end \in {"release", "crashed", "failed"} : Replay(end)
  \/ ReleaseFiles \/ Exit

Gone == stage \in {"refused", "failed", "aborted", "crashed", "ended"}

StartupNext == MainStep \/ (~Gone /\ ScanThread)

StartupSpec == StartupInit /\ [][StartupNext]_startVars

-----------------------------------------------------------------------------
\* A file of bunches is never read as events, nor one of events as bunches,
\* whichever options came in which order (main_sim_replay.c:925-990,
\* sim-replay-generic.c:1303).
ReaderFitsFile ==
  stage = "replay" /\ reader # "none" =>
    (reader = "bunches" <=> "vmbunch" \in name.input)

\* Nothing is used before it exists: no request is replayed before the tables
\* it will be looked up in are there, or while a sequential scan still fills
\* them (replay-plugins.c:157-374), and after a replay main releases the file
\* that was scanned only if one was opened (main_sim_replay.c:1578-1594).
NothingMissing ==
  /\ stage = "replay" /\ reader # "none" =>
       /\ MapTables \cup OutputFiles \subseteq live
       /\ "io" \in replay => "contentcache" \in live
       /\ "simdisk" \in live
       /\ "runtime" \in flags \/ "s" \in replay => "blkidtab" \in live
       /\ "p" \in replay => "rabin" \in live \/ "scanp" \in flags \/ scan = "failed"
       /\ "scans" \in flags => scan # "running"
  /\ stage = "release files" /\ "input" \in live => NamesDevice \/ "iip" \in live

\* For every size that handle_args accepts, the caches together may hold what
\* fits in the memory the user gave, no less and no more, as long as the bytes
\* of each can be counted; beyond that they may hold less, and more only where
\* the sector cache's bytes wrap to a negative number (sectorcache.c:69-77,
\* contentcache.c:266-289, main_sim_replay.c:845-862).
CachesWithinMemory ==
  LET taken == cache.sectors + cache.contents
      given == size.ram * BlocksPerMB
  IN  stage \notin {"options", "refused", "crashed"} =>
        /\ SectorMB < WordMB \div 2 /\ ("io" \in replay => size.ccache < WordMB) =>
             taken = given
        /\ taken > given => IntMB(SectorMB) < 0
=============================================================================
