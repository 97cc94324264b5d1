--------------------------- MODULE ProgramProofs ---------------------------
(***************************************************************************)
(* Theorems about the program from its command line to its exit, about the *)
(* traces it reads and about the files of bunches, for any command lines   *)
(* and any files.                                                          *)
(***************************************************************************)
EXTENDS Startup, TraceInput, Bunching, SequenceFacts

\* The name of a file says of one kind that it is of it.
OneKind(words) == ~({"pioevents", "vmbunch"} \subseteq words)
NamesOneKind == \A line \in CommandLines : \A i \in DOMAIN line : OneKind(line[i].words)

Options == [opt : STRING, n : Int, words : SUBSET STRING]
Files == {"device", "input", "warmup"}
Modes == {"s", "p", "f", "io"}

\* The stages from which on something is known to have been done.
Joined == {"threads", "warmup", "replay"}
ScanStarted == {"join"} \cup Joined
DiskCreated == {"scan"} \cup ScanStarted
TablesCreated == {"disk", "release"} \cup DiskCreated
ArgsHandled == {"input", "tables"} \cup TablesCreated
Begun == {"release files"} \cup ArgsHandled

OptionsOK ==
  /\ args \in Seq(Options)
  /\ replay \in SUBSET Modes
  /\ name \in [Files -> SUBSET STRING]
  /\ size \in [ram : Int, ccache : Int]
  /\ (\A i \in DOMAIN args : OneKind(args[i].words)) /\ \A f \in Files : OneKind(name[f])

\* What handle_args made sure of, as far as it is relied upon later.
Checked ==
  /\ \E m \in Modes : replay = {m}
  /\ "s" \in replay => Sources = {}
  /\ "p" \in replay => Sources # {}
  /\ ScanningTrace => "vmbunch" \notin name.input

\* What the reader that was chosen says of the options.
ReaderChosen ==
  /\ reader \in {"events", "bunches"}
  /\ "disksim" \in flags
  /\ reader = "bunches" <=> "vmbunch" \in name.input
  /\ NamesDevice \/ ScanningTrace \/ (reader = "bunches" /\ ~Collect)

StartInv ==
  /\ OptionsOK
  /\ stage \in {"options", "refused"} \cup (ArgsHandled \ (ScanStarted \cup {"release"})) =>
       scan = "none"
  /\ stage \in {"options"} \cup (ArgsHandled \ {"replay", "release"}) => reader = "none"
  /\ stage \in Begun => Checked /\ (ScanningTrace => "iip" \in live)
  /\ stage \in ArgsHandled => ("io" \in replay => "contentcache" \in live)
  /\ stage \in TablesCreated => MapTables \cup OutputFiles \subseteq live
  /\ stage \in DiskCreated /\ "disksim" \in flags =>
       /\ "simdisk" \in live
       /\ "runtime" \in flags \/ "s" \in replay =>
            "blkidtab" \in live /\ ("p" \in replay => "rabin" \in live)
  /\ stage \in ScanStarted =>
       /\ Scanning \/ "initmap" \in flags => scan # "none"
       /\ scan \in {"none", "running", "ended", "failed"}
       /\ scan = "ended" /\ "p" \in replay => "rabin" \in live
  /\ stage \in Joined => (flags \cap {"scans", "initmap"} # {} => scan # "running")
  /\ stage = "replay" /\ reader # "none" => ReaderChosen
  /\ stage \in {"release", "release files"} /\ "input" \in live => NamesDevice \/ ScanningTrace

CachesInv ==
  /\ args \in Seq(Options) /\ size \in [ram : Int, ccache : Int]
  /\ cache.sectors \in Int /\ cache.contents \in Int
  /\ CachesWithinMemory
  /\ stage = "options" => scan = "none"

LEMMA StartInitially == NamesOneKind /\ StartupInit => StartInv
<1> SUFFICES ASSUME NamesOneKind, StartupInit PROVE StartInv
  OBVIOUS
<1>1. OptionsOK
  <2>1. /\ args \in CommandLines /\ replay = {"s"} /\ name = [f \in Files |-> {}]
        /\ size = [ram |-> DefaultRAM, ccache |-> DefaultCCACHE]
    BY DEF StartupInit, Files
  <2>2. args \in Seq(Options) /\ \A i \in DOMAIN args : OneKind(args[i].words)
    BY <2>1, StartupAssumption DEF NamesOneKind, Options
  <2>3. DefaultRAM \in Int /\ DefaultCCACHE \in Int
    BY StartupAssumption
  <2>4. \A f \in Files : OneKind(name[f])
    BY <2>1 DEF OneKind
  <2>5. name \in [Files -> SUBSET STRING] /\ size \in [ram : Int, ccache : Int]
    BY <2>1, <2>3
  <2> QED
    BY <2>1, <2>2, <2>4, <2>5 DEF OptionsOK, Modes
<1>2. stage = "options" /\ scan = "none" /\ reader = "none"
  BY DEF StartupInit
<1> QED
  BY <1>1, <1>2 DEF StartInv, Begun, ArgsHandled, TablesCreated, DiskCreated, ScanStarted, Joined

\* What follows from the options alone is the same for as long as they are;
\* that there was a warm-up says nothing of it.
LEMMA SameOptions ==
  ASSUME flags' = flags \/ flags' = flags \ {"warmup"}, replay' = replay, name' = name
  PROVE  /\ Scanning' = Scanning /\ ScanningTrace' = ScanningTrace
         /\ Collect' = Collect /\ NamesDevice' = NamesDevice
         /\ MapTables' = MapTables /\ Checked' = Checked
         /\ \A f \in {"scanp", "scans", "initmap", "runtime", "disksim"} :
              f \in flags' <=> f \in flags
<1>1. /\ flags' \cap {"scanp", "scans"} = flags \cap {"scanp", "scans"}
      /\ flags' \cap {"scanp", "scans", "initmap", "runtime"}
           = flags \cap {"scanp", "scans", "initmap", "runtime"}
      /\ \A f \in {"scanp", "scans", "initmap", "runtime", "disksim", "collect"} :
           f \in flags' <=> f \in flags
  OBVIOUS
<1>2. Scanning' = Scanning /\ Collect' = Collect /\ Sources' = Sources
  BY <1>1 DEF Scanning, Collect, Sources
<1>3. ScanningTrace' = ScanningTrace
  BY <1>1, <1>2 DEF ScanningTrace
<1>4. Runtime' = Runtime /\ Vanilla' = Vanilla /\ Bunches' = Bunches
  BY <1>1, <1>3 DEF Runtime, Vanilla, Bunches
<1>5. NamesDevice' = NamesDevice
  BY <1>2, <1>4 DEF NamesDevice
<1>6. MapTables' = MapTables
  BY DEF MapTables, Mode
<1>7. Checked' = Checked
  BY <1>2, <1>3 DEF Checked
<1> QED
  BY <1>1, <1>2, <1>3, <1>5, <1>6, <1>7

\* The options: nothing has been created yet.
LEMMA OptionStep == ASSUME StartInv, Option PROVE StartInv'
<1> DEFINE o == Head(args)
<1>1. /\ stage = "options" /\ args # <<>> /\ args \in Seq(Options)
      /\ \A i \in DOMAIN args : OneKind(args[i].words)
  BY DEF StartInv, OptionsOK, Option
<1>2. o \in Options /\ OneKind(o.words) /\ args' \in Seq(Options)
      /\ \A i \in DOMAIN args' : OneKind(args'[i].words)
  <2>1. args' = Tail(args)
    BY DEF Option
  <2>2. /\ Tail(args) \in Seq(Options) /\ Len(args) \in Nat /\ Len(args) >= 1
        /\ Len(Tail(args)) = Len(args) - 1 /\ o = args[1] /\ o \in Options
        /\ \A i \in 1..Len(Tail(args)) : Tail(args)[i] = args[i + 1]
    BY <1>1, EmptySeq, LenProperties, HeadTailProperties
  <2>3. 1 \in DOMAIN args
    BY <1>1, <2>2, LenProperties
  <2>4. \A i \in DOMAIN Tail(args) : i + 1 \in DOMAIN args /\ Tail(args)[i] = args[i + 1]
    BY <1>1, <2>2, LenProperties
  <2> QED
    BY <1>1, <2>1, <2>2, <2>3, <2>4
<1> HIDE DEF o
<1>3. replay' \in SUBSET Modes
  <2>1. /\ replay' = CASE o.opt = "Q" -> replay \cup {"s"}
                       [] o.opt \in DOMAIN ModeOf -> (replay \ {"s"}) \cup {ModeOf[o.opt]}
                       [] OTHER -> replay
    BY DEF Option, o
  <2>2. replay \in SUBSET Modes
    BY DEF StartInv, OptionsOK
  <2>3. \A c \in DOMAIN ModeOf : ModeOf[c] \in Modes
    <3>1. \A c \in DOMAIN ModeOf : c \in {"P", "R", "T"}
      BY DEF ModeOf
    <3>2. ModeOf["P"] = "p" /\ ModeOf["R"] = "f" /\ ModeOf["T"] = "io"
      BY DEF ModeOf
    <3> QED
      BY <3>1, <3>2 DEF Modes
  <2> QED
    BY <2>1, <2>2, <2>3 DEF Modes
<1>4. name' \in [Files -> SUBSET STRING] /\ \A f \in Files : OneKind(name'[f])
  <2>1. name' = IF o.opt \in DOMAIN NameOf THEN [name EXCEPT ![NameOf[o.opt]] = o.words] ELSE name
    BY DEF Option, o
  <2>2. name \in [Files -> SUBSET STRING] /\ \A f \in Files : OneKind(name[f])
    BY DEF StartInv, OptionsOK
  <2>3. o.words \in SUBSET STRING
    BY <1>2 DEF Options
  <2> QED
    BY <1>2, <2>1, <2>2, <2>3
<1>5. size' \in [ram : Int, ccache : Int]
  <2>1. size' = IF o.opt \in DOMAIN SizeOf THEN [size EXCEPT ![SizeOf[o.opt]] = o.n] ELSE size
    BY DEF Option, o
  <2>2. size \in [ram : Int, ccache : Int] /\ o.n \in Int
    BY <1>2 DEF StartInv, OptionsOK, Options
  <2> QED
    BY <2>1, <2>2
<1>6. stage' \in {"options", "refused"} /\ scan' = "none" /\ reader' = "none"
  BY <1>1 DEF Option, StartInv
<1> QED
  BY <1>2, <1>3, <1>4, <1>5, <1>6
  DEF StartInv, OptionsOK, Begun, ArgsHandled, TablesCreated, DiskCreated, ScanStarted, Joined

LEMMA ChecksMade ==
  ASSUME OptionsOK, ~FlagsRefused, ~InputRefused, ~NameMissing
  PROVE  Checked
<1>1. (\E m \in Modes : replay = {m}) /\ ("s" \in replay => Sources = {})
  <2>1. IsFiniteSet(replay) /\ Cardinality(replay) = 1
    <3>1. IsFiniteSet({"s"}) /\ IsFiniteSet({"p"}) /\ IsFiniteSet({"f"}) /\ IsFiniteSet({"io"})
      BY FS_Singleton
    <3>2. IsFiniteSet({"s"} \cup {"p"}) /\ IsFiniteSet({"f"} \cup {"io"})
      BY <3>1, FS_Union
    <3>3. IsFiniteSet(({"s"} \cup {"p"}) \cup ({"f"} \cup {"io"}))
      BY <3>2, FS_Union
    <3>4. Modes = ({"s"} \cup {"p"}) \cup ({"f"} \cup {"io"})
      BY DEF Modes
    <3> QED
      BY <3>3, <3>4, FS_Subset DEF FlagsRefused, OneMode, OptionsOK
  <2>2. \E m : replay = {m}
    BY <2>1, FS_Singleton
  <2> QED
    BY <2>2 DEF FlagsRefused, OptionsOK
<1>2. "p" \in replay => Sources # {}
  <2>1. "p" \in replay => Cardinality(Sources) = 1
    BY DEF FlagsRefused, OneSource
  <2>2. Cardinality({}) = 0
    BY FS_EmptySet
  <2> QED
    BY <2>1, <2>2
<1>3. ScanningTrace => "vmbunch" \notin name.input
  BY DEF InputRefused, NameMissing, OptionsOK, OneKind, Files
<1> QED
  BY <1>1, <1>2, <1>3 DEF Checked

LEMMA HandleArgsStep == ASSUME StartInv, NEW ok \in BOOLEAN, HandleArgs(ok) PROVE StartInv'
<1>1. /\ stage = "options" /\ OptionsOK' /\ scan' = "none" /\ reader' = "none"
      /\ flags' = flags /\ replay' = replay /\ name' = name
  BY DEF StartInv, OptionsOK, HandleArgs, optionVars
<1>2. CASE stage' \in {"refused", "crashed"}
  BY <1>1, <1>2 DEF StartInv, Begun, ArgsHandled, TablesCreated, DiskCreated, ScanStarted, Joined
<1>3. CASE stage' \notin {"refused", "crashed"}
  <2>1. /\ stage' = "input" /\ ~FlagsRefused /\ ~InputRefused /\ ~NameMissing
        /\ live' = (IF ScanningTrace THEN VmAddInputFile({}) ELSE {})
             \cup (IF "warmup" \in flags THEN {"wip"} ELSE {})
             \cup (IF "io" \in replay THEN {"contentcache"} ELSE {})
    BY <1>3, Zenon DEF HandleArgs
  <2>2. Checked' /\ (ScanningTrace' <=> ScanningTrace)
    <3>1. Checked
      BY <2>1, ChecksMade DEF StartInv
    <3> QED
      BY <1>1, <3>1, SameOptions
  <2>3. (ScanningTrace => "iip" \in live') /\ ("io" \in replay => "contentcache" \in live')
    BY <2>1 DEF VmAddInputFile
  <2> QED
    BY <1>1, <2>1, <2>2, <2>3
    DEF StartInv, Begun, ArgsHandled, TablesCreated, DiskCreated, ScanStarted, Joined
<1> QED
  BY <1>2, <1>3

\* A step that leaves the options alone and ends up at no stage that follows
\* the handling of the arguments.
LEMMA ProgramEnds ==
  ASSUME StartInv, stage' \in {"failed", "aborted", "crashed", "ended"},
         UNCHANGED <<args, replay, name, size>>
  PROVE  StartInv'
<1>1. OptionsOK'
  BY DEF StartInv, OptionsOK
<1> QED
  BY <1>1 DEF StartInv, Begun, ArgsHandled, TablesCreated, DiskCreated, ScanStarted, Joined

LEMMA FailsEnds ==
  ASSUME StartInv, Fails \/ Aborts \/ Exit
  PROVE  StartInv'
<1>1. stage' \in {"failed", "aborted", "crashed", "ended"}
  BY DEF Fails, Aborts, Exit, SimReplayExit
<1>2. UNCHANGED <<args, replay, name, size>>
  BY DEF Fails, Aborts, Exit, optionVars
<1> QED
  BY <1>1, <1>2, ProgramEnds

\* The steps that leave the options alone.
SameArgs == args' = args /\ replay' = replay /\ name' = name /\ size' = size

LEMMA AddInputFileStep ==
  ASSUME StartInv, NEW h \in {"good", "empty", "version"}, AddInputFile(h) PROVE StartInv'
<1>1. CASE Fails
  BY <1>1, FailsEnds
<1>2. CASE ~Fails
  <2>1. /\ stage = "input" /\ stage' = "tables" /\ live \subseteq live'
        /\ SameArgs /\ flags' = flags /\ scan' = scan /\ reader' = reader
    BY <1>2 DEF AddInputFile, SameArgs, optionVars
  <2>2. OptionsOK'
    BY <2>1 DEF StartInv, OptionsOK, SameArgs
  <2> QED
    BY <2>1, <2>2, SameOptions
    DEF StartInv, SameArgs, Begun, ArgsHandled, TablesCreated, DiskCreated, ScanStarted, Joined
<1> QED
  BY <1>1, <1>2

LEMMA CreateTablesStep == ASSUME StartInv, NEW ok \in BOOLEAN, CreateTables(ok) PROVE StartInv'
<1>1. CASE Aborts
  BY <1>1, FailsEnds
<1>2. CASE ~Aborts
  <2>1. /\ stage = "tables" /\ stage' \in {"disk", "fatal"}
        /\ live' = live \cup MapTables \cup OutputFiles
        /\ SameArgs /\ flags' = flags /\ scan' = scan /\ reader' = reader
    BY <1>2 DEF CreateTables, SameArgs, optionVars
  <2>2. OptionsOK' /\ OutputFiles' = OutputFiles
    BY <2>1 DEF StartInv, OptionsOK, SameArgs, OutputFiles
  <2>3. (MapTables \cup OutputFiles)' \subseteq live' /\ live \subseteq live'
    BY <2>1, <2>2, SameOptions DEF SameArgs
  <2>4. /\ Checked /\ (ScanningTrace => "iip" \in live)
        /\ ("io" \in replay => "contentcache" \in live) /\ scan = "none" /\ reader = "none"
    BY <2>1 DEF StartInv, Begun, ArgsHandled, TablesCreated, DiskCreated, ScanStarted, Joined
  <2>5. /\ Checked' /\ (ScanningTrace' => "iip" \in live')
        /\ ("io" \in replay' => "contentcache" \in live') /\ scan' = "none" /\ reader' = "none"
    BY <2>1, <2>3, <2>4, SameOptions DEF SameArgs
  <2> QED
    BY <2>1, <2>2, <2>3, <2>5
    DEF StartInv, Begun, ArgsHandled, TablesCreated, DiskCreated, ScanStarted, Joined
<1> QED
  BY <1>1, <1>2

LEMMA CreateDiskStep == ASSUME StartInv, CreateDisk PROVE StartInv'
<1>1. /\ stage = "disk" /\ stage' = "scan"
      /\ SameArgs /\ flags' = flags /\ scan' = scan /\ reader' = reader /\ live \subseteq live'
  BY DEF CreateDisk, SameArgs, optionVars
<1>2. OptionsOK' /\ OutputFiles' = OutputFiles
  BY <1>1 DEF StartInv, OptionsOK, SameArgs, OutputFiles
<1>3. "disksim" \in flags =>
        /\ "simdisk" \in live'
        /\ "runtime" \in flags \/ "s" \in replay =>
             "blkidtab" \in live' /\ ("p" \in replay => "rabin" \in live')
  BY DEF CreateDisk
<1> QED
  BY <1>1, <1>2, <1>3, SameOptions
  DEF StartInv, SameArgs, Begun, ArgsHandled, TablesCreated, DiskCreated, ScanStarted, Joined

LEMMA StartScanStep == ASSUME StartInv, StartScan PROVE StartInv'
<1>1. /\ stage = "scan" /\ reader' = reader /\ live' = live /\ SameArgs /\ flags' = flags
      /\ \/ stage' = "fatal" /\ scan' = scan
         \/ stage' = "join" /\ scan' = IF Scanning \/ "initmap" \in flags THEN "running" ELSE "none"
  BY DEF StartScan, SameArgs, optionVars
<1>2. OptionsOK' /\ OutputFiles' = OutputFiles
  BY <1>1 DEF StartInv, OptionsOK, SameArgs, OutputFiles
<1>3. CASE stage' = "fatal"
  BY <1>1, <1>2, <1>3
  DEF StartInv, Begun, ArgsHandled, TablesCreated, DiskCreated, ScanStarted, Joined
<1>4. CASE stage' = "join"
  <2>1. /\ Checked /\ (ScanningTrace => "iip" \in live)
        /\ ("io" \in replay => "contentcache" \in live) /\ reader = "none"
        /\ MapTables \cup OutputFiles \subseteq live
    BY <1>1 DEF StartInv, Begun, ArgsHandled, TablesCreated, DiskCreated, ScanStarted, Joined
  <2>2. /\ Checked' /\ (ScanningTrace' => "iip" \in live')
        /\ ("io" \in replay' => "contentcache" \in live') /\ reader' = "none"
        /\ MapTables' \cup OutputFiles' \subseteq live'
    BY <1>1, <1>2, <2>1, SameOptions DEF SameArgs
  <2>3. "disksim" \in flags' =>
          /\ "simdisk" \in live'
          /\ "runtime" \in flags' \/ "s" \in replay' =>
               "blkidtab" \in live' /\ ("p" \in replay' => "rabin" \in live')
    BY <1>1, SameOptions DEF StartInv, SameArgs, DiskCreated
  <2>4. /\ Scanning' \/ "initmap" \in flags' => scan' # "none"
        /\ scan' \in {"none", "running"}
    BY <1>1, <1>4, SameOptions DEF SameArgs
  <2> QED
    BY <1>2, <1>4, <2>2, <2>3, <2>4
    DEF StartInv, Begun, ArgsHandled, TablesCreated, DiskCreated, ScanStarted, Joined
<1> QED
  BY <1>1, <1>3, <1>4

LEMMA ScanThreadStep == ASSUME StartInv, ScanThread PROVE StartInv'
<1>1. CASE stage' = "aborted"
  BY <1>1, ProgramEnds DEF ScanThread, optionVars
<1>2. CASE stage' # "aborted"
  <2>1. /\ stage' = stage /\ scan = "running" /\ scan' \in {"ended", "failed"}
        /\ reader' = reader /\ live \subseteq live' /\ SameArgs /\ flags' = flags
    BY <1>2
    DEF ScanThread, SameArgs, optionVars, ProScandiskRoutine, ConScandiskRoutine,
        IoScandiskRoutine, MapreadupRoutine, ScanEnds, ScanAborts
  <2>2. OptionsOK' /\ OutputFiles' = OutputFiles
    BY <2>1 DEF StartInv, OptionsOK, SameArgs, OutputFiles
  <2>3. "p" \in replay /\ stage \in Begun /\ scan' = "ended" => "rabin" \in live'
    <3>1. "p" \in replay /\ stage \in Begun => "f" \notin replay /\ "io" \notin replay
      <4>1. stage \in Begun => \E m \in Modes : replay = {m}
        BY DEF StartInv, Checked
      <4> QED
        BY <4>1
    <3> QED
      BY <1>2, <3>1
      DEF ScanThread, ProScandiskRoutine, MapreadupRoutine, ScanEnds, ScanAborts
  <2>4. stage' \in Begun => Checked' /\ (ScanningTrace' => "iip" \in live')
    BY <2>1, SameOptions DEF StartInv, SameArgs
  <2>5. /\ stage' \in ArgsHandled => ("io" \in replay' => "contentcache" \in live')
        /\ stage' \in TablesCreated => MapTables' \cup OutputFiles' \subseteq live'
    BY <2>1, <2>2, SameOptions DEF StartInv, SameArgs
  <2>6. stage' \in DiskCreated /\ "disksim" \in flags' =>
          /\ "simdisk" \in live'
          /\ "runtime" \in flags' \/ "s" \in replay' =>
               "blkidtab" \in live' /\ ("p" \in replay' => "rabin" \in live')
    BY <2>1, SameOptions DEF StartInv, SameArgs
  <2>7. stage' \in ScanStarted =>
          /\ Scanning' \/ "initmap" \in flags' => scan' # "none"
          /\ scan' \in {"none", "running", "ended", "failed"}
          /\ scan' = "ended" /\ "p" \in replay' => "rabin" \in live'
    BY <2>1, <2>3 DEF SameArgs, Begun, ArgsHandled, TablesCreated, DiskCreated
  <2>8. /\ stage' \notin {"options", "refused"} \cup (ArgsHandled \ (ScanStarted \cup {"release"}))
        /\ stage' \in {"options"} \cup (ArgsHandled \ {"replay", "release"}) => reader' = "none"
    BY <2>1 DEF StartInv
  <2>9. /\ stage' = "replay" /\ reader' # "none" => ReaderChosen'
        /\ stage' \in {"release", "release files"} /\ "input" \in live' =>
             NamesDevice' \/ ScanningTrace'
    <3>1. "input" \in live' <=> "input" \in live
      BY <1>2
      DEF ScanThread, ProScandiskRoutine, ConScandiskRoutine, IoScandiskRoutine,
          MapreadupRoutine, ScanEnds, ScanAborts
    <3>2. /\ Collect' = Collect /\ NamesDevice' = NamesDevice
          /\ ScanningTrace' = ScanningTrace
      BY <2>1, SameOptions DEF SameArgs
    <3>3. stage = "replay" /\ reader # "none" => ReaderChosen
      BY DEF StartInv
    <3>4. ReaderChosen => ReaderChosen'
      BY <2>1, <3>2 DEF ReaderChosen, SameArgs
    <3>5. stage \in {"release", "release files"} /\ "input" \in live => NamesDevice \/ ScanningTrace
      BY DEF StartInv
    <3> QED
      BY <2>1, <3>1, <3>2, <3>3, <3>4, <3>5
  <2> QED
    BY <2>1, <2>2, <2>4, <2>5, <2>6, <2>7, <2>8, <2>9 DEF StartInv
<1> QED
  BY <1>1, <1>2

LEMMA JoinScanStep == ASSUME StartInv, JoinScan PROVE StartInv'
<1>1. /\ stage = "join" /\ stage' = "threads" /\ scan' = scan
      /\ flags \cap {"scans", "initmap"} # {} => scan # "running"
      /\ reader' = reader /\ live' = live /\ SameArgs /\ flags' = flags
  BY DEF JoinScan, SameArgs, optionVars
<1>2. OptionsOK' /\ OutputFiles' = OutputFiles
  BY <1>1 DEF StartInv, OptionsOK, SameArgs, OutputFiles
<1> QED
  BY <1>1, <1>2, SameOptions
  DEF StartInv, SameArgs, Begun, ArgsHandled, TablesCreated, DiskCreated, ScanStarted, Joined

LEMMA StartThreadsStep == ASSUME StartInv, StartThreads PROVE StartInv'
<1>1. /\ stage = "threads"
      /\ stage' \in {"warmup", "replay"} \/ (stage' = "release" /\ "input" \notin live)
      /\ scan' = scan /\ reader' = reader /\ live' = live /\ SameArgs /\ flags' = flags
  BY DEF StartThreads, SameArgs, optionVars
<1>2. OptionsOK' /\ OutputFiles' = OutputFiles
  BY <1>1 DEF StartInv, OptionsOK, SameArgs, OutputFiles
<1>3. reader = "none"
  BY <1>1 DEF StartInv, ArgsHandled, TablesCreated, DiskCreated, ScanStarted, Joined
<1>4. /\ Checked /\ (ScanningTrace => "iip" \in live)
      /\ ("io" \in replay => "contentcache" \in live)
      /\ MapTables \cup OutputFiles \subseteq live
  BY <1>1 DEF StartInv, Begun, ArgsHandled, TablesCreated, DiskCreated, ScanStarted, Joined
<1>5. /\ Checked' /\ (ScanningTrace' => "iip" \in live')
      /\ ("io" \in replay' => "contentcache" \in live') /\ reader' = "none"
      /\ MapTables' \cup OutputFiles' \subseteq live'
  BY <1>1, <1>2, <1>3, <1>4, SameOptions DEF SameArgs
<1>6. CASE stage' = "release"
  BY <1>1, <1>2, <1>5, <1>6
  DEF StartInv, Begun, ArgsHandled, TablesCreated, DiskCreated, ScanStarted, Joined
<1>7. CASE stage' # "release"
  <2>1. "disksim" \in flags' =>
          /\ "simdisk" \in live'
          /\ "runtime" \in flags' \/ "s" \in replay' =>
               "blkidtab" \in live' /\ ("p" \in replay' => "rabin" \in live')
    BY <1>1, SameOptions DEF StartInv, SameArgs, DiskCreated, ScanStarted, Joined
  <2>2. /\ Scanning' \/ "initmap" \in flags' => scan' # "none"
        /\ scan' \in {"none", "running", "ended", "failed"}
        /\ scan' = "ended" /\ "p" \in replay' => "rabin" \in live'
        /\ flags' \cap {"scans", "initmap"} # {} => scan' # "running"
    BY <1>1, SameOptions DEF StartInv, SameArgs, ScanStarted, Joined
  <2> QED
    BY <1>1, <1>2, <1>5, <1>7, <2>1, <2>2
    DEF StartInv, Begun, ArgsHandled, TablesCreated, DiskCreated, ScanStarted, Joined
<1> QED
  BY <1>6, <1>7

LEMMA WarmupStep == ASSUME StartInv, Warmup PROVE StartInv'
<1>1. CASE Aborts
  BY <1>1, FailsEnds
<1>2. CASE ~Aborts
  <2>1. /\ stage = "warmup" /\ stage' = "replay" /\ flags' = flags \ {"warmup"}
        /\ scan' = scan /\ reader' = reader /\ live' = live /\ SameArgs
    BY <1>2 DEF Warmup, SameArgs
  <2>2. OptionsOK' /\ OutputFiles' = OutputFiles
    BY <2>1 DEF StartInv, OptionsOK, SameArgs, OutputFiles
  <2>3. reader = "none"
    BY <2>1 DEF StartInv, ArgsHandled, TablesCreated, DiskCreated, ScanStarted, Joined
  <2> QED
    BY <2>1, <2>2, <2>3, SameOptions
    DEF StartInv, SameArgs, Begun, ArgsHandled, TablesCreated, DiskCreated, ScanStarted, Joined
<1> QED
  BY <1>1, <1>2

LEMMA ChooseReaderStep == ASSUME StartInv, ChooseReader PROVE StartInv'
<1>1. CASE Aborts
  BY <1>1, FailsEnds
<1>2. CASE ~Aborts
  <2>1. /\ stage = "replay"
        /\ "disksim" \in flags \/ RealDiskScanning
        /\ ReplaysEvents \/ RuntimeBunches \/ "s" \in replay
        /\ reader' = IF ReplaysEvents THEN "events" ELSE "bunches"
        /\ stage' = stage /\ scan' = scan /\ live' = live /\ SameArgs /\ flags' = flags
    BY <1>2 DEF ChooseReader, SameArgs, optionVars
  <2>2. OptionsOK' /\ OutputFiles' = OutputFiles
    BY <2>1 DEF StartInv, OptionsOK, SameArgs, OutputFiles
  <2>3. Checked
    BY <2>1 DEF StartInv, Begun, ArgsHandled, TablesCreated, DiskCreated, ScanStarted, Joined
  <2>4. "disksim" \in flags
    BY <2>1, <2>3
    DEF Checked, RealDiskScanning, Scanning, Sources, ReplaysEvents, RuntimeBunches,
        ScanningTrace, Runtime, Vanilla
  <2>5. ReplaysEvents <=> ~Bunches
    BY <2>1, <2>4 DEF ReplaysEvents, RuntimeBunches, Vanilla
  <2>6. Bunches <=> "vmbunch" \in name.input
    BY <2>3 DEF Bunches, Checked
  <2>7. NamesDevice \/ ScanningTrace \/ (~ReplaysEvents /\ ~Collect)
    BY <2>1, <2>4, <2>5 DEF ReplaysEvents, RuntimeBunches, NamesDevice, Vanilla
  <2>8. ReaderChosen'
    <3>1. Collect' = Collect /\ NamesDevice' = NamesDevice /\ ScanningTrace' = ScanningTrace
      BY <2>1, SameOptions DEF SameArgs
    <3> QED
      BY <2>1, <2>4, <2>5, <2>6, <2>7, <3>1 DEF ReaderChosen, SameArgs
  <2> QED
    <3>1. /\ Checked' /\ (ScanningTrace' => "iip" \in live')
          /\ ("io" \in replay' => "contentcache" \in live')
          /\ MapTables' \cup OutputFiles' \subseteq live'
      <4>1. /\ ScanningTrace => "iip" \in live
            /\ "io" \in replay => "contentcache" \in live
            /\ MapTables \cup OutputFiles \subseteq live
        BY <2>1 DEF StartInv, Begun, ArgsHandled, TablesCreated, DiskCreated, ScanStarted, Joined
      <4> QED
        BY <2>1, <2>2, <2>3, <4>1, SameOptions DEF SameArgs
    <3>2. "disksim" \in flags' =>
            /\ "simdisk" \in live'
            /\ "runtime" \in flags' \/ "s" \in replay' =>
                 "blkidtab" \in live' /\ ("p" \in replay' => "rabin" \in live')
      BY <2>1, SameOptions DEF StartInv, SameArgs, DiskCreated, ScanStarted, Joined
    <3>3. /\ Scanning' \/ "initmap" \in flags' => scan' # "none"
          /\ scan' \in {"none", "running", "ended", "failed"}
          /\ scan' = "ended" /\ "p" \in replay' => "rabin" \in live'
          /\ flags' \cap {"scans", "initmap"} # {} => scan' # "running"
      BY <2>1, SameOptions DEF StartInv, SameArgs, ScanStarted, Joined
    <3> QED
      BY <2>1, <2>2, <2>8, <3>1, <3>2, <3>3
      DEF StartInv, Begun, ArgsHandled, TablesCreated, DiskCreated, ScanStarted, Joined
<1> QED
  BY <1>1, <1>2

LEMMA ReplayStep ==
  ASSUME StartInv, NEW end \in {"release", "crashed", "failed"}, Replay(end) PROVE StartInv'
<1>1. CASE Aborts \/ Fails
  BY <1>1, FailsEnds
<1>2. CASE ~Aborts /\ ~Fails
  <2>1. /\ stage = "replay" /\ reader # "none" /\ ~(reader = "bunches" /\ ~Collect)
        /\ stage' \in {"release", "crashed"} /\ reader' = reader
        /\ scan' = scan /\ live' = live /\ SameArgs /\ flags' = flags
    BY <1>2 DEF Replay, SameArgs, optionVars
  <2>2. OptionsOK' /\ OutputFiles' = OutputFiles
    BY <2>1 DEF StartInv, OptionsOK, SameArgs, OutputFiles
  <2>3. NamesDevice' \/ ScanningTrace'
    <3>1. NamesDevice \/ ScanningTrace
      BY <2>1 DEF StartInv, ReaderChosen
    <3> QED
      BY <2>1, <3>1, SameOptions DEF SameArgs
  <2>4. /\ Checked' /\ (ScanningTrace' => "iip" \in live')
        /\ ("io" \in replay' => "contentcache" \in live')
        /\ MapTables' \cup OutputFiles' \subseteq live'
    <3>1. /\ Checked /\ (ScanningTrace => "iip" \in live)
          /\ ("io" \in replay => "contentcache" \in live)
          /\ MapTables \cup OutputFiles \subseteq live
      BY <2>1 DEF StartInv, Begun, ArgsHandled, TablesCreated, DiskCreated, ScanStarted, Joined
    <3> QED
      BY <2>1, <2>2, <3>1, SameOptions DEF SameArgs
  <2> QED
    BY <2>1, <2>2, <2>3, <2>4
    DEF StartInv, Begun, ArgsHandled, TablesCreated, DiskCreated, ScanStarted, Joined
<1> QED
  BY <1>1, <1>2

LEMMA ReleaseTablesStep == ASSUME StartInv, NEW ok \in BOOLEAN, ReleaseTables(ok) PROVE StartInv'
<1>1. CASE Fails
  BY <1>1, FailsEnds
<1>2. CASE ~Fails
  <2>1. /\ stage = "release" /\ stage' = "release files"
        /\ live' = live \ (MapTables \cup {"contentcache"}) /\ SameArgs /\ flags' = flags
    BY <1>2 DEF ReleaseTables, SameArgs, optionVars
  <2>2. OptionsOK'
    BY <2>1 DEF StartInv, OptionsOK, SameArgs
  <2>3. Checked /\ (ScanningTrace => "iip" \in live)
    BY <2>1 DEF StartInv, Begun, ArgsHandled, TablesCreated
  <2>4. "input" \in live => NamesDevice \/ ScanningTrace
    BY <2>1 DEF StartInv
  <2>5. "iip" \notin MapTables
    <3>1. PICK m \in Modes : replay = {m}
      BY <2>3 DEF Checked
    <3>2. Mode = m
      BY <3>1, Zenon DEF Mode
    <3>3. "iip" \notin TablesOf[m]
      BY DEF Modes, TablesOf
    <3> QED
      BY <3>2, <3>3 DEF MapTables
  <2>6. Checked' /\ (ScanningTrace' => "iip" \in live')
    <3>1. Checked' = Checked /\ ScanningTrace' = ScanningTrace
      BY <2>1, SameOptions DEF SameArgs
    <3>2. "iip" \in live => "iip" \in live'
      BY <2>1, <2>5
    <3> QED
      BY <2>3, <3>1, <3>2
  <2>7. "input" \in live' => NamesDevice' \/ ScanningTrace'
    BY <2>1, <2>4, SameOptions DEF SameArgs
  <2> QED
    BY <2>1, <2>2, <2>6, <2>7
    DEF StartInv, Begun, ArgsHandled, TablesCreated, DiskCreated, ScanStarted, Joined
<1> QED
  BY <1>1, <1>2

LEMMA ReleaseFilesStep == ASSUME StartInv, ReleaseFiles PROVE StartInv'
<1>1. CASE Aborts
  BY <1>1, FailsEnds
<1>2. CASE ~Aborts
  <2>1. stage' \in {"crashed", "exit"} /\ SameArgs
    BY <1>2 DEF ReleaseFiles, SameArgs
  <2>2. OptionsOK'
    BY <2>1 DEF StartInv, OptionsOK, SameArgs
  <2> QED
    BY <2>1, <2>2
    DEF StartInv, Begun, ArgsHandled, TablesCreated, DiskCreated, ScanStarted, Joined
<1> QED
  BY <1>1, <1>2

LEMMA StartStep == ASSUME StartInv, [StartupNext]_startVars PROVE StartInv'
<1>1. CASE Option
  BY <1>1, OptionStep
<1>2. CASE \E ok \in BOOLEAN : HandleArgs(ok) \/ CreateTables(ok) \/ ReleaseTables(ok)
  BY <1>2, HandleArgsStep, CreateTablesStep, ReleaseTablesStep
<1>3. CASE \E h \in {"good", "empty", "version"} : AddInputFile(h)
  BY <1>3, AddInputFileStep
<1>4. CASE CreateDisk \/ StartScan \/ JoinScan \/ StartThreads
  BY <1>4, CreateDiskStep, StartScanStep, JoinScanStep, StartThreadsStep
<1>5. CASE Warmup \/ ChooseReader \/ ReleaseFiles \/ Exit \/ ScanThread
  BY <1>5, WarmupStep, ChooseReaderStep, ReleaseFilesStep, FailsEnds, ScanThreadStep
<1>6. CASE \E end \in {"release", "crashed", "failed"} : Replay(end)
  BY <1>6, ReplayStep
<1>7. CASE UNCHANGED startVars
  <2>1. SameArgs /\ flags' = flags /\ UNCHANGED <<stage, live, scan, reader>>
    BY <1>7 DEF startVars, SameArgs
  <2>2. OptionsOK' /\ OutputFiles' = OutputFiles
    BY <2>1 DEF StartInv, OptionsOK, SameArgs, OutputFiles
  <2>3. /\ Scanning' = Scanning /\ ScanningTrace' = ScanningTrace
        /\ Collect' = Collect /\ NamesDevice' = NamesDevice
        /\ MapTables' = MapTables /\ Checked' = Checked
    BY <2>1, SameOptions DEF SameArgs
  <2>4. ReaderChosen' = ReaderChosen
    BY <2>1, <2>3 DEF ReaderChosen, SameArgs
  <2>5. replay' = replay /\ flags' = flags /\ stage' = stage /\ live' = live /\ scan' = scan
    BY <2>1 DEF SameArgs
  <2>6. reader' = reader
    BY <2>1
  <2> QED
    <3>1. /\ stage' \in {"options", "refused"} \cup (ArgsHandled \ (ScanStarted \cup {"release"})) =>
               scan' = "none"
          /\ stage' \in {"options"} \cup (ArgsHandled \ {"replay", "release"}) => reader' = "none"
          /\ stage' \in Begun => Checked' /\ (ScanningTrace' => "iip" \in live')
          /\ stage' \in ArgsHandled => ("io" \in replay' => "contentcache" \in live')
          /\ stage' \in TablesCreated => MapTables' \cup OutputFiles' \subseteq live'
      BY <2>2, <2>3, <2>5, <2>6 DEF StartInv
    <3>2. /\ stage' \in DiskCreated /\ "disksim" \in flags' =>
               /\ "simdisk" \in live'
               /\ "runtime" \in flags' \/ "s" \in replay' =>
                    "blkidtab" \in live' /\ ("p" \in replay' => "rabin" \in live')
          /\ stage' \in ScanStarted =>
               /\ Scanning' \/ "initmap" \in flags' => scan' # "none"
               /\ scan' \in {"none", "running", "ended", "failed"}
               /\ scan' = "ended" /\ "p" \in replay' => "rabin" \in live'
          /\ stage' \in Joined => (flags' \cap {"scans", "initmap"} # {} => scan' # "running")
      BY <2>3, <2>5 DEF StartInv
    <3>3. /\ stage' = "replay" /\ reader' # "none" => ReaderChosen'
          /\ stage' \in {"release", "release files"} /\ "input" \in live' =>
               NamesDevice' \/ ScanningTrace'
      BY <2>3, <2>4, <2>5, <2>6 DEF StartInv
    <3> QED
      BY <2>2, <3>1, <3>2, <3>3 DEF StartInv
<1> QED
  BY <1>1, <1>2, <1>3, <1>4, <1>5, <1>6, <1>7 DEF StartupNext, MainStep

\* A file of bunches is never read as events nor one of events as bunches
\* (main_sim_replay.c:925-990, sim-replay-generic.c:1303), as long as the name
\* of no file says that it is of both kinds.
THEOREM ReaderTheorem == NamesOneKind => (StartupSpec => []ReaderFitsFile)
<1> SUFFICES ASSUME NamesOneKind PROVE StartupSpec => []ReaderFitsFile
  OBVIOUS
<1>1. StartupInit => StartInv
  BY StartInitially
<1>2. StartInv /\ [StartupNext]_startVars => StartInv'
  BY StartStep
<1>3. StartInv => ReaderFitsFile
  BY DEF StartInv, ReaderChosen, ReaderFitsFile
<1> QED
  BY <1>1, <1>2, <1>3, PTL DEF StartupSpec

\* Nothing is used before it was created nor released without having been
\* opened (replay-plugins.c:157-374, main_sim_replay.c:1578-1594).
THEOREM NothingMissingTheorem == NamesOneKind => (StartupSpec => []NothingMissing)
<1> SUFFICES ASSUME NamesOneKind PROVE StartupSpec => []NothingMissing
  OBVIOUS
<1>1. StartupInit => StartInv
  BY StartInitially
<1>2. StartInv /\ [StartupNext]_startVars => StartInv'
  BY StartStep
<1>3. StartInv => NothingMissing
  <2> SUFFICES ASSUME StartInv PROVE NothingMissing
    OBVIOUS
  <2>1. ASSUME stage = "replay", reader # "none"
        PROVE  /\ MapTables \cup OutputFiles \subseteq live
               /\ "io" \in replay => "contentcache" \in live
               /\ "simdisk" \in live
               /\ "runtime" \in flags \/ "s" \in replay => "blkidtab" \in live
               /\ "p" \in replay => "rabin" \in live \/ "scanp" \in flags \/ scan = "failed"
               /\ "scans" \in flags => scan # "running"
    <3>1. /\ stage \in Joined /\ stage \in ScanStarted /\ stage \in DiskCreated
          /\ stage \in TablesCreated /\ stage \in ArgsHandled /\ stage \in Begun
      BY <2>1 DEF Joined, ScanStarted, DiskCreated, TablesCreated, ArgsHandled, Begun
    <3>2. ReaderChosen /\ Checked
      BY <2>1, <3>1 DEF StartInv
    <3>3. "disksim" \in flags /\ "simdisk" \in live
      BY <3>1, <3>2 DEF StartInv, ReaderChosen
    <3>4. "p" \in replay => "rabin" \in live \/ "scanp" \in flags \/ scan = "failed"
      BY <3>1, <3>2, <3>3 DEF StartInv, Checked, Sources, Scanning
    <3>5. "scans" \in flags => scan # "running"
      BY <3>1 DEF StartInv
    <3> QED
      BY <3>1, <3>3, <3>4, <3>5 DEF StartInv
  <2>2. stage = "release files" /\ "input" \in live => NamesDevice \/ "iip" \in live
    BY DEF StartInv, Begun
  <2> QED
    BY <2>1, <2>2 DEF NothingMissing
<1> QED
  BY <1>1, <1>2, <1>3, PTL DEF StartupSpec

-----------------------------------------------------------------------------
\* Arithmetic of the limits of the two caches.
LEMMA SmallRemainder == ASSUME NEW a \in Nat, NEW b \in Nat, a < b PROVE a % b = a
OBVIOUS

LEMMA MoreTimes == ASSUME NEW a \in Nat, NEW b \in Nat, a < b, NEW c \in Nat \ {0} PROVE a * c < b * c
<1>1. PICK d \in Nat \ {0} : b = a + d
  <2>1. b - a \in Nat \ {0} /\ b = a + (b - a)
    OBVIOUS
  <2> QED
    BY <2>1
<1>2. b * c = a * c + d * c
  BY <1>1
<1>3. a * c \in Nat /\ d * c \in Nat /\ d * c # 0
  OBVIOUS
<1> QED
  BY <1>2, <1>3

LEMMA RemainderLess == ASSUME NEW a \in Nat, NEW b \in Nat \ {0} PROVE a % b \in 0..a
<1>1. CASE a < b
  BY <1>1, SmallRemainder
<1>2. CASE ~(a < b)
  <2>1. a % b \in 0..(b - 1)
    OBVIOUS
  <2> QED
    BY <1>2, <2>1
<1> QED
  BY <1>1, <1>2

LEMMA LimitTypes ==
  /\ WordMB \in Nat \ {0} /\ BlocksPerMB \in Nat \ {0} /\ BlockBytes \in Nat \ {0}
  /\ WordMB \div 2 \in Nat \ {0} /\ WordMB = 2 * (WordMB \div 2)
  /\ WordMB * BlocksPerMB * BlockBytes \in Nat \ {0}
<1>1. WordMB \in Nat \ {0} /\ BlocksPerMB \in Nat \ {0} /\ BlockBytes \in Nat \ {0} /\ WordMB % 2 = 0
  BY StartupAssumption
<1>2. WordMB * BlocksPerMB \in Nat \ {0}
  BY <1>1
<1>3. (WordMB * BlocksPerMB) * BlockBytes \in Nat \ {0}
  BY <1>1, <1>2
<1> QED
  BY <1>1, <1>3

\* A number of blocks that a 32-bit unsigned can hold.
LEMMA FitsWord ==
  ASSUME NEW mb \in Nat, mb < WordMB
  PROVE  (mb * BlocksPerMB) % (WordMB * BlocksPerMB * BlockBytes) = mb * BlocksPerMB
<1>1. WordMB \in Nat \ {0} /\ BlocksPerMB \in Nat \ {0} /\ BlockBytes \in Nat \ {0}
  BY LimitTypes
<1>2. mb * BlocksPerMB < WordMB * BlocksPerMB
  BY <1>1, MoreTimes
<1>3. PICK p \in Nat \ {0} : p = WordMB * BlocksPerMB
  BY <1>1, <1>2
<1>4. p <= p * BlockBytes /\ p * BlockBytes \in Nat
  <2>1. PICK k \in Nat : BlockBytes = k + 1
    <3>1. BlockBytes - 1 \in Nat /\ BlockBytes = (BlockBytes - 1) + 1
      BY <1>1
    <3> QED
      BY <3>1
  <2>2. p * BlockBytes = p * k + p /\ p * k \in Nat
    BY <1>3, <2>1
  <2> QED
    BY <1>3, <2>2
<1>5. PICK q \in Nat : q = mb * BlocksPerMB
  BY <1>1
<1>6. q < p * BlockBytes
  BY <1>2, <1>3, <1>4, <1>5
<1> QED
  BY <1>3, <1>4, <1>5, <1>6, SmallRemainder

LEMMA LimitsTyped ==
  ASSUME NEW mb \in Int, NEW folded \in BOOLEAN
  PROVE  IntMB(mb) \in Int /\ SectorLimit(mb, folded) \in Nat /\ ContentLimit(mb) \in Nat
<1>1. /\ WordMB \in Nat \ {0} /\ BlocksPerMB \in Nat \ {0} /\ WordMB \div 2 \in Nat
      /\ WordMB * BlocksPerMB * BlockBytes \in Nat \ {0}
  BY LimitTypes
<1>2. mb % WordMB \in Nat
  BY <1>1
<1>3. IntMB(mb) \in Int
  BY <1>1, <1>2 DEF IntMB
<1>4. PICK m \in Int : m = IF folded THEN mb ELSE IntMB(mb)
  BY <1>3
<1>5. m * BlocksPerMB \in Int
  BY <1>1, <1>4
<1>6. PICK p \in Nat \ {0} : p = WordMB * BlocksPerMB * BlockBytes
  BY <1>1
<1>7. (m * BlocksPerMB) % p \in Nat
  BY <1>5
<1>8. (mb % WordMB) * BlocksPerMB \in Nat
  BY <1>1, <1>2
<1> QED
  BY <1>3, <1>4, <1>6, <1>7, <1>8 DEF SectorLimit, ContentLimit

\* The limits are exact as long as the bytes can be counted.
LEMMA LimitExact ==
  ASSUME NEW mb \in Nat
  PROVE  /\ \A folded \in BOOLEAN :
              mb < WordMB \div 2 => SectorLimit(mb, folded) = mb * BlocksPerMB
         /\ mb < WordMB => ContentLimit(mb) = mb * BlocksPerMB
<1>1. WordMB \in Nat \ {0} /\ WordMB \div 2 \in Nat /\ WordMB = 2 * (WordMB \div 2)
  BY LimitTypes
<1>2. mb < WordMB => mb % WordMB = mb
  BY <1>1, SmallRemainder
<1>3. mb < WordMB => ContentLimit(mb) = mb * BlocksPerMB
  BY <1>2 DEF ContentLimit
<1>4. ASSUME NEW folded \in BOOLEAN, mb < WordMB \div 2
      PROVE  SectorLimit(mb, folded) = mb * BlocksPerMB
  <2>1. mb < WordMB
    BY <1>1, <1>4
  <2>2. IntMB(mb) = mb
    BY <1>2, <1>4, <2>1 DEF IntMB
  <2>3. (IF folded THEN mb ELSE IntMB(mb)) = mb
    BY <2>2
  <2> QED
    BY <2>1, <2>3, FitsWord DEF SectorLimit
<1> QED
  BY <1>3, <1>4

\* Beyond that they are less, unless the bytes wrap to a negative number.
LEMMA LimitBounds ==
  ASSUME NEW mb \in Nat
  PROVE  /\ ContentLimit(mb) <= mb * BlocksPerMB
         /\ \A folded \in BOOLEAN :
              IntMB(mb) >= 0 => SectorLimit(mb, folded) <= mb * BlocksPerMB
<1>1. /\ WordMB \in Nat \ {0} /\ WordMB \div 2 \in Nat /\ BlocksPerMB \in Nat \ {0}
      /\ WordMB * BlocksPerMB * BlockBytes \in Nat \ {0}
  BY LimitTypes
<1>2. PICK r \in 0..mb : r = mb % WordMB
  BY <1>1, RemainderLess
<1>3. ASSUME NEW a \in 0..mb PROVE a * BlocksPerMB <= mb * BlocksPerMB /\ a * BlocksPerMB \in Nat
  <2>1. CASE a = mb
    BY <1>1, <2>1
  <2>2. CASE a # mb
    <3>1. a < mb /\ a \in Nat
      BY <2>2
    <3>2. a * BlocksPerMB < mb * BlocksPerMB
      BY <1>1, <3>1, MoreTimes
    <3>3. a * BlocksPerMB \in Nat /\ mb * BlocksPerMB \in Nat
      BY <1>1, <3>1
    <3> QED
      BY <3>2, <3>3
  <2> QED
    BY <2>1, <2>2
<1>4. ContentLimit(mb) <= mb * BlocksPerMB
  BY <1>2, <1>3 DEF ContentLimit
<1>5. ASSUME NEW folded \in BOOLEAN, IntMB(mb) >= 0
      PROVE  SectorLimit(mb, folded) <= mb * BlocksPerMB
  <2>1. IntMB(mb) \in {r, r - WordMB}
    BY <1>2 DEF IntMB
  <2>2. IntMB(mb) \in 0..mb
    BY <1>1, <1>2, <1>5, <2>1
  <2>3. PICK m \in 0..mb : m = IF folded THEN mb ELSE IntMB(mb)
    BY <2>2
  <2>4. PICK q \in Nat : q = m * BlocksPerMB /\ q <= mb * BlocksPerMB
    BY <1>3, <2>3
  <2>5. q % (WordMB * BlocksPerMB * BlockBytes) \in 0..q
    BY <1>1, <2>4, RemainderLess
  <2>6. SectorLimit(mb, folded) \in 0..q
    BY <2>3, <2>4, <2>5 DEF SectorLimit
  <2>7. mb * BlocksPerMB \in Nat
    BY <1>1
  <2> QED
    BY <2>4, <2>6, <2>7
<1> QED
  BY <1>4, <1>5

LEMMA LimitsInitially == StartupInit => CachesInv
<1> SUFFICES ASSUME StartupInit PROVE CachesInv
  OBVIOUS
<1>1. /\ size = [ram |-> DefaultRAM, ccache |-> DefaultCCACHE] /\ stage = "options"
      /\ cache = [sectors |-> 0, contents |-> 0] /\ scan = "none"
  BY DEF StartupInit
<1>2. DefaultRAM \in Nat /\ DefaultCCACHE \in Nat
  BY StartupAssumption
<1>3. args \in Seq(Options)
  BY StartupAssumption DEF StartupInit, Options
<1> QED
  BY <1>1, <1>2, <1>3 DEF CachesInv, CachesWithinMemory

\* The sizes that were accepted, in the limits handle_args sets.
LEMMA LimitsSet ==
  ASSUME size \in [ram : Int, ccache : Int], ~SizesRefused, NEW folded \in BOOLEAN,
         NEW c, c = Caches(folded)
  PROVE  /\ c.sectors \in Int /\ c.contents \in Int
         /\ SectorMB < WordMB \div 2 /\ ("io" \in replay => size.ccache < WordMB) =>
              c.sectors + c.contents = size.ram * BlocksPerMB
         /\ c.sectors + c.contents > size.ram * BlocksPerMB => IntMB(SectorMB) < 0
<1>1. BlocksPerMB \in Nat \ {0}
  BY LimitTypes
<1>2. PICK s \in Nat : s = SectorMB
  BY DEF SizesRefused, SectorMB
<1>3. c.sectors = SectorLimit(s, folded) /\ SectorLimit(s, folded) \in Nat
  <2>1. c.sectors = SectorLimit(SectorMB, folded)
    BY DEF Caches
  <2>2. SectorLimit(s, folded) \in Nat
    BY LimitsTyped
  <2>3. SectorLimit(SectorMB, folded) = SectorLimit(s, folded)
    BY <1>2
  <2> QED
    BY <2>1, <2>2, <2>3
<1>4. IntMB(s) \in Int /\ s * BlocksPerMB \in Nat
  <2>1. s \in Int /\ s * BlocksPerMB \in Nat
    BY <1>1
  <2>2. IntMB(s) \in Int
    BY <2>1, LimitsTyped
  <2> QED
    BY <2>1, <2>2
<1>5. CASE "io" \in replay
  <2>1. PICK o \in Nat : o = size.ccache /\ s + o = size.ram
    BY <1>2, <1>5 DEF SizesRefused, SectorMB
  <2>2. c.contents = ContentLimit(o) /\ ContentLimit(o) \in Nat
    BY <1>5, <2>1, LimitsTyped DEF Caches
  <2>3. size.ram * BlocksPerMB = s * BlocksPerMB + o * BlocksPerMB /\ o * BlocksPerMB \in Nat
    BY <1>1, <2>1
  <2>4. ASSUME s < WordMB \div 2, o < WordMB
        PROVE  c.sectors + c.contents = size.ram * BlocksPerMB
    BY <1>3, <2>2, <2>3, <2>4, LimitExact
  <2>5. ASSUME IntMB(s) >= 0 PROVE c.sectors + c.contents <= size.ram * BlocksPerMB
    <3>1. SectorLimit(s, folded) <= s * BlocksPerMB /\ ContentLimit(o) <= o * BlocksPerMB
      BY <2>5, LimitBounds
    <3> QED
      BY <1>3, <1>4, <2>2, <2>3, <3>1
  <2>6. c.sectors + c.contents \in Int /\ size.ram * BlocksPerMB \in Int
    BY <1>3, <1>4, <2>2, <2>3
  <2>7. c.sectors + c.contents > size.ram * BlocksPerMB => IntMB(s) < 0
    BY <1>4, <2>5, <2>6
  <2> QED
    BY <1>2, <1>3, <1>5, <2>1, <2>2, <2>4, <2>7
<1>6. CASE "io" \notin replay
  <2>1. s = size.ram /\ c.contents = 0
    BY <1>2, <1>6 DEF SectorMB, Caches
  <2>2. s < WordMB \div 2 => c.sectors = s * BlocksPerMB
    BY <1>3, LimitExact
  <2>3. IntMB(s) >= 0 => c.sectors <= s * BlocksPerMB
    BY <1>3, LimitBounds
  <2>4. /\ s < WordMB \div 2 => c.sectors + c.contents = s * BlocksPerMB
        /\ c.sectors + c.contents > s * BlocksPerMB => IntMB(s) < 0
    BY <1>3, <1>4, <2>1, <2>2, <2>3
  <2> QED
    BY <1>2, <1>3, <2>1, <2>4
<1> QED
  BY <1>5, <1>6

LEMMA LimitsStay ==
  ASSUME CachesInv, UNCHANGED <<args, cache, size, replay>>,
         stage' = "options" => scan' = "none",
         stage \in {"options", "refused", "crashed"} =>
           stage' \in {"options", "refused", "crashed"}
  PROVE  CachesInv'
BY DEF CachesInv, CachesWithinMemory, SectorMB

LEMMA LimitsStep == ASSUME CachesInv, [StartupNext]_startVars PROVE CachesInv'
<1> DEFINE NotSet == {"options", "refused", "crashed"}
<1>1. CASE Option
  <2>1. stage' \in NotSet /\ UNCHANGED <<cache, scan>> /\ stage = "options"
    BY <1>1 DEF Option
  <2>2. args' \in Seq(Options) /\ size' \in [ram : Int, ccache : Int]
    <3>1. args \in Seq(Options) /\ args # <<>> /\ args' = Tail(args)
      BY <1>1 DEF CachesInv, Option
    <3>2. PICK o \in Options : o = Head(args)
      BY <3>1, EmptySeq, HeadTailProperties
    <3>3. args' \in Seq(Options)
      BY <3>1, EmptySeq, HeadTailProperties
    <3>4. size' = IF o.opt \in DOMAIN SizeOf THEN [size EXCEPT ![SizeOf[o.opt]] = o.n] ELSE size
      BY <1>1, <3>2 DEF Option
    <3>5. size \in [ram : Int, ccache : Int] /\ o.n \in Int
      BY <3>2 DEF CachesInv, Options
    <3> QED
      BY <3>3, <3>4, <3>5
  <2> QED
    BY <2>1, <2>2 DEF CachesInv, CachesWithinMemory
<1>2. CASE \E ok \in BOOLEAN : HandleArgs(ok)
  <2>1. /\ args' = args /\ size' = size /\ replay' = replay
        /\ \/ stage' \in {"refused", "crashed"} /\ cache' = cache
           \/ /\ stage' = "input" /\ ~SizesRefused
              /\ \E folded \in BOOLEAN : cache' = Caches(folded)
    BY <1>2 DEF HandleArgs, optionVars
  <2>2. CASE stage' \in {"refused", "crashed"} /\ cache' = cache
    BY <2>1, <2>2 DEF CachesInv, CachesWithinMemory
  <2>3. CASE /\ stage' = "input" /\ ~SizesRefused
             /\ \E folded \in BOOLEAN : cache' = Caches(folded)
    <3>1. PICK folded \in BOOLEAN : cache' = Caches(folded)
      BY <2>3
    <3>2. size \in [ram : Int, ccache : Int]
      BY DEF CachesInv
    <3>3. /\ cache'.sectors \in Int /\ cache'.contents \in Int
          /\ SectorMB < WordMB \div 2 /\ ("io" \in replay => size.ccache < WordMB) =>
               cache'.sectors + cache'.contents = size.ram * BlocksPerMB
          /\ cache'.sectors + cache'.contents > size.ram * BlocksPerMB => IntMB(SectorMB) < 0
      BY <2>3, <3>1, <3>2, LimitsSet
    <3>4. CachesWithinMemory'
      BY <2>1, <3>3 DEF CachesWithinMemory, SectorMB
    <3> QED
      BY <2>1, <2>3, <3>3, <3>4 DEF CachesInv
  <2> QED
    BY <2>1, <2>2, <2>3
<1>3. CASE UNCHANGED startVars
  BY <1>3, LimitsStay DEF startVars, CachesInv
<1>4. CASE StartupNext /\ ~Option /\ ~\E ok \in BOOLEAN : HandleArgs(ok)
  <2>1. UNCHANGED <<args, cache, size, replay>> /\ stage \notin NotSet /\ stage' # "options"
    <3>1. ASSUME CreateDisk \/ StartScan \/ JoinScan \/ StartThreads
          PROVE  UNCHANGED <<args, cache, size, replay>> /\ stage \notin NotSet /\ stage' # "options"
      BY <3>1 DEF CreateDisk, StartScan, JoinScan, StartThreads, optionVars
    <3>2. ASSUME Fails \/ Aborts
          PROVE  UNCHANGED <<args, cache, size, replay>> /\ stage' # "options"
      BY <3>2 DEF Fails, Aborts, SimReplayExit, optionVars
    <3>3. ASSUME NEW ok \in BOOLEAN, CreateTables(ok) \/ ReleaseTables(ok)
          PROVE  UNCHANGED <<args, cache, size, replay>> /\ stage \notin NotSet /\ stage' # "options"
      BY <3>2, <3>3 DEF CreateTables, ReleaseTables, optionVars
    <3>4. ASSUME NEW h, AddInputFile(h)
          PROVE  UNCHANGED <<args, cache, size, replay>> /\ stage \notin NotSet /\ stage' # "options"
      BY <3>2, <3>4 DEF AddInputFile, optionVars
    <3>5. ASSUME Warmup \/ ChooseReader \/ ReleaseFiles
          PROVE  /\ UNCHANGED <<args, cache, size, replay>> /\ stage \notin NotSet
                 /\ stage' # "options"
      BY <3>2, <3>5 DEF Warmup, ChooseReader, ReleaseFiles, optionVars
    <3>6. ASSUME NEW end \in {"release", "crashed", "failed"}, Replay(end)
          PROVE  UNCHANGED <<args, cache, size, replay>> /\ stage \notin NotSet /\ stage' # "options"
      BY <3>2, <3>6 DEF Replay, optionVars
    <3>7. ASSUME Exit
          PROVE  UNCHANGED <<args, cache, size, replay>> /\ stage \notin NotSet /\ stage' # "options"
      BY <3>7 DEF Exit, SimReplayExit, optionVars
    <3>8. ASSUME ScanThread, ~Gone
          PROVE  UNCHANGED <<args, cache, size, replay>> /\ stage \notin NotSet /\ stage' # "options"
      <4>1. scan = "running" /\ UNCHANGED <<args, cache, size, replay>>
        BY <3>8 DEF ScanThread, optionVars
      <4>2. stage \notin NotSet
        BY <3>8, <4>1 DEF Gone, CachesInv
      <4>3. stage' = stage \/ stage' = "aborted"
        BY <3>8
        DEF ScanThread, ProScandiskRoutine, ConScandiskRoutine, IoScandiskRoutine,
            MapreadupRoutine, ScanEnds, ScanAborts
      <4> QED
        BY <4>1, <4>2, <4>3
    <3> QED
      BY <1>4, <3>1, <3>3, <3>4, <3>5, <3>6, <3>7, <3>8 DEF StartupNext, MainStep
  <2> QED
    BY <2>1, LimitsStay
<1> QED
  BY <1>1, <1>2, <1>3, <1>4

\* Both caches together hold as many blocks as fit in the memory of -O, if each
\* size fits in the integers it is computed in; and more than that only if the
\* size of the sector cache has wrapped to a negative one
\* (sectorcache.c:69-77, contentcache.c:266-289, main_sim_replay.c:845-862).
THEOREM CachesTheorem == StartupSpec => []CachesWithinMemory
<1>1. StartupInit => CachesInv
  BY LimitsInitially
<1>2. CachesInv /\ [StartupNext]_startVars => CachesInv'
  BY LimitsStep
<1>3. CachesInv => CachesWithinMemory
  BY DEF CachesInv
<1> QED
  BY <1>1, <1>2, <1>3, PTL DEF StartupSpec

-----------------------------------------------------------------------------
\* Bunches.  The packets up to one, and the bunch that follows them.
UpTo(n) == [i \in 1..n |-> i]
Follows(b, n) == b \in Seq(Nat) /\ Len(b) \in Nat \ {0} /\ \A j \in 1..Len(b) : b[j] = n + j
Before(B, i) == IF i = 1 THEN 0 ELSE Last(B[i - 1])
InTurn(B) == B \in Seq(Seq(Nat)) /\ \A i \in 1..Len(B) : Follows(B[i], Before(B, i))
Taken(B) == IF Len(B) = 0 THEN 0 ELSE Last(B[Len(B)])

LEMMA UpToFollowed ==
  ASSUME NEW n \in Nat, NEW b, Follows(b, n)
  PROVE  /\ Last(b) = n + Len(b) /\ Last(b) \in Nat /\ n < Last(b) /\ Head(b) = n + 1
         /\ UpTo(n) \o b = UpTo(Last(b)) /\ (n = 0 => b = UpTo(Last(b)))
<1>1. PICK m \in Nat \ {0} : m = Len(b)
  BY DEF Follows
<1>2. b \in Seq(Nat) /\ Len(b) = m /\ DOMAIN b = 1..m /\ \A j \in 1..m : b[j] = n + j
  BY <1>1, LenProperties DEF Follows
<1>3. Last(b) = n + m /\ Head(b) = n + 1
  BY <1>1, <1>2, HeadTailProperties, EmptySeq DEF Last
<1>4. /\ UpTo(n) \in Seq(Nat) /\ Len(UpTo(n)) = n /\ \A j \in 1..n : UpTo(n)[j] = j
      /\ UpTo(n + m) \in Seq(Nat) /\ Len(UpTo(n + m)) = n + m
      /\ \A j \in 1..(n + m) : UpTo(n + m)[j] = j
  BY <1>1 DEF UpTo
<1>5. PICK u : u = UpTo(n)
  OBVIOUS
<1>6. /\ u \o b \in Seq(Nat) /\ Len(u \o b) = n + m
      /\ \A j \in 1..(n + m) : (u \o b)[j] = j
  <2>1. u \in Seq(Nat) /\ Len(u) = n /\ \A j \in 1..n : u[j] = j
    BY <1>4, <1>5
  <2>2. /\ u \o b \in Seq(Nat) /\ Len(u \o b) = Len(u) + Len(b)
        /\ \A j \in 1..(Len(u) + Len(b)) :
             (u \o b)[j] = IF j <= Len(u) THEN u[j] ELSE b[j - Len(u)]
    <3>1. u \in Seq(Nat) /\ b \in Seq(Nat)
      BY <1>2, <2>1
    <3> QED
      BY <3>1, ConcatProperties
  <2>3. \A j \in 1..(n + m) : (u \o b)[j] = IF j <= n THEN u[j] ELSE b[j - n]
    BY <1>2, <2>1, <2>2
  <2>4. ASSUME NEW j \in 1..(n + m) PROVE (u \o b)[j] = j
    <3>1. CASE j <= n
      BY <2>1, <2>3, <3>1
    <3>2. CASE ~(j <= n)
      <4>1. j - n \in 1..m /\ n + (j - n) = j
        BY <1>1, <3>2
      <4>2. b[j - n] = n + (j - n)
        BY <1>2, <4>1
      <4> QED
        BY <2>3, <3>2, <4>1, <4>2
    <3> QED
      BY <3>1, <3>2
  <2> QED
    BY <1>2, <2>1, <2>2, <2>4
<1>7. UpTo(n) \o b = UpTo(n + m)
  BY <1>4, <1>5, <1>6, SeqEqual, n + m \in Nat
<1>8. ASSUME n = 0 PROVE b = UpTo(n + m)
  <2>1. \A j \in 1..(n + m) : b[j] = j
    BY <1>1, <1>2, <1>8
  <2>2. Len(b) = n + m
    BY <1>1, <1>2, <1>8
  <2> QED
    BY <1>2, <1>4, <2>1, <2>2, SeqEqual
<1> QED
  BY <1>1, <1>3, <1>7, <1>8

\* In bunches that follow one another the first packet is 1.
LEMMA PacketsBefore ==
  ASSUME NEW B, InTurn(B)
  PROVE  \A i \in 1..Len(B) : Before(B, i) \in Nat /\ Last(B[i]) \in Nat
<1>1. PICK T : T = {i \in 1..Len(B) : ~(Before(B, i) \in Nat)}
  OBVIOUS
<1>2. Len(B) \in Nat /\ T \in SUBSET Nat /\ \A i \in 1..Len(B) : i \in T \/ Before(B, i) \in Nat
  BY <1>1, LenProperties DEF InTurn
<1>3. ASSUME T # {} PROVE FALSE
  <2>1. PICK i \in T : \A j \in T : i <= j
    BY <1>2, <1>3, SmallestOne
  <2>2. i \in 1..Len(B) /\ ~(Before(B, i) \in Nat)
    BY <1>1
  <2>3. i # 1
    BY <2>2 DEF Before
  <2>4. PICK j \in 1..Len(B) : j = i - 1
    BY <1>2, <2>2, <2>3
  <2>5. j \notin T
    BY <2>1, <2>2, <2>4
  <2>6. Before(B, j) \in Nat /\ Follows(B[j], Before(B, j))
    BY <1>2, <2>5 DEF InTurn
  <2>7. Last(B[j]) \in Nat
    BY <2>6, UpToFollowed
  <2> QED
    BY <2>2, <2>3, <2>4, <2>7 DEF Before
<1>4. ASSUME NEW i \in 1..Len(B) PROVE Before(B, i) \in Nat /\ Last(B[i]) \in Nat
  <2>1. Before(B, i) \in Nat /\ Follows(B[i], Before(B, i))
    BY <1>2, <1>3 DEF InTurn
  <2> QED
    BY <2>1, UpToFollowed
<1> QED
  BY <1>4

LEMMA FlattenedInTurn ==
  ASSUME NEW B, InTurn(B), Len(B) # 0
  PROVE  FlattenSeq(B) = UpTo(Taken(B))
<1>1. PICK n \in Nat \ {0} : n = Len(B)
  BY LenProperties DEF InTurn
<1>2. PICK g : g = [i \in 1..n |-> UpTo(Last(B[i]))]
  OBVIOUS
<1>3. ASSUME NEW i \in 1..n
      PROVE  g[i] = IF i = 1 THEN B[i] ELSE g[i - 1] \o B[i]
  <2>1. Follows(B[i], Before(B, i)) /\ Before(B, i) \in Nat
    BY <1>1, PacketsBefore DEF InTurn
  <2>2. CASE i = 1
    BY <1>2, <2>1, <2>2, UpToFollowed DEF Before
  <2>3. CASE i # 1
    <3>1. i - 1 \in 1..n
      BY <2>3
    <3>2. g[i - 1] = UpTo(Before(B, i))
      BY <1>2, <2>3, <3>1 DEF Before
    <3> QED
      <4>1. UpTo(Last(B[i])) = UpTo(Before(B, i)) \o B[i]
        BY <2>1, UpToFollowed
      <4> QED
        BY <1>2, <2>3, <3>2, <4>1
  <2> QED
    BY <2>2, <2>3
<1>4. Flattens(g, B)
  <2>1. g = [i \in 1..n |-> g[i]]
    BY <1>2
  <2>2. [i \in 1..n |-> g[i]] = [i \in 1..n |-> IF i = 1 THEN B[i] ELSE g[i - 1] \o B[i]]
    BY <1>3
  <2> QED
    BY <1>1, <2>1, <2>2, Zenon DEF Flattens
<1>5. FlattenSeq(B) = g[n]
  BY <1>1, <1>4, FlattenedBy
<1> QED
  BY <1>1, <1>2, <1>5 DEF Taken

LEMMA AppendedInTurn ==
  ASSUME NEW B, NEW b, InTurn(B), Follows(b, Taken(B))
  PROVE  /\ InTurn(Append(B, b)) /\ Taken(Append(B, b)) = Last(b)
         /\ Len(Append(B, b)) = Len(B) + 1 /\ Append(B, b)[Len(B) + 1] = b
         /\ \A i \in 1..Len(B) : Append(B, b)[i] = B[i]
<1>1. PICK n \in Nat : n = Len(B)
  BY LenProperties DEF InTurn
<1>2. PICK C : C = Append(B, b)
  OBVIOUS
<1>3. /\ C \in Seq(Seq(Nat)) /\ Len(C) = n + 1 /\ C[n + 1] = b
      /\ \A i \in 1..n : C[i] = B[i]
  BY <1>1, <1>2, AppendProperties DEF InTurn, Follows
<1>4. Taken(C) = Last(b)
  BY <1>3 DEF Taken
<1>5. ASSUME NEW i \in 1..(n + 1)
      PROVE  Follows(C[i], Before(C, i))
  <2>1. CASE i = n + 1
    <3>1. Before(C, i) = Taken(B)
      <4>1. CASE n = 0
        BY <1>1, <2>1, <4>1 DEF Before, Taken
      <4>2. CASE n # 0
        <5>1. i - 1 = n /\ i # 1 /\ n \in 1..n
          BY <2>1, <4>2
        <5> QED
          BY <1>1, <1>3, <4>2, <5>1 DEF Before, Taken
      <4> QED
        BY <4>1, <4>2
    <3> QED
      BY <1>3, <2>1, <3>1
  <2>2. CASE i # n + 1
    <3>1. i \in 1..n /\ (i # 1 => i - 1 \in 1..n)
      BY <2>2
    <3>2. Before(C, i) = Before(B, i)
      BY <1>3, <3>1 DEF Before
    <3> QED
      BY <1>1, <1>3, <3>1, <3>2 DEF InTurn
  <2> QED
    BY <2>1, <2>2
<1>6. InTurn(C)
  BY <1>3, <1>5 DEF InTurn
<1> QED
  BY <1>1, <1>2, <1>3, <1>4, <1>6

Fits(b) == Len(b) <= MaxPkts /\ times[Last(b)] - times[Head(b)] <= MaxTm

\* The inductive invariant: the bunches in the file follow one another up to
\* the packets taken, or to the bunch that is being filled, which has begun
\* when the stream says; what was read are the first of them; and the header
\* counts every bunch but that one.
BunchInv ==
  /\ times \in Seq(Nat) /\ next \in 0..Len(times)
  /\ stream \in [start_time : Nat, last_time : Nat, bunches : Nat, pkts : Nat]
  /\ InTurn(bunches) /\ \A i \in 1..Len(bunches) : Fits(bunches[i])
  /\ cur = << >> => next = Taken(bunches)
  /\ cur # << >> =>
       /\ Follows(cur, Taken(bunches)) /\ Last(cur) = next /\ Fits(cur)
       /\ stream.start_time = times[Head(cur)]
  /\ cut.whole \in 0..Len(bunches) /\ (cut.part => cut.whole < Len(bunches))
  /\ read \in Seq(Seq(Nat)) /\ Len(read) <= cut.whole
  /\ \A i \in 1..Len(read) : read[i] = bunches[i]
  /\ state \in {"bunching", "aborted"} => read = << >>
  /\ state \notin {"bunching", "aborted"} => cur = << >> /\ next = Len(times)
  /\ state = "ended" => Len(read) = cut.whole
  /\ state = "bunching" => stream.bunches = Len(bunches)
  /\ state \notin {"bunching", "aborted"} => Len(bunches) <= header.nbunches + 1
  /\ state = "left out" => header.nbunches = 0
  /\ state = "fatal" => cut.part

LEMMA BunchInitially == StreamOpen => BunchInv
<1> SUFFICES ASSUME StreamOpen PROVE BunchInv
  OBVIOUS
<1>1. /\ times \in Times /\ next = 0 /\ cur = << >>
      /\ stream = [start_time |-> 0, last_time |-> 0, bunches |-> 0, pkts |-> 0]
      /\ bunches = << >> /\ cut = [whole |-> 0, part |-> FALSE]
      /\ read = << >> /\ state = "bunching"
  BY DEF StreamOpen, NoBunch
<1>2. times \in Seq(Nat) /\ Len(times) \in Nat
  BY <1>1, BunchingAssumption, LenProperties
<1>3. bunches \in Seq(Seq(Nat)) /\ Len(bunches) = 0 /\ read \in Seq(Seq(Nat)) /\ Len(read) = 0
  BY <1>1, EmptySeq
<1>4. InTurn(bunches) /\ Taken(bunches) = 0
  BY <1>3 DEF InTurn, Taken
<1> QED
  BY <1>1, <1>2, <1>3, <1>4 DEF BunchInv

\* The file once the bunch that is being filled is written as well.
LEMMA WrittenInTurn ==
  ASSUME BunchInv
  PROVE  /\ InTurn(Written) /\ Taken(Written) = next
         /\ \A i \in 1..Len(Written) : Fits(Written[i])
         /\ Len(Written) \in Nat /\ Len(bunches) \in Nat
         /\ Len(Written) \in Len(bunches)..(Len(bunches) + 1)
<1>1. Len(bunches) \in Nat
  BY LenProperties DEF BunchInv, InTurn
<1>2. CASE cur = << >>
  <2>1. Written = bunches
    BY <1>2 DEF Written, NoBunch
  <2>2. /\ InTurn(bunches) /\ Taken(bunches) = next
        /\ \A i \in 1..Len(bunches) : Fits(bunches[i])
    BY <1>2 DEF BunchInv
  <2> QED
    BY <1>1, <2>1, <2>2
<1>3. CASE cur # << >>
  <2>1. Written = Append(bunches, cur)
    BY <1>3 DEF Written, NoBunch
  <2>2. /\ InTurn(bunches) /\ Follows(cur, Taken(bunches)) /\ Last(cur) = next /\ Fits(cur)
        /\ \A i \in 1..Len(bunches) : Fits(bunches[i])
    BY <1>3 DEF BunchInv
  <2>3. /\ InTurn(Written) /\ Taken(Written) = Last(cur) /\ Len(Written) = Len(bunches) + 1
        /\ Written[Len(bunches) + 1] = cur
        /\ \A i \in 1..Len(bunches) : Written[i] = bunches[i]
    BY <2>1, <2>2, AppendedInTurn
  <2>4. PICK n \in Nat : n = Len(bunches)
    BY <1>1
  <2>5. ASSUME NEW i \in 1..(n + 1) PROVE Fits(Written[i])
    <3>1. i = n + 1 \/ i \in 1..n
      OBVIOUS
    <3> QED
      BY <2>2, <2>3, <2>4, <3>1
  <2> QED
    BY <2>2, <2>3, <2>4, <2>5
<1> QED
  BY <1>2, <1>3

\* The packet that is taken next begins a bunch or goes on with the last one.
LEMMA PacketBegins ==
  ASSUME NEW n \in Nat
  PROVE  Follows(<<n + 1>>, n) /\ Last(<<n + 1>>) = n + 1 /\ Head(<<n + 1>>) = n + 1
BY DEF Follows, Last

LEMMA PacketAdded ==
  ASSUME NEW n \in Nat, NEW b, Follows(b, n), NEW m, m = Last(b) + 1
  PROVE  /\ Follows(Append(b, m), n) /\ Last(Append(b, m)) = m
         /\ Head(Append(b, m)) = Head(b) /\ Len(Append(b, m)) = Len(b) + 1
<1>1. PICK k \in Nat \ {0} : k = Len(b)
  BY DEF Follows
<1>2. b \in Seq(Nat) /\ Len(b) = k /\ \A j \in 1..k : b[j] = n + j
  BY <1>1 DEF Follows
<1>3. m = n + k + 1
  BY <1>1, UpToFollowed
<1>4. PICK c : c = Append(b, m)
  OBVIOUS
<1>5. c \in Seq(Nat) /\ Len(c) = k + 1 /\ c[k + 1] = m /\ \A j \in 1..k : c[j] = b[j]
  <2>1. m \in Nat
    BY <1>1, <1>3
  <2> QED
    BY <1>2, <1>4, <2>1, AppendProperties
<1>6. \A j \in 1..(k + 1) : c[j] = n + j
  <2> SUFFICES ASSUME NEW j \in 1..(k + 1) PROVE c[j] = n + j
    OBVIOUS
  <2>1. j \in 1..k \/ j = k + 1
    OBVIOUS
  <2> QED
    <3>1. CASE j \in 1..k
      BY <1>2, <1>5, <3>1
    <3>2. CASE j = k + 1
      BY <1>1, <1>3, <1>5, <3>2
    <3> QED
      BY <2>1, <3>1, <3>2
<1>7. Head(c) = Head(b) /\ Last(c) = m
  <2>1. b # <<>> /\ c # <<>> /\ 1 \in 1..k
    BY <1>2, <1>5, EmptySeq
  <2> QED
    BY <1>2, <1>5, <2>1, HeadTailProperties DEF Last
<1> QED
  BY <1>1, <1>4, <1>5, <1>6, <1>7 DEF Follows

LEMMA FlushedCounts ==
  ASSUME BunchInv
  PROVE  /\ Flushed(stream) \in [start_time : Nat, last_time : Nat, bunches : Nat, pkts : Nat]
         /\ state = "bunching" => Flushed(stream).bunches = Len(Written)
<1>1. PICK s : s = stream /\ s \in [start_time : Nat, last_time : Nat, bunches : Nat, pkts : Nat]
  BY DEF BunchInv
<1>2. CASE cur = << >>
  BY <1>1, <1>2 DEF Flushed, Written, NoBunch, BunchInv
<1>3. CASE cur # << >>
  <2>1. PICK k \in Nat : k = Len(cur)
    BY <1>3 DEF BunchInv, Follows
  <2>2. Flushed(s) = [s EXCEPT !.bunches = s.bunches + 1, !.pkts = s.pkts + k]
    BY <1>3, <2>1 DEF Flushed, NoBunch
  <2>3. PICK n \in Nat, p \in Nat : n = s.bunches + 1 /\ p = s.pkts + k
    BY <1>1, <2>1
  <2>4. /\ [s EXCEPT !.bunches = n, !.pkts = p]
             \in [start_time : Nat, last_time : Nat, bunches : Nat, pkts : Nat]
        /\ [s EXCEPT !.bunches = n, !.pkts = p].bunches = n
    BY <1>1
  <2>5. state = "bunching" => n = Len(Written)
    <3>1. Written = Append(bunches, cur)
      BY <1>3 DEF Written, NoBunch
    <3>2. bunches \in Seq(Seq(Nat)) /\ cur \in Seq(Nat)
      BY <1>3 DEF BunchInv, InTurn, Follows
    <3>3. Len(Written) = Len(bunches) + 1
      BY <3>1, <3>2, AppendProperties
    <3>4. state = "bunching" => s.bunches = Len(bunches)
      BY <1>1 DEF BunchInv
    <3> QED
      BY <2>3, <3>3, <3>4
  <2> QED
    BY <1>1, <2>2, <2>3, <2>4, <2>5
<1> QED
  BY <1>2, <1>3

LEMMA StreamAddIoStep == ASSUME BunchInv, StreamAddIo PROVE BunchInv'
<1> DEFINE time == times[next + 1]
           begins == cur = NoBunch \/ BunchDone(time)
           s == IF begins THEN VmBunchCreate(Flushed(stream), time) ELSE stream
           bunch == IF begins THEN NoBunch ELSE cur
<1>1. /\ state = "bunching" /\ next < Len(times) /\ read = << >>
      /\ bunches' = (IF begins THEN Written ELSE bunches)
      /\ VmBunchAdd(s, bunch, time) /\ UNCHANGED <<times, cut, read>>
  BY DEF StreamAddIo, BunchInv
<1>2. /\ times \in Seq(Nat) /\ Len(times) \in Nat /\ next \in Nat /\ next + 1 \in 1..Len(times)
      /\ time \in Nat
  <2>1. times \in Seq(Nat) /\ Len(times) \in Nat /\ next \in 0..Len(times)
    BY LenProperties DEF BunchInv
  <2>2. next + 1 \in 1..Len(times)
    BY <1>1, <2>1
  <2> QED
    BY <2>1, <2>2, ElementOfSeq
<1>3. /\ s \in [start_time : Nat, last_time : Nat, bunches : Nat, pkts : Nat]
      /\ begins => s.start_time = time
      /\ s.bunches = Len(IF begins THEN Written ELSE bunches)
  <2>1. /\ stream \in [start_time : Nat, last_time : Nat, bunches : Nat, pkts : Nat]
        /\ stream.bunches = Len(bunches)
    BY <1>1 DEF BunchInv
  <2>3. /\ Flushed(stream) \in [start_time : Nat, last_time : Nat, bunches : Nat, pkts : Nat]
        /\ Flushed(stream).bunches = Len(Written)
    BY <1>1, FlushedCounts
  <2>4. PICK f : f = Flushed(stream)
    OBVIOUS
  <2>5. PICK t \in Nat : t = time
    BY <1>2
  <2>6. PICK r : r = VmBunchCreate(f, t)
    OBVIOUS
  <2>7. /\ r \in [start_time : Nat, last_time : Nat, bunches : Nat, pkts : Nat]
        /\ r.start_time = t /\ r.bunches = f.bunches
    BY <2>3, <2>4, <2>6 DEF VmBunchCreate
  <2> QED
    BY <2>1, <2>3, <2>4, <2>5, <2>6, <2>7
<1>4. /\ InTurn(bunches') /\ \A i \in 1..Len(bunches') : Fits(bunches'[i])
      /\ Len(bunches) \in Nat /\ Len(bunches') \in Nat /\ Len(bunches) <= Len(bunches')
      /\ begins => Taken(bunches') = next
      /\ ~begins => bunches' = bunches
  BY <1>1, WrittenInTurn DEF BunchInv
<1>5. /\ ~begins => /\ Follows(cur, Taken(bunches)) /\ Last(cur) = next /\ Fits(cur)
                    /\ stream.start_time = times[Head(cur)] /\ Taken(bunches) \in Nat
                    /\ Len(cur) < MaxPkts /\ time - stream.start_time <= MaxTm
  <2> SUFFICES ASSUME ~begins
               PROVE  /\ Follows(cur, Taken(bunches)) /\ Last(cur) = next /\ Fits(cur)
                      /\ stream.start_time = times[Head(cur)] /\ Taken(bunches) \in Nat
                      /\ Len(cur) < MaxPkts /\ time - stream.start_time <= MaxTm
    OBVIOUS
  <2>1. /\ Follows(cur, Taken(bunches)) /\ Last(cur) = next /\ Fits(cur)
        /\ stream.start_time = times[Head(cur)]
    BY DEF BunchInv, NoBunch
  <2>2. Taken(bunches) \in Nat
    <3>1. Len(bunches) # 0 => Len(bunches) \in 1..Len(bunches)
      BY <1>4
    <3> QED
      BY <3>1, PacketsBefore DEF Taken, BunchInv
  <2>3. ~(Len(cur) >= MaxPkts) /\ ~(time - stream.start_time > MaxTm)
    BY DEF BunchDone
  <2>4. Len(cur) \in Nat /\ MaxPkts \in Nat /\ MaxTm \in Nat /\ stream.start_time \in Nat
    <3>1. MaxPkts \in Nat /\ MaxTm \in Nat
      BY BunchingAssumption
    <3>2. Len(cur) \in Nat
      BY <2>1 DEF Follows
    <3>3. stream.start_time \in Nat
      BY DEF BunchInv
    <3> QED
      BY <3>1, <3>2, <3>3
  <2>5. Len(cur) < MaxPkts
    BY <2>3, <2>4
  <2>6. PICK t \in Nat, t0 \in Nat : t = time /\ t0 = stream.start_time
    BY <1>2, <2>4
  <2>7. t - t0 <= MaxTm
    BY <2>3, <2>4, <2>6
  <2> QED
    BY <2>1, <2>2, <2>5, <2>6, <2>7
<1> HIDE DEF time, begins, s, bunch
<1>6. /\ stream' \in [start_time : Nat, last_time : Nat, bunches : Nat, pkts : Nat]
      /\ stream'.start_time = s.start_time /\ stream'.bunches = s.bunches
      /\ \/ state' = "aborted" /\ next' = next /\ cur' = bunch
         \/ state' = state /\ next' = next + 1 /\ cur' = Append(bunch, next + 1)
  BY <1>1, <1>2, <1>3 DEF VmBunchAdd
<1>7. next' \in 0..Len(times')
  BY <1>1, <1>2, <1>6
<1>8. /\ cur' = << >> => next' = Taken(bunches')
      /\ cur' # << >> =>
           /\ Follows(cur', Taken(bunches')) /\ Last(cur') = next' /\ Fits(cur')
           /\ stream'.start_time = times[Head(cur')]
  <2>1. CASE begins
    <3>1. bunch = << >>
      BY <2>1 DEF bunch, NoBunch
    <3>2. CASE cur' = << >> /\ next' = next
      BY <1>4, <2>1, <3>2
    <3>3. CASE next' = next + 1 /\ cur' = Append(<< >>, next + 1)
      <4>1. cur' = <<next + 1>>
        BY <3>3
      <4>2. Follows(cur', next) /\ Last(cur') = next + 1 /\ Head(cur') = next + 1 /\ Len(cur') = 1
        BY <1>2, <4>1, PacketBegins
      <4>3. Fits(cur')
        BY <1>2, <4>2, BunchingAssumption DEF Fits, time
      <4> QED
        BY <1>3, <1>4, <1>6, <2>1, <3>3, <4>1, <4>2, <4>3 DEF time
    <3> QED
      BY <1>6, <3>1, <3>2, <3>3
  <2>2. CASE ~begins
    <3>1. bunch = cur /\ s = stream /\ cur # << >>
      BY <2>2 DEF bunch, s, begins, NoBunch
    <3>2. CASE next' = next /\ cur' = cur
      BY <1>4, <1>5, <1>6, <2>2, <3>1, <3>2
    <3>3. CASE next' = next + 1 /\ cur' = Append(cur, next + 1)
      <4>1. /\ Follows(cur', Taken(bunches)) /\ Last(cur') = next + 1
            /\ Head(cur') = Head(cur) /\ Len(cur') = Len(cur) + 1
        BY <1>5, <2>2, <3>3, PacketAdded
      <4>2. Fits(cur')
        <5>1. times[Last(cur')] - times[Head(cur')] <= MaxTm
          BY <1>5, <2>2, <4>1 DEF time
        <5>2. Len(cur) \in Nat /\ MaxPkts \in Nat
          BY <1>5, <2>2, BunchingAssumption DEF Follows
        <5>3. Len(cur') <= MaxPkts
          BY <1>5, <2>2, <4>1, <5>2
        <5> QED
          BY <5>1, <5>3 DEF Fits
      <4>3. cur' # << >>
        BY <4>1, EmptySeq DEF Follows
      <4> QED
        BY <1>4, <1>5, <1>6, <2>2, <3>1, <3>3, <4>1, <4>2, <4>3
    <3> QED
      BY <1>6, <3>1, <3>2, <3>3
  <2> QED
    BY <2>1, <2>2
<1>9. (\A i \in 1..Len(bunches) : Fits(bunches[i]))' /\ (cur # << >> => Fits(cur))'
  BY <1>1, <1>4, <1>8 DEF Fits
<1>10. cut'.whole \in 0..Len(bunches') /\ (cut'.part => cut'.whole < Len(bunches'))
  BY <1>1, <1>4 DEF BunchInv
<1>11. read' = << >> /\ Len(read') = 0 /\ read' \in Seq(Seq(Nat)) /\ state' \in {"bunching", "aborted"}
  BY <1>1, <1>6, EmptySeq
<1>12. Len(read') <= cut'.whole
  BY <1>10, <1>11
<1>13. times' = times
  BY <1>1
<1>14. /\ times' \in Seq(Nat) /\ next' \in 0..Len(times')
       /\ stream' \in [start_time : Nat, last_time : Nat, bunches : Nat, pkts : Nat]
       /\ InTurn(bunches)' /\ (\A i \in 1..Len(bunches) : Fits(bunches[i]))'
       /\ (cur = << >> => next = Taken(bunches))'
  BY <1>2, <1>4, <1>6, <1>7, <1>8, <1>9, <1>13
<1>15. (cur # << >> =>
         /\ Follows(cur, Taken(bunches)) /\ Last(cur) = next /\ Fits(cur)
         /\ stream.start_time = times[Head(cur)])'
  BY <1>8, <1>9, <1>13
<1>16. (\A i \in 1..Len(read) : read[i] = bunches[i])'
  BY <1>11
<1>17. stream'.bunches = Len(bunches')
  BY <1>1, <1>3, <1>6
<1> QED
  BY <1>10, <1>11, <1>12, <1>14, <1>15, <1>16, <1>17 DEF BunchInv

LEMMA StreamCloseStep == ASSUME BunchInv, StreamClose PROVE BunchInv'
<1>1. /\ state = "bunching" /\ next = Len(times) /\ bunches' = Written /\ stream' = Flushed(stream)
      /\ cur' = << >> /\ state' = "input" /\ UNCHANGED <<times, next, read>>
      /\ header'.nbunches = stream.bunches
  BY DEF StreamClose, FileHdr, NoBunch
<1>2. PICK n \in 0..Len(Written), part \in BOOLEAN :
        cut' = [whole |-> n, part |-> part /\ n < Len(Written)]
  BY DEF StreamClose
<1>3. /\ InTurn(bunches') /\ Taken(bunches') = next' /\ Len(bunches') \in Nat
      /\ \A i \in 1..Len(bunches') : Fits(bunches'[i])
  BY <1>1, WrittenInTurn
<1>4. (\A i \in 1..Len(bunches) : Fits(bunches[i]))'
  BY <1>1, <1>3 DEF Fits
<1>5. /\ cut'.whole \in 0..Len(bunches') /\ (cut'.part => cut'.whole < Len(bunches'))
      /\ cut'.whole \in Nat
  <2>1. PICK m \in Nat : m = Len(Written) /\ m = Len(bunches')
    BY <1>1, <1>3
  <2>2. cut'.whole = n /\ (cut'.part => n < m)
    BY <1>2, <2>1
  <2> QED
    BY <2>1, <2>2
<1>6. read' = << >> /\ Len(read') = 0 /\ read' \in Seq(Seq(Nat))
  BY <1>1, EmptySeq DEF BunchInv
<1>7. stream' \in [start_time : Nat, last_time : Nat, bunches : Nat, pkts : Nat]
  BY <1>1, FlushedCounts
<1>8. times' \in Seq(Nat) /\ next' \in 0..Len(times') /\ next' = Len(times')
  BY <1>1 DEF BunchInv
<1>9. (\A i \in 1..Len(read) : read[i] = bunches[i])' /\ Len(read') <= cut'.whole
  BY <1>5, <1>6
<1>10. Len(bunches') <= header'.nbunches + 1
  <2>1. stream.bunches = Len(bunches)
    BY <1>1 DEF BunchInv
  <2> QED
    BY <1>1, <2>1, WrittenInTurn
<1> QED
  BY <1>1, <1>3, <1>4, <1>5, <1>6, <1>7, <1>8, <1>9, <1>10 DEF BunchInv

\* The file is read: what was written stays as it is.
WrittenSame == UNCHANGED <<times, next, cur, stream, header, bunches, cut>>

LEMMA ReadingStep ==
  ASSUME BunchInv, WrittenSame, state' \notin {"bunching", "aborted"},
         state \notin {"bunching", "aborted"},
         read' \in Seq(Seq(Nat)), Len(read') <= cut.whole,
         \A i \in 1..Len(read') : read'[i] = bunches[i],
         state' = "ended" => Len(read') = cut.whole,
         state' = "left out" => header.nbunches = 0,
         state' = "fatal" => cut.part
  PROVE  BunchInv'
<1>1. /\ times' = times /\ next' = next /\ cur' = cur /\ stream' = stream
      /\ bunches' = bunches /\ cut' = cut /\ header' = header
  BY DEF WrittenSame
<1>2. /\ InTurn(bunches)' = InTurn(bunches) /\ Taken(bunches)' = Taken(bunches)
      /\ (\A i \in 1..Len(bunches) : Fits(bunches[i]))' /\ cur = << >>
  BY <1>1 DEF Fits, BunchInv
<1> QED
  BY <1>1, <1>2 DEF BunchInv

LEMMA AddBunchesStep == ASSUME BunchInv, AddBunches PROVE BunchInv'
<1>1. /\ WrittenSame /\ state = "input" /\ state' \in {"left out", "replay"} /\ read' = read
      /\ state' = "left out" => header.nbunches = 0
  BY DEF AddBunches, WrittenSame
<1> QED
  BY <1>1, ReadingStep DEF BunchInv

LEMMA NextBunchStep == ASSUME BunchInv, NextBunch PROVE BunchInv'
<1> DEFINE i == Len(read) + 1
<1>1. state = "replay" /\ WrittenSame
  BY DEF NextBunch, WrittenSame
<1>2. PICK r \in Nat, w \in Nat : r = Len(read) /\ w = cut.whole
  <2>1. Len(read) \in Nat /\ Len(bunches) \in Nat
    BY LenProperties DEF BunchInv, InTurn
  <2>2. cut.whole \in 0..Len(bunches)
    BY DEF BunchInv
  <2> QED
    BY <2>1, <2>2
<1>3. r <= w /\ w \in 0..Len(bunches) /\ read \in Seq(Seq(Nat)) /\ Len(bunches) \in Nat
  BY <1>2, LenProperties DEF BunchInv, InTurn
<1>4. CASE r + 1 > w /\ ~cut.part
  <2>1. state' = "ended" /\ read' = read
    BY <1>2, <1>4 DEF NextBunch
  <2>2. r = w
    BY <1>3, <1>4
  <2> QED
    BY <1>1, <1>2, <1>3, <2>1, <2>2, ReadingStep DEF BunchInv
<1>5. CASE r + 1 > w /\ cut.part
  <2>1. GetVmbunch(r + 1) = << >>
    BY <1>2, <1>5, <1>3 DEF GetVmbunch
  <2>2. r = w /\ r + 1 \in 1..Len(bunches)
    <3>1. w < Len(bunches)
      BY <1>2, <1>5 DEF BunchInv
    <3> QED
      BY <1>3, <1>5, <3>1
  <2>3. Len(bunches[r + 1]) \in Nat \ {0}
    BY <2>2 DEF BunchInv, InTurn, Follows
  <2>4. state' = "fatal" /\ read' = read
    <3>1. Len(GetVmbunch(r + 1)) < Len(bunches[r + 1])
      BY <2>1, <2>3
    <3> QED
      BY <1>2, <1>5, <3>1 DEF NextBunch
  <2>5. \A j \in 1..Len(read') : read'[j] = bunches[j]
    BY <2>4 DEF BunchInv
  <2>6. state' = "fatal" => cut.part
    BY <1>5
  <2> QED
    BY <1>1, <1>2, <1>3, <2>4, <2>5, <2>6, ReadingStep
<1>6. CASE r + 1 <= w
  <2>1. GetVmbunch(r + 1) = bunches[r + 1] /\ r + 1 \in 1..Len(bunches)
    BY <1>2, <1>3, <1>6 DEF GetVmbunch
  <2>2. PICK b : b = bunches[r + 1] /\ b \in Seq(Nat) /\ Len(b) \in Nat
    BY <2>1 DEF BunchInv, InTurn, Follows
  <2>3. read' = Append(read, b) /\ state' = state
    <3>1. ~(r + 1 > w)
      BY <1>6
    <3>2. ~(Len(b) < Len(b))
      BY <2>2
    <3> QED
      BY <1>2, <2>1, <2>2, <3>1, <3>2 DEF NextBunch
  <2>4. PICK c : c = read'
    OBVIOUS
  <2>5. c \in Seq(Seq(Nat)) /\ Len(c) = r + 1 /\ c[r + 1] = b /\ \A j \in 1..r : c[j] = read[j]
    BY <1>2, <1>3, <2>2, <2>3, <2>4, AppendProperties
  <2>6. \A j \in 1..(r + 1) : c[j] = bunches[j]
    <3>1. \A j \in 1..r : read[j] = bunches[j]
      BY <1>2 DEF BunchInv
    <3>2. \A j \in 1..(r + 1) : j \in 1..r \/ j = r + 1
      OBVIOUS
    <3> QED
      BY <2>2, <2>5, <3>1, <3>2
  <2>7. Len(c) <= w
    BY <1>6, <2>5
  <2> QED
    BY <1>1, <1>2, <2>3, <2>4, <2>5, <2>6, <2>7, ReadingStep
<1> QED
  BY <1>3, <1>4, <1>5, <1>6

LEMMA BunchStep == ASSUME BunchInv, [BunchingNext]_bunchVars PROVE BunchInv'
<1>1. CASE UNCHANGED bunchVars
  <2>1. /\ times' = times /\ next' = next /\ cur' = cur /\ stream' = stream
        /\ bunches' = bunches /\ cut' = cut /\ read' = read /\ state' = state
        /\ header' = header
    BY <1>1 DEF bunchVars
  <2>2. (\A i \in 1..Len(bunches) : Fits(bunches[i]))' /\ (cur # << >> => Fits(cur))'
    BY <2>1 DEF Fits, BunchInv
  <2> QED
    BY <2>1, <2>2 DEF BunchInv
<1> QED
  BY <1>1, StreamAddIoStep, StreamCloseStep, AddBunchesStep, NextBunchStep DEF BunchingNext

\* What is replayed is the trace, in bunches that are no larger and last no
\* longer than they may.  If the file is whole the replay does not fail, and
\* takes all of the trace, unless the file is left out: then the trace fits in
\* one bunch (vmfile-bunching.c:49-155, vmbunching-generic.c:100-112,
\* replay-generic.c:200-330, per-input-file.c:196).
THEOREM BunchesTheorem == BunchingSpec => []BunchesKeepTrace
<1>1. StreamOpen => BunchInv
  BY BunchInitially
<1>2. BunchInv /\ [BunchingNext]_bunchVars => BunchInv'
  BY BunchStep
<1>3. BunchInv => BunchesKeepTrace
  <2> SUFFICES ASSUME BunchInv PROVE BunchesKeepTrace
    OBVIOUS
  <2>1. PICK r \in Nat : r = Len(read) /\ DOMAIN read = 1..r
    BY LenProperties DEF BunchInv
  <2>2. /\ cut.whole \in 0..Len(bunches) /\ Len(bunches) \in Nat /\ r <= cut.whole
        /\ \A i \in 1..r : read[i] = bunches[i] /\ i <= cut.whole /\ i \in 1..Len(bunches)
    <3>1. cut.whole \in 0..Len(bunches) /\ Len(bunches) \in Nat /\ r <= cut.whole
      BY <2>1, LenProperties DEF BunchInv, InTurn
    <3>2. \A i \in 1..r : read[i] = bunches[i]
      BY <2>1 DEF BunchInv
    <3> QED
      BY <3>1, <3>2
  <2>3. InTurn(read)
    <3>1. \A i \in 1..r : Before(read, i) = Before(bunches, i)
      <4> SUFFICES ASSUME NEW i \in 1..r PROVE Before(read, i) = Before(bunches, i)
        OBVIOUS
      <4>1. i # 1 => i - 1 \in 1..r
        OBVIOUS
      <4> QED
        BY <2>2, <4>1 DEF Before
    <3>2. \A i \in 1..r : Follows(bunches[i], Before(bunches, i))
      BY <2>2 DEF BunchInv, InTurn
    <3> QED
      BY <2>1, <2>2, <3>1, <3>2 DEF InTurn, BunchInv
  <2>4. PICK packets : packets = FlattenSeq(read)
    OBVIOUS
  <2>5. packets = UpTo(Taken(read)) /\ Taken(read) \in Nat
    <3>1. CASE r = 0
      <4>1. read = << >> /\ packets = read /\ Taken(read) = 0
        BY <2>1, <2>4, <3>1, EmptySeq DEF FlattenSeq, Taken, BunchInv
      <4>2. UpTo(0) = << >>
        BY DEF UpTo
      <4> QED
        BY <4>1, <4>2
    <3>2. CASE r # 0
      <4>1. r \in 1..r
        BY <3>2
      <4> QED
        BY <2>1, <2>3, <2>4, <3>2, <4>1, FlattenedInTurn, PacketsBefore DEF Taken
    <3> QED
      BY <3>1, <3>2
  <2>6. packets = [i \in 1..Len(packets) |-> i] /\ Len(packets) = Taken(read)
    <3>1. Len(packets) = Taken(read)
      BY <2>5 DEF UpTo
    <3> QED
      BY <2>5, <3>1 DEF UpTo
  <2>7. ASSUME NEW i \in DOMAIN read
        PROVE  /\ i <= cut.whole
               /\ Len(read[i]) \in 1..MaxPkts
               /\ times[Last(read[i])] - times[Head(read[i])] <= MaxTm
    <3>1. PICK b : b = read[i] /\ b = bunches[i] /\ i <= cut.whole
      BY <2>1, <2>2
    <3>2. Fits(b) /\ Len(b) \in Nat \ {0}
      BY <2>1, <2>2, <3>1 DEF BunchInv, InTurn, Follows
    <3>3. MaxPkts \in Nat
      BY BunchingAssumption
    <3> QED
      BY <3>1, <3>2, <3>3 DEF Fits
  <2>8. state = "ended" /\ cut.whole = Len(bunches) => Taken(read) = Len(times)
    <3> SUFFICES ASSUME state = "ended", cut.whole = Len(bunches) PROVE Taken(read) = Len(times)
      OBVIOUS
    <3>1. r = Len(bunches) /\ next = Taken(bunches) /\ next = Len(times)
      BY <2>1 DEF BunchInv
    <3>2. r # 0 => r \in 1..r
      OBVIOUS
    <3>3. Taken(read) = Taken(bunches)
      BY <2>1, <2>2, <3>1, <3>2 DEF Taken
    <3> QED
      BY <3>1, <3>3
  <2>9. state = "fatal" => cut.part
    BY DEF BunchInv
  <2>10. ASSUME state = "left out", times # << >>
         PROVE  Len(times) <= MaxPkts /\ times[Len(times)] - times[1] <= MaxTm
    <3>1. Len(bunches) <= 1 /\ next = Taken(bunches) /\ next = Len(times)
      <4>1. header.nbunches = 0 /\ Len(bunches) <= header.nbunches + 1
        BY <2>10 DEF BunchInv
      <4>2. cur = << >> /\ next = Len(times)
        BY <2>10 DEF BunchInv
      <4>3. next = Taken(bunches)
        BY <4>2 DEF BunchInv
      <4> QED
        BY <2>2, <4>1, <4>2, <4>3
    <3>2. Len(times) \in Nat \ {0}
      <4>1. times \in Seq(Nat)
        BY DEF BunchInv
      <4> QED
        BY <2>10, <4>1, EmptySeq, LenProperties
    <3>3. Len(bunches) = 1
      <4>1. Len(bunches) # 0
        BY <3>1, <3>2 DEF Taken
      <4>2. PICK l \in Nat : l = Len(bunches)
        BY <2>2
      <4> QED
        BY <3>1, <4>1, <4>2
    <3>4. PICK b : b = bunches[1]
      OBVIOUS
    <3>5. Follows(b, 0) /\ Fits(b)
      <4>1. 1 \in 1..Len(bunches)
        BY <3>3
      <4>2. Fits(b)
        BY <3>4, <4>1 DEF BunchInv
      <4>3. Follows(b, Before(bunches, 1))
        BY <3>4, <4>1 DEF BunchInv, InTurn
      <4> QED
        BY <4>2, <4>3 DEF Before
    <3>6. Last(b) = Len(times)
      BY <3>1, <3>3, <3>4 DEF Taken, Before
    <3>7. Len(b) = Last(b) /\ Head(b) = 1
      BY <3>5, UpToFollowed
    <3> QED
      BY <3>5, <3>6, <3>7 DEF Fits
  <2> QED
    BY <2>4, <2>6, <2>7, <2>8, <2>9, <2>10 DEF BunchesKeepTrace
<1> QED
  BY <1>1, <1>2, <1>3, PTL DEF BunchingSpec

-----------------------------------------------------------------------------
\* Traces.  Where the records of a file begin.
TraceFiles ==
  {f \in [recs : Seq(Records), trailer : BOOLEAN, size : Nat] :
     \A i \in DOMAIN f.recs :
       f.recs[i].whole \/ f.recs[i].event \in {"SFN", "SFD", "OFNW", "OFDW"}}

StartsUpTo(h, f, n) ==
  h = [j \in 1..n |-> IF j = 1 THEN 0 ELSE h[j - 1] + CellsOf(f.recs[j - 1])]

LEMMA CellsNat == ASSUME NEW r PROVE CellsOf(r) \in Nat /\ HeaderCells + BodyCells <= CellsOf(r)
BY TraceAssumption DEF CellsOf

LEMMA StartsExist ==
  ASSUME NEW f, NEW n \in Nat \ {0}
  PROVE  \E h : StartsUpTo(h, f, n)
<1>1. PICK T : T = {m \in Nat \ {0} : ~\E h : StartsUpTo(h, f, m)}
  OBVIOUS
<1>2. T \in SUBSET Nat /\ \A m : m \in T <=> m \in Nat \ {0} /\ ~\E h : StartsUpTo(h, f, m)
  <2>1. T \in SUBSET Nat
    BY <1>1
  <2> QED
    BY <1>1, <2>1, Zenon
<1>3. ASSUME T # {} PROVE FALSE
  <2>1. PICK m \in T : \A j \in T : m <= j
    BY <1>2, <1>3, SmallestOne
  <2>2. m \in Nat \ {0} /\ ~\E h : StartsUpTo(h, f, m)
    BY <1>2
  <2>3. CASE m = 1
    <3>1. PICK h : h = [j \in 1..1 |-> 0]
      OBVIOUS
    <3>2. [j \in 1..1 |-> 0] = [j \in 1..1 |-> IF j = 1 THEN 0 ELSE h[j - 1] + CellsOf(f.recs[j - 1])]
      OBVIOUS
    <3>3. StartsUpTo(h, f, 1)
      BY <3>1, <3>2, Zenon DEF StartsUpTo
    <3> QED
      BY <2>2, <2>3, <3>3
  <2>4. CASE m # 1
    <3>1. PICK k \in Nat \ {0} : m = k + 1 /\ ~(m <= k)
      <4>1. m - 1 \in Nat \ {0} /\ m = (m - 1) + 1 /\ ~(m <= m - 1)
        BY <2>2, <2>4
      <4> QED
        BY <4>1
    <3>2. PICK h : StartsUpTo(h, f, k)
      BY <1>2, <2>1, <3>1
    <3>3. PICK c : c = h[k] + CellsOf(f.recs[k])
      OBVIOUS
    <3>4. PICK g : g = [j \in 1..m |-> IF j <= k THEN h[j] ELSE c]
      OBVIOUS
    <3>5. \A j \in 1..k : h[j] = IF j = 1 THEN 0 ELSE h[j - 1] + CellsOf(f.recs[j - 1])
      BY <3>2, Zenon DEF StartsUpTo
    <3>6. ASSUME NEW j \in 1..m
          PROVE  g[j] = IF j = 1 THEN 0 ELSE g[j - 1] + CellsOf(f.recs[j - 1])
      <4>1. CASE j <= k
        <5>1. j \in 1..k /\ (j # 1 => j - 1 \in 1..m /\ j - 1 <= k)
          BY <3>1, <4>1
        <5>2. g[j] = h[j] /\ (j # 1 => g[j - 1] = h[j - 1])
          BY <3>4, <4>1, <5>1
        <5> QED
          BY <3>5, <5>1, <5>2
      <4>2. CASE ~(j <= k)
        <5>1. j = k + 1 /\ j - 1 = k /\ j # 1 /\ k \in 1..m /\ k <= k
          BY <3>1, <4>2
        <5>2. g[j] = c /\ g[k] = h[k]
          BY <3>4, <4>2, <5>1
        <5> QED
          BY <3>3, <5>1, <5>2
      <4> QED
        BY <4>1, <4>2
    <3>7. StartsUpTo(g, f, m)
      <4>1. g = [j \in 1..m |-> g[j]]
        BY <3>4
      <4>2. [j \in 1..m |-> g[j]]
              = [j \in 1..m |-> IF j = 1 THEN 0 ELSE g[j - 1] + CellsOf(f.recs[j - 1])]
        BY <3>6
      <4> QED
        BY <4>1, <4>2, Zenon DEF StartsUpTo
    <3> QED
      BY <2>2, <3>7
  <2> QED
    BY <2>3, <2>4
<1> QED
  BY <1>2, <1>3

LEMMA StartsOf ==
  ASSUME NEW f, Len(f.recs) \in Nat
  PROVE  /\ StartOf(f, 1) = 0
         /\ \A i \in 1..Len(f.recs) : StartOf(f, i + 1) = StartOf(f, i) + CellsOf(f.recs[i])
<1>1. PICK n \in Nat \ {0} : n = Len(f.recs) + 1
  OBVIOUS
<1>2. PICK h : h = CHOOSE g : StartsUpTo(g, f, n)
  OBVIOUS
<1>3. StartsUpTo(h, f, n)
  <2>1. \E g : StartsUpTo(g, f, n)
    BY StartsExist
  <2> QED
    BY <1>2, <2>1, Zenon
<1>4. ASSUME NEW i PROVE StartOf(f, i) = h[i]
  BY <1>1, <1>2 DEF StartOf, StartsUpTo
<1>5. \A j \in 1..n : h[j] = IF j = 1 THEN 0 ELSE h[j - 1] + CellsOf(f.recs[j - 1])
  BY <1>3, Zenon DEF StartsUpTo
<1>6. h[1] = 0
  BY <1>5
<1>7. ASSUME NEW i \in 1..Len(f.recs)
      PROVE  StartOf(f, i + 1) = StartOf(f, i) + CellsOf(f.recs[i])
  <2>1. PICK j \in 1..n : j = i + 1 /\ j # 1 /\ j - 1 = i
    BY <1>1
  <2>2. h[j] = h[i] + CellsOf(f.recs[i])
    BY <1>5, <2>1
  <2> QED
    BY <1>4, <2>1, <2>2
<1> QED
  BY <1>4, <1>6, <1>7

\* They are in order.
LEMMA StartsNat ==
  ASSUME NEW f, Len(f.recs) \in Nat
  PROVE  \A i \in 1..(Len(f.recs) + 1) : StartOf(f, i) \in Nat
<1>1. PICK n \in Nat : n = Len(f.recs)
  OBVIOUS
<1>2. PICK T : T = {i \in 1..(n + 1) : ~(StartOf(f, i) \in Nat)}
  OBVIOUS
<1>3. T \in SUBSET Nat /\ \A i : i \in T <=> i \in 1..(n + 1) /\ ~(StartOf(f, i) \in Nat)
  <2>1. T \in SUBSET Nat
    BY <1>2
  <2> QED
    BY <1>2, <2>1
<1>4. ASSUME T # {} PROVE FALSE
  <2>1. PICK i \in T : \A j \in T : i <= j
    BY <1>3, <1>4, SmallestOne
  <2>2. i \in 1..(n + 1) /\ ~(StartOf(f, i) \in Nat)
    BY <1>3
  <2>3. i # 1
    BY <1>1, <2>2, StartsOf
  <2>4. PICK k \in 1..n : i = k + 1 /\ ~(i <= k)
    <3>1. i - 1 \in 1..n /\ i = (i - 1) + 1 /\ ~(i <= i - 1)
      BY <2>2, <2>3
    <3> QED
      BY <3>1
  <2>5. StartOf(f, k) \in Nat
    BY <1>3, <2>1, <2>4
  <2>6. StartOf(f, i) = StartOf(f, k) + CellsOf(f.recs[k])
    BY <1>1, <2>4, StartsOf
  <2> QED
    BY <2>2, <2>5, <2>6, CellsNat
<1> QED
  BY <1>1, <1>3, <1>4

LEMMA StartsInOrder ==
  ASSUME NEW f, Len(f.recs) \in Nat, NEW i \in 1..Len(f.recs)
  PROVE  \A j \in (i + 1)..(Len(f.recs) + 1) :
           StartOf(f, i) + HeaderCells < StartOf(f, j) /\ StartOf(f, i + 1) <= StartOf(f, j)
<1>1. PICK n \in Nat : n = Len(f.recs)
  OBVIOUS
<1>2. /\ HeaderCells \in Nat /\ BodyCells \in Nat \ {0}
      /\ \A j \in 1..(n + 1) : StartOf(f, j) \in Nat
  BY <1>1, StartsNat, TraceAssumption
<1>3. StartOf(f, i) + HeaderCells < StartOf(f, i + 1)
  <2>1. PICK c \in Nat : c = CellsOf(f.recs[i]) /\ HeaderCells + BodyCells <= c
    BY CellsNat
  <2>2. StartOf(f, i + 1) = StartOf(f, i) + c
    BY <2>1, StartsOf
  <2>3. StartOf(f, i) \in Nat
    BY <1>1, <1>2
  <2> QED
    BY <1>2, <2>1, <2>2, <2>3
<1>4. PICK T : T = {j \in (i + 1)..(n + 1) : ~(StartOf(f, i + 1) <= StartOf(f, j))}
  OBVIOUS
<1>5. /\ T \in SUBSET Nat
      /\ \A j : j \in T <=> j \in (i + 1)..(n + 1) /\ ~(StartOf(f, i + 1) <= StartOf(f, j))
  <2>1. T \in SUBSET Nat
    BY <1>4
  <2> QED
    BY <1>4, <2>1
<1>6. ASSUME T # {} PROVE FALSE
  <2>1. PICK j \in T : \A k \in T : j <= k
    BY <1>5, <1>6, SmallestOne
  <2>2. j \in (i + 1)..(n + 1) /\ ~(StartOf(f, i + 1) <= StartOf(f, j))
    BY <1>5
  <2>3. i + 1 \in 1..(n + 1) /\ StartOf(f, i + 1) \in Nat
    BY <1>1, <1>2
  <2>4. j # i + 1
    BY <2>2, <2>3
  <2>5. PICK k \in (i + 1)..(n + 1) : j = k + 1 /\ ~(j <= k) /\ k \in 1..n
    <3>1. j - 1 \in (i + 1)..(n + 1) /\ j = (j - 1) + 1 /\ ~(j <= j - 1) /\ j - 1 \in 1..n
      BY <1>1, <2>2, <2>4
    <3> QED
      BY <3>1
  <2>6. StartOf(f, i + 1) <= StartOf(f, k)
    BY <1>5, <2>1, <2>5
  <2>7. PICK c \in Nat : c = CellsOf(f.recs[k])
    BY CellsNat
  <2>8. StartOf(f, j) = StartOf(f, k) + c /\ StartOf(f, k) \in Nat
    BY <1>1, <1>2, <2>5, <2>7, StartsOf
  <2> QED
    BY <2>2, <2>3, <2>6, <2>8
<1>7. ASSUME NEW j \in (i + 1)..(n + 1)
      PROVE  StartOf(f, i) + HeaderCells < StartOf(f, j) /\ StartOf(f, i + 1) <= StartOf(f, j)
  <2>1. StartOf(f, i + 1) <= StartOf(f, j)
    BY <1>5, <1>6
  <2>2. i \in 1..(n + 1) /\ i + 1 \in 1..(n + 1) /\ j \in 1..(n + 1)
    BY <1>1
  <2>3. PICK a \in Nat, b \in Nat, c \in Nat :
          a = StartOf(f, i) /\ b = StartOf(f, i + 1) /\ c = StartOf(f, j)
    BY <1>2, <2>2
  <2>4. a + HeaderCells < c
    BY <1>2, <1>3, <2>1, <2>3
  <2> QED
    BY <2>1, <2>3, <2>4
<1> QED
  BY <1>1, <1>7

\* No two records begin at the same place.
LEMMA StartsApart ==
  ASSUME NEW f, Len(f.recs) \in Nat, NEW i \in 1..(Len(f.recs) + 1),
         NEW j \in 1..(Len(f.recs) + 1), StartOf(f, i) <= StartOf(f, j)
  PROVE  i <= j
<1>1. PICK n \in Nat : n = Len(f.recs)
  OBVIOUS
<1>2. ASSUME j < i PROVE FALSE
  <2>1. j \in 1..n /\ i \in (j + 1)..(n + 1)
    BY <1>1, <1>2
  <2>2. StartOf(f, j) + HeaderCells < StartOf(f, i)
    BY <1>1, <2>1, StartsInOrder
  <2>3. StartOf(f, i) \in Nat /\ StartOf(f, j) \in Nat /\ HeaderCells \in Nat
    BY StartsNat, TraceAssumption
  <2> QED
    BY <2>2, <2>3
<1> QED
  BY <1>1, <1>2

\* The stream is in a record of its file, the place where one would begin
\* included; and it is behind a record.
InRecord(i) ==
  \/ phase = "header" /\ pos + left = StartOf(file, i) + HeaderCells
  \/ /\ phase = "body" /\ rec = i
     /\ pos + left = StartOf(file, i) + HeaderCells + BodyCells
  \/ /\ phase = "rest" /\ rec = i /\ ~file.recs[i].whole
     /\ pos + left = StartOf(file, i + 1)
Behind(i) ==
  /\ StartOf(file, i + 1) <= pos
  /\ IF phase = "header" THEN StartOf(file, i + 1) + HeaderCells <= pos + left ELSE i < rec

WholeOf(f) == {i \in DOMAIN f.recs : WholeIn(f, i)}

\* The records of some kinds and of a machine before one in a file.
Kinds == {"read", "write", "none"}
CountBefore(f, n, v, kinds) ==
  Cardinality({j \in 1..(n - 1) : f.recs[j].vm = v /\ KindOf(f.recs[j]) \in kinds})

\* The number the scan gives a block: how many there are of its machine before.
Earlier(n, v) == CountBefore(trace, n, v, Kinds)
NumberedUpTo(n) == \A v \in Vms : blkidx[v] = Earlier(n, v)

\* The number the replay gives a block: how many enabled requests there are of
\* its machine before, those of the warm-up included.
ReplayNumber(n, v) == WarmedUp(v) + CountBefore(trace, n, v, enabled)
NumberOf(k) ==
  IF KindOf(trace.recs[k]) \in enabled THEN ReplayNumber(k, trace.recs[k].vm) ELSE -1

ReadOK ==
  /\ trace \in TraceFiles /\ warm \in TraceFiles /\ scanner \in {"p", "f", "none"}
  /\ pass \in {"scan", "warmup", "replay", "over"} /\ phase \in {"header", "body", "rest"}
  /\ pos \in 0..file.size /\ left \in Nat /\ (phase = "header" => left <= HeaderCells)
  /\ rec \in Nat /\ spec.rec \in Int /\ blkidx \in [Vms -> Nat] /\ errors \in BOOLEAN
  /\ phase # "header" => rec \in 1..Len(file.recs) /\ InRecord(rec)
  /\ status = "ended" <=> pass = "over"

ScannedOK ==
  /\ scanned \in Seq([rec : Nat, number : Int, flag : {"first", "good", "last"}])
  /\ \A k \in 1..Len(scanned) :
       k \in Whole /\ scanned[k].rec = k /\ scanned[k].number = Earlier(k, trace.recs[k].vm)

\* The scan looks for the record after those it was handed, or has come to an
\* end it does not act upon yet.
ScanOK ==
  /\ scanner # "none"
  /\ NumberedUpTo(Len(scanned) + 1)
  /\ \A k \in 1..Len(scanned) : scanned[k].flag # "last"
  /\ scanner = "f" => InRecord(Len(scanned) + 1)
  /\ scanner = "p" =>
       \/ spec.rec = -1 /\ scanned = << >> /\ InRecord(1)
       \/ spec.rec = 0 /\ scanned = << >>
       \/ spec.rec = Len(scanned) + 1 /\ spec.rec \in Whole /\ InRecord(spec.rec + 1)

\* Without an error the warm-up has numbered the enabled requests before.
WarmupOK ==
  \E n \in 1..(Len(warm.recs) + 1) :
    InRecord(n) /\ \A v \in Vms : blkidx[v] = CountBefore(warm, n, v, enabled)

HandedOK ==
  /\ handed \in Seq([rec : Nat, number : Int])
  /\ \A k \in 1..Len(handed) : handed[k].rec \in Whole
  /\ \A k \in 1..Len(handed) : k > 1 => handed[k - 1].rec < handed[k].rec

\* Without an error no record is left out, and each has its number.
NoneLeftOut ==
  /\ \A k \in 1..Len(handed) : handed[k].rec = k /\ handed[k].number = NumberOf(k)
  /\ pass = "replay" =>
       /\ InRecord(Len(handed) + 1)
       /\ \A v \in Vms : blkidx[v] = ReplayNumber(Len(handed) + 1, v)
  /\ pass = "over" => Len(handed) = Cardinality(Whole)

\* The inductive invariant.
TraceInv ==
  /\ ReadOK /\ ScannedOK /\ HandedOK
  /\ pass = "scan" => ScanOK
  /\ pass # "scan" /\ scanner = "p" =>
       \A k \in 1..Len(scanned) : scanned[k].flag = "last" <=> k = Len(scanned)
  /\ pass \in {"scan", "warmup"} => handed = << >>
  /\ pass = "replay" /\ handed # << >> => Behind(handed[Len(handed)].rec)
  /\ pass = "warmup" /\ ~errors => WarmupOK
  /\ pass \in {"replay", "over"} /\ ~errors => NoneLeftOut

LEMMA FileTyped ==
  ASSUME NEW f \in TraceFiles
  PROVE  /\ Len(f.recs) \in Nat /\ DOMAIN f.recs = 1..Len(f.recs)
         /\ f.recs \in Seq(Records) /\ f.size \in Nat
         /\ WholeOf(f) \subseteq 1..Len(f.recs)
         /\ StartOf(f, 1) = 0
         /\ \A i \in 1..(Len(f.recs) + 1) : StartOf(f, i) \in Nat
         /\ \A i \in 1..Len(f.recs) :
              /\ f.recs[i] \in Records
              /\ StartOf(f, i + 1) = StartOf(f, i) + CellsOf(f.recs[i])
              /\ i + 1 \in 1..(Len(f.recs) + 1) /\ StartOf(f, i + 1) \in Nat
<1>1. f.recs \in Seq(Records) /\ f.size \in Nat
  BY DEF TraceFiles
<1>2. Len(f.recs) \in Nat /\ DOMAIN f.recs = 1..Len(f.recs)
  BY <1>1, LenProperties
<1>3. \A i \in 1..Len(f.recs) : i + 1 \in 1..(Len(f.recs) + 1) /\ f.recs[i] \in Records
  BY <1>1, <1>2, ElementOfSeq
<1> QED
  BY <1>1, <1>2, <1>3, StartsOf, StartsNat DEF WholeOf

LEMMA TraceTyped ==
  ASSUME ReadOK
  PROVE  /\ Len(trace.recs) \in Nat /\ DOMAIN trace.recs = 1..Len(trace.recs)
         /\ trace.recs \in Seq(Records) /\ trace.size \in Nat
         /\ Whole \subseteq 1..Len(trace.recs)
         /\ HeaderCells \in Nat \ {0} /\ BodyCells \in Nat \ {0} /\ RestCells \in Nat \ {0}
         /\ \A i \in 1..Len(trace.recs) : i + 1 \in 1..(Len(trace.recs) + 1)
         /\ file \in TraceFiles
         /\ pass # "warmup" => file = trace /\ Whole = WholeOf(file)
         /\ pass = "warmup" => file = warm
<1>1. trace \in TraceFiles /\ warm \in TraceFiles /\ Whole = WholeOf(trace)
  BY DEF ReadOK, Whole, WholeOf
<1>2. /\ file \in TraceFiles
      /\ pass # "warmup" => file = trace
      /\ pass = "warmup" => file = warm
  BY <1>1 DEF file
<1> QED
  BY <1>1, <1>2, FileTyped, TraceAssumption

\* What a place outside of every record is without effect on.
LEMMA FirstRecord ==
  ASSUME ReadOK, ReadsOn(0), UNCHANGED fileVars
  PROVE  InRecord(1)' /\ pos' = 0 /\ left' \in Nat /\ phase' = "header"
<1>1. /\ phase' = "header" /\ pos' = 0 /\ left' = HeaderCells
  BY DEF ReadsOn
<1>2. file' \in TraceFiles
  BY DEF ReadOK, file, fileVars
<1>3. pos' + left' = StartOf(file', 1) + HeaderCells
  BY <1>1, <1>2, FileTyped, TraceTyped
<1> QED
  BY <1>1, <1>3, TraceTyped DEF InRecord

LEMMA CountNone == ASSUME NEW f, NEW v, NEW kinds PROVE CountBefore(f, 1, v, kinds) = 0
<1>1. {j \in 1..(1 - 1) : f.recs[j].vm = v /\ KindOf(f.recs[j]) \in kinds} = {}
  OBVIOUS
<1> QED
  BY <1>1, FS_EmptySet DEF CountBefore

LEMMA CountNext ==
  ASSUME NEW f, NEW n \in Nat \ {0}, NEW v, NEW kinds
  PROVE  /\ CountBefore(f, n, v, kinds) \in Nat
         /\ CountBefore(f, n + 1, v, kinds)
              = CountBefore(f, n, v, kinds)
                + (IF f.recs[n].vm = v /\ KindOf(f.recs[n]) \in kinds THEN 1 ELSE 0)
<1>1. PICK S : S = {j \in 1..(n - 1) : f.recs[j].vm = v /\ KindOf(f.recs[j]) \in kinds}
  OBVIOUS
<1>2. PICK T : T = {j \in 1..((n + 1) - 1) : f.recs[j].vm = v /\ KindOf(f.recs[j]) \in kinds}
  OBVIOUS
<1>3. IsFiniteSet(S)
  <2>1. IsFiniteSet(1..(n - 1))
    BY FS_Interval
  <2> QED
    BY <1>1, <2>1, FS_Subset
<1>4. Cardinality(S) \in Nat
  BY <1>3, FS_CardinalityType
<1>5. n \notin S
  BY <1>1
<1>6. CountBefore(f, n, v, kinds) = Cardinality(S) /\ CountBefore(f, n + 1, v, kinds) = Cardinality(T)
  BY <1>1, <1>2 DEF CountBefore
<1>7. CASE f.recs[n].vm = v /\ KindOf(f.recs[n]) \in kinds
  <2>1. T = S \cup {n}
    BY <1>1, <1>2, <1>7
  <2>2. Cardinality(T) = Cardinality(S) + 1
    BY <1>3, <1>5, <2>1, FS_AddElement
  <2> QED
    BY <1>4, <1>6, <1>7, <2>2
<1>8. CASE ~(f.recs[n].vm = v /\ KindOf(f.recs[n]) \in kinds)
  <2>1. T = S
    BY <1>1, <1>2, <1>8
  <2> QED
    BY <1>4, <1>6, <1>8, <2>1
<1> QED
  BY <1>7, <1>8

LEMMA KindTyped == ASSUME NEW r PROVE KindOf(r) \in Kinds
BY DEF KindOf, Kinds

\* Those before a record are those of some kinds and those of the others.
LEMMA CountSplit ==
  ASSUME NEW n \in Nat \ {0}, NEW v
  PROVE  /\ Earlier(n, v) = CountBefore(trace, n, v, enabled) + LeftOut(n, v)
         /\ CountBefore(trace, n, v, enabled) \in Nat /\ LeftOut(n, v) \in Nat
<1>1. PICK A : A = {j \in 1..(n - 1) : trace.recs[j].vm = v /\ KindOf(trace.recs[j]) \in Kinds}
  OBVIOUS
<1>2. PICK S : S = {j \in 1..(n - 1) : trace.recs[j].vm = v /\ KindOf(trace.recs[j]) \in enabled}
  OBVIOUS
<1>3. PICK T : T = {j \in 1..(n - 1) : trace.recs[j].vm = v /\ KindOf(trace.recs[j]) \notin enabled}
  OBVIOUS
<1>4. IsFiniteSet(1..(n - 1))
  BY FS_Interval
<1>5. IsFiniteSet(S) /\ IsFiniteSet(T)
  BY <1>2, <1>3, <1>4, FS_Subset
<1>6. A = S \cup T /\ S \cap T = {}
  BY <1>1, <1>2, <1>3, KindTyped
<1>7. /\ Cardinality(S) \in Nat /\ Cardinality(T) \in Nat /\ Cardinality(S \cap T) = 0
      /\ Cardinality(A) = Cardinality(S) + Cardinality(T) - Cardinality(S \cap T)
  BY <1>5, <1>6, FS_Union, FS_EmptySet, FS_CardinalityType
<1>8. /\ Earlier(n, v) = Cardinality(A) /\ LeftOut(n, v) = Cardinality(T)
      /\ CountBefore(trace, n, v, enabled) = Cardinality(S)
  BY <1>1, <1>2, <1>3 DEF Earlier, CountBefore, LeftOut
<1> QED
  BY <1>7, <1>8

\* The requests that warm the caches up, when the file is read to its end.
LEMMA WarmedUpWhole ==
  ASSUME warm \in TraceFiles, NEW n \in 1..(Len(warm.recs) + 1), WholeOf(warm) = 1..(n - 1), NEW v
  PROVE  WarmedUp(v) = CountBefore(warm, n, v, enabled) /\ WarmedUp(v) \in Nat
<1>1. {i \in DOMAIN warm.recs :
        WholeIn(warm, i) /\ warm.recs[i].vm = v /\ KindOf(warm.recs[i]) \in enabled}
        = {j \in 1..(n - 1) : warm.recs[j].vm = v /\ KindOf(warm.recs[j]) \in enabled}
  BY DEF WholeOf
<1>2. WarmedUp(v) = CountBefore(warm, n, v, enabled)
  BY <1>1 DEF WarmedUp, CountBefore
<1>3. n \in Nat \ {0}
  BY FileTyped
<1> QED
  BY <1>2, <1>3, CountNext

LEMMA WarmedUpTyped == ASSUME warm \in TraceFiles, NEW v PROVE WarmedUp(v) \in Nat
<1>1. PICK S : S = {i \in DOMAIN warm.recs :
        WholeIn(warm, i) /\ warm.recs[i].vm = v /\ KindOf(warm.recs[i]) \in enabled}
  OBVIOUS
<1>2. DOMAIN warm.recs = 1..Len(warm.recs) /\ Len(warm.recs) \in Nat
  BY FileTyped
<1>3. IsFiniteSet(S)
  <2>1. IsFiniteSet(1..Len(warm.recs))
    BY <1>2, FS_Interval
  <2>2. S \subseteq 1..Len(warm.recs)
    BY <1>1, <1>2
  <2> QED
    BY <2>1, <2>2, FS_Subset
<1> QED
  BY <1>1, <1>3, FS_CardinalityType DEF WarmedUp

LEMMA NoneWarmedUp == ASSUME ~HasWarmup, NEW v PROVE WarmedUp(v) = 0
<1>1. {i \in DOMAIN warm.recs :
        WholeIn(warm, i) /\ warm.recs[i].vm = v /\ KindOf(warm.recs[i]) \in enabled} = {}
  <2>1. warm.recs = << >> /\ DOMAIN << >> = {}
    BY DEF HasWarmup
  <2> QED
    BY <2>1
<1> QED
  BY <1>1, FS_EmptySet DEF WarmedUp

LEMMA UnsetTyped == Unset.rec = -1 /\ NoNumbers \in [Vms -> Nat]
<1>1. Unset.rec = -1
  BY DEF Unset
<1>2. NoNumbers \in [Vms -> Nat]
  BY DEF NoNumbers
<1> QED
  BY <1>1, <1>2

LEMMA TraceInitially == TraceInit => TraceInv
<1> SUFFICES ASSUME TraceInit PROVE TraceInv
  OBVIOUS
<1>1. trace \in TraceFiles /\ warm \in TraceFiles
  BY TraceAssumption DEF TraceInit, TraceFiles
<1>2. /\ scanner \in {"p", "f", "none"} /\ phase = "header" /\ pos = 0 /\ left = HeaderCells
      /\ rec = 0 /\ spec = [rec |-> -1, rw |-> "none"] /\ blkidx = [v \in Vms |-> 0] /\ errors = FALSE
      /\ scanned = << >> /\ handed = << >> /\ status = "running"
      /\ pass = CASE scanner # "none" -> "scan" [] HasWarmup -> "warmup" [] OTHER -> "replay"
  BY DEF TraceInit, Unset, NoNumbers
<1>3. /\ pass \in {"scan", "warmup", "replay"} /\ (pass = "scan" => scanner # "none")
      /\ pass = "replay" => ~HasWarmup
  BY <1>2
<1>4. ReadOK
  <2>1. trace.size \in Nat /\ warm.size \in Nat /\ HeaderCells \in Nat
    BY <1>1, TraceAssumption DEF TraceFiles
  <2>2. pos \in 0..file.size
    BY <1>2, <2>1 DEF file
  <2>3. spec.rec \in Int /\ blkidx \in [Vms -> Nat]
    <3>1. spec = Unset /\ blkidx = NoNumbers
      BY DEF TraceInit
    <3> QED
      BY <3>1, UnsetTyped
  <2>4. /\ pass \in {"scan", "warmup", "replay", "over"} /\ left \in Nat /\ errors \in BOOLEAN
        /\ phase # "header" => rec \in 1..Len(file.recs) /\ InRecord(rec)
    BY <1>2, <1>3, <2>1
  <2>5. /\ phase \in {"header", "body", "rest"} /\ scanner \in {"p", "f", "none"}
        /\ status = "ended" <=> pass = "over"
        /\ rec \in Nat /\ left <= HeaderCells
    BY <1>2, <1>3, TraceAssumption
  <2> QED
    BY <1>1, <1>3, <2>2, <2>3, <2>4, <2>5 DEF ReadOK
<1>5. InRecord(1)
  BY <1>2, <1>4, TraceTyped, FileTyped DEF InRecord
<1>6. Len(scanned) = 0 /\ Len(handed) = 0
  BY <1>2, EmptySeq
<1>7. NumberedUpTo(1)
  BY <1>2, CountNone DEF NumberedUpTo, Earlier
<1>8. ScannedOK /\ HandedOK
  BY <1>2, <1>6, EmptySeq DEF ScannedOK, HandedOK
<1>9. pass = "scan" => ScanOK
  BY <1>2, <1>3, <1>5, <1>6, <1>7 DEF ScanOK
<1>10. pass = "replay" => NoneLeftOut
  <2> SUFFICES ASSUME pass = "replay" PROVE NoneLeftOut
    OBVIOUS
  <2>1. ASSUME NEW v \in Vms PROVE blkidx[v] = ReplayNumber(1, v)
    BY <1>2, <1>3, CountNone, NoneWarmedUp DEF ReplayNumber
  <2> QED
    BY <1>5, <1>6, <2>1 DEF NoneLeftOut
<1>11. pass = "warmup" => WarmupOK
  <2>1. 1 \in 1..(Len(warm.recs) + 1)
    BY <1>1, FileTyped
  <2>2. \A v \in Vms : blkidx[v] = CountBefore(warm, 1, v, enabled)
    BY <1>2, CountNone
  <2> QED
    BY <1>5, <2>1, <2>2 DEF WarmupOK
<1> QED
  BY <1>2, <1>3, <1>4, <1>6, <1>8, <1>9, <1>10, <1>11 DEF TraceInv

\* What a trace that stays as it is has in common with itself.
LEMMA SameTrace ==
  ASSUME UNCHANGED fileVars
  PROVE  /\ trace' = trace /\ warm' = warm /\ enabled' = enabled /\ scanner' = scanner
         /\ Whole' = Whole /\ HasWarmup' = HasWarmup
         /\ (pass' = pass => file' = file)
         /\ \A v : WarmedUp(v)' = WarmedUp(v)
BY DEF fileVars, Whole, HasWarmup, WholeIn, file, WarmedUp

LEMMA HandedSame ==
  ASSUME ScannedOK, HandedOK, UNCHANGED fileVars
  PROVE  /\ scanned' = scanned => ScannedOK'
         /\ handed' = handed => HandedOK'
<1>1. trace' = trace /\ Whole' = Whole
  BY SameTrace
<1>2. scanned' = scanned => ScannedOK'
  BY <1>1 DEF ScannedOK, Earlier
<1>3. handed' = handed => HandedOK'
  BY <1>1 DEF HandedOK
<1> QED
  BY <1>2, <1>3

\* The numbers of the records that were handed on.
LEMMA Lengths ==
  ASSUME TraceInv
  PROVE  /\ Len(scanned) \in Nat /\ Len(handed) \in Nat
         /\ Len(scanned) + 1 \in 1..(Len(trace.recs) + 1)
         /\ \A k \in 1..Len(scanned) : k \in 1..Len(trace.recs)
         /\ \A k \in 1..Len(handed) : handed[k].rec \in 1..Len(trace.recs)
         /\ NoneLeftOut => Len(handed) + 1 \in 1..(Len(trace.recs) + 1)
         /\ handed # << >> => Len(handed) \in 1..Len(handed)
<1>1. Len(trace.recs) \in Nat /\ Whole \subseteq 1..Len(trace.recs)
  BY TraceTyped DEF TraceInv
<1>2. Len(scanned) \in Nat /\ Len(handed) \in Nat
  BY LenProperties DEF TraceInv, ScannedOK, HandedOK
<1>3. /\ \A k \in 1..Len(scanned) : k \in 1..Len(trace.recs)
      /\ \A k \in 1..Len(handed) : handed[k].rec \in 1..Len(trace.recs)
  BY <1>1 DEF TraceInv, ScannedOK, HandedOK
<1>4. /\ Len(scanned) # 0 => Len(scanned) \in 1..Len(scanned)
      /\ Len(handed) # 0 => Len(handed) \in 1..Len(handed)
  BY <1>2
<1>5. Len(scanned) + 1 \in 1..(Len(trace.recs) + 1)
  <2>1. Len(scanned) # 0 => Len(scanned) \in 1..Len(trace.recs)
    BY <1>3, <1>4
  <2> QED
    BY <1>1, <1>2, <2>1
<1>6. ASSUME NoneLeftOut PROVE Len(handed) + 1 \in 1..(Len(trace.recs) + 1)
  <2>1. Len(handed) # 0 => Len(handed) \in 1..Len(trace.recs)
    <3>1. Len(handed) # 0 => handed[Len(handed)].rec = Len(handed)
      BY <1>4, <1>6 DEF NoneLeftOut
    <3> QED
      BY <1>3, <1>4, <3>1
  <2> QED
    BY <1>1, <1>2, <2>1
<1>7. handed # << >> => Len(handed) # 0
  BY EmptySeq DEF TraceInv, HandedOK
<1> QED
  BY <1>2, <1>3, <1>4, <1>5, <1>6, <1>7

\* Going on in a pass: whatever record the stream was in, it still is.
LEMMA SamePass ==
  ASSUME TraceInv, UNCHANGED fileVars, UNCHANGED <<pass, spec, scanned, handed, blkidx>>,
         errors' \in BOOLEAN, errors => errors', status' = "ended" <=> status = "ended",
         pos' \in 0..file.size, left' \in Nat, phase' = "header" => left' <= HeaderCells,
         rec' \in Nat, phase' \in {"header", "body", "rest"},
         pass = "scan" \/ ~errors' =>
           \A i \in 1..(Len(file.recs) + 1) : InRecord(i) => InRecord(i)',
         \A i \in 1..Len(file.recs) : Behind(i) => Behind(i)',
         (phase # "header" => rec \in 1..Len(file.recs) /\ InRecord(rec))'
  PROVE  TraceInv'
<1>1. UNCHANGED <<pass, spec, scanned, handed, blkidx>>
  OBVIOUS
<1>2. /\ trace' = trace /\ warm' = warm /\ enabled' = enabled /\ scanner' = scanner
      /\ Whole' = Whole /\ file' = file
      /\ pass # "warmup" => file = trace
      /\ pass = "warmup" => file = warm
  BY <1>1, SameTrace, TraceTyped DEF TraceInv
<1>3. ScannedOK' /\ HandedOK'
  BY <1>1, HandedSame DEF TraceInv
<1>4. ReadOK'
  <2>1. ReadOK
    BY DEF TraceInv
  <2> QED
    BY <1>1, <1>2, <2>1 DEF ReadOK
<1>5. pass = "scan" => ScanOK'
  <2> SUFFICES ASSUME pass = "scan" PROVE ScanOK'
    OBVIOUS
  <2>1. ScanOK
    BY DEF TraceInv
  <2>2. PICK n \in 1..(Len(trace.recs) + 1) : n = Len(scanned) + 1
    BY Lengths
  <2>3. (NumberedUpTo(Len(scanned) + 1))'
    BY <1>1, <1>2, <2>1 DEF ScanOK, NumberedUpTo, Earlier
  <2>4. (scanner = "f" => InRecord(Len(scanned) + 1))'
    <3> SUFFICES ASSUME scanner = "f" PROVE InRecord(Len(scanned) + 1)'
      BY <1>2
    <3>1. InRecord(n)'
      BY <1>2, <2>1, <2>2 DEF ScanOK
    <3> QED
      BY <1>1, <1>2, <2>2, <3>1 DEF InRecord
  <2>5. (scanner = "p" =>
           \/ spec.rec = -1 /\ scanned = << >> /\ InRecord(1)
           \/ spec.rec = 0 /\ scanned = << >>
           \/ spec.rec = Len(scanned) + 1 /\ spec.rec \in Whole /\ InRecord(spec.rec + 1))'
    <3> SUFFICES ASSUME scanner = "p"
                 PROVE  (\/ spec.rec = -1 /\ scanned = << >> /\ InRecord(1)
                         \/ spec.rec = 0 /\ scanned = << >>
                         \/ spec.rec = Len(scanned) + 1 /\ spec.rec \in Whole /\ InRecord(spec.rec + 1))'
      BY <1>2
    <3>1. CASE spec.rec = -1 /\ scanned = << >> /\ InRecord(1)
      <4>1. 1 \in 1..(Len(trace.recs) + 1)
        BY TraceTyped DEF TraceInv
      <4> QED
        BY <1>1, <1>2, <3>1, <4>1
    <3>2. CASE spec.rec = 0 /\ scanned = << >>
      BY <1>1, <3>2
    <3>3. CASE spec.rec = Len(scanned) + 1 /\ spec.rec \in Whole /\ InRecord(spec.rec + 1)
      <4>1. spec.rec \in 1..Len(trace.recs)
        BY <3>3, TraceTyped DEF TraceInv
      <4>2. PICK m \in 1..(Len(trace.recs) + 1) : m = spec.rec + 1
        BY <4>1, TraceTyped DEF TraceInv
      <4>3. InRecord(m)'
        BY <1>2, <3>3, <4>2
      <4>4. InRecord(spec.rec + 1)'
        BY <1>1, <4>2, <4>3 DEF InRecord
      <4> QED
        BY <1>1, <1>2, <3>3, <4>4
    <3> QED
      BY <2>1, <3>1, <3>2, <3>3 DEF ScanOK
  <2> QED
    BY <1>1, <1>2, <2>1, <2>3, <2>4, <2>5 DEF ScanOK
<1>6. pass = "replay" /\ handed # << >> => Behind(handed[Len(handed)].rec)'
  <2> SUFFICES ASSUME pass = "replay", handed # << >> PROVE Behind(handed[Len(handed)].rec)'
    OBVIOUS
  <2>1. PICK i : i = handed[Len(handed)].rec
    OBVIOUS
  <2>2. i \in 1..Len(trace.recs) /\ Behind(i)
    BY <2>1, Lengths DEF TraceInv
  <2>3. Behind(i)'
    BY <1>2, <2>2
  <2> QED
    BY <1>1, <2>1, <2>3 DEF Behind
<1>7. pass \in {"replay", "over"} /\ ~errors' => NoneLeftOut'
  <2> SUFFICES ASSUME pass \in {"replay", "over"}, ~errors' PROVE NoneLeftOut'
    OBVIOUS
  <2>1. NoneLeftOut
    BY DEF TraceInv
  <2>2. PICK n \in 1..(Len(trace.recs) + 1) : n = Len(handed) + 1
    BY <2>1, Lengths
  <2>3. pass = "replay" => InRecord(Len(handed) + 1)'
    <3> SUFFICES ASSUME pass = "replay" PROVE InRecord(Len(handed) + 1)'
      OBVIOUS
    <3>1. InRecord(n)'
      BY <1>2, <2>1, <2>2 DEF NoneLeftOut
    <3> QED
      BY <1>1, <2>2, <3>1 DEF InRecord
  <2>4. (\A k \in 1..Len(handed) : handed[k].rec = k /\ handed[k].number = NumberOf(k))'
    BY <1>1, <1>2, <2>1, SameTrace DEF NoneLeftOut, NumberOf, ReplayNumber
  <2>5. pass = "replay" => (\A v \in Vms : blkidx[v] = ReplayNumber(Len(handed) + 1, v))'
    BY <1>1, <1>2, <2>1, SameTrace DEF NoneLeftOut, ReplayNumber
  <2> QED
    BY <1>1, <1>2, <2>1, <2>3, <2>4, <2>5 DEF NoneLeftOut
<1>8. (pass # "scan" /\ scanner = "p" =>
         \A k \in 1..Len(scanned) : scanned[k].flag = "last" <=> k = Len(scanned))'
  BY <1>1, <1>2 DEF TraceInv
<1>9. (pass \in {"scan", "warmup"} => handed = << >>)'
  BY <1>1 DEF TraceInv
<1>10. pass = "warmup" /\ ~errors' => WarmupOK'
  <2> SUFFICES ASSUME pass = "warmup", ~errors' PROVE WarmupOK'
    OBVIOUS
  <2>1. PICK n \in 1..(Len(warm.recs) + 1) :
          InRecord(n) /\ \A v \in Vms : blkidx[v] = CountBefore(warm, n, v, enabled)
    BY DEF TraceInv, WarmupOK
  <2>2. InRecord(n)'
    BY <1>2, <2>1
  <2>3. n \in 1..(Len(warm'.recs) + 1)
        /\ \A v \in Vms : blkidx'[v] = CountBefore(warm', n, v, enabled')
    BY <1>1, <1>2, <2>1
  <2> QED
    BY <2>2, <2>3 DEF WarmupOK
<1> QED
  BY <1>1, <1>2, <1>3, <1>4, <1>5, <1>6, <1>7, <1>8, <1>9, <1>10 DEF TraceInv

\* The pass ends and the next begins: the replay, or the warm-up before it.
LEMMA NextBegins ==
  ASSUME TraceInv, UNCHANGED fileVars, pass \in {"scan", "warmup"}, PassEnds(blkidx'),
         status = "running", handed' = handed, errors' \in BOOLEAN,
         blkidx' \in [Vms -> Nat], pass = "scan" => blkidx' = NoNumbers,
         pass = "warmup" /\ ~errors' => \A v \in Vms : blkidx'[v] = WarmedUp(v), ScannedOK',
         scanner = "p" =>
           \A k \in 1..Len(scanned') : scanned'[k].flag = "last" <=> k = Len(scanned')
  PROVE  TraceInv'
<1>1. /\ trace' = trace /\ warm' = warm /\ enabled' = enabled /\ scanner' = scanner
      /\ Whole' = Whole /\ \A v : WarmedUp(v)' = WarmedUp(v)
  BY SameTrace
<1>2. /\ pass' \in {"warmup", "replay"}
      /\ pass = "scan" => (pass' = "warmup" <=> HasWarmup)
      /\ pass = "warmup" => pass' = "replay"
      /\ ReadsOn(0) /\ spec' = Unset /\ status' = "running"
  BY DEF PassEnds, NextPass
<1>3. ReadOK /\ HandedOK /\ handed = << >>
  BY DEF TraceInv
<1>4. InRecord(1)'
  BY <1>2, <1>3, FirstRecord
<1>5. /\ phase' = "header" /\ pos' = 0 /\ left' = HeaderCells /\ rec' = 0
      /\ HeaderCells \in Nat
  BY <1>2, <1>3, TraceTyped DEF ReadsOn
<1>6. ReadOK'
  <2>1. trace.size \in Nat /\ warm.size \in Nat
    BY <1>3 DEF ReadOK, TraceFiles
  <2>2. (pos \in 0..file.size)'
    BY <1>1, <1>5, <2>1 DEF file
  <2>3. (spec.rec \in Int /\ blkidx \in [Vms -> Nat])'
    BY <1>2, UnsetTyped
  <2> QED
    BY <1>1, <1>2, <1>3, <1>5, <2>2, <2>3 DEF ReadOK
<1>7. HandedOK'
  BY <1>3, HandedSame DEF TraceInv
<1>8. Len(handed') = 0
  BY <1>3, EmptySeq
<1>9. pass' = "replay" /\ ~errors' => NoneLeftOut'
  <2> SUFFICES ASSUME pass' = "replay", ~errors' PROVE NoneLeftOut'
    OBVIOUS
  <2>1. ASSUME NEW v \in Vms PROVE blkidx'[v] = WarmedUp(v)'
    <3>1. CASE pass = "warmup"
      BY <1>1, <3>1
    <3>2. CASE pass = "scan"
      BY <1>1, <1>2, <3>2, NoneWarmedUp DEF NoNumbers
    <3> QED
      BY <3>1, <3>2
  <2>2. ASSUME NEW v \in Vms PROVE blkidx'[v] = WarmedUp(v)' + CountBefore(trace', 1, v, enabled')
    <3>1. blkidx'[v] \in Nat /\ CountBefore(trace', 1, v, enabled') = 0
      BY CountNone
    <3> QED
      BY <2>1, <3>1
  <2>3. (\A v \in Vms : blkidx[v] = ReplayNumber(Len(handed) + 1, v))'
    BY <1>8, <2>2 DEF ReplayNumber
  <2> QED
    BY <1>4, <1>8, <2>3 DEF NoneLeftOut
<1>10. pass' = "warmup" => WarmupOK'
  <2> SUFFICES ASSUME pass' = "warmup" PROVE WarmupOK'
    OBVIOUS
  <2>1. 1 \in 1..(Len(warm'.recs) + 1)
    BY <1>1, <1>3, FileTyped DEF ReadOK
  <2>2. blkidx' = NoNumbers
    BY <1>2
  <2>3. \A v \in Vms : blkidx'[v] = CountBefore(warm', 1, v, enabled')
    BY <2>2, CountNone DEF NoNumbers
  <2> QED
    BY <1>4, <2>1, <2>3 DEF WarmupOK
<1> QED
  BY <1>1, <1>2, <1>3, <1>6, <1>7, <1>8, <1>9, <1>10 DEF TraceInv

\* What a call of next_record returns: a record that is whole, with the stream
\* behind it; 0 when all the whole records were before; or an error.
Legit(i, offset) ==
  /\ i \in Int /\ offset \in pos..file.size
  /\ i > 0 => i \in WholeOf(file) /\ phase # "header" /\ rec = i /\ offset = StartOf(file, i + 1)
  /\ i = 0 => \A n \in 1..(Len(file.recs) + 1) : InRecord(n) => WholeOf(file) = 1..(n - 1)

LEMMA Offsets ==
  ASSUME TraceInv, UNCHANGED fileVars, NEW i, NEW offset, Legit(i, offset)
  PROVE  /\ offset \in Nat /\ pos \in Nat /\ pos <= offset /\ offset <= file.size
         /\ HeaderCells \in Nat \ {0}
<1>1. ReadOK /\ file.size \in Nat
  BY DEF TraceInv, ReadOK, TraceFiles, file
<1> QED
  BY <1>1, TraceTyped DEF ReadOK, Legit

\* The pass reads on behind a record, and is in the next.
LEMMA BehindRecord ==
  ASSUME TraceInv, UNCHANGED fileVars, NEW i, NEW offset, Legit(i, offset), i > 0,
         ReadsOn(offset), pass' = pass
  PROVE  /\ InRecord(i + 1)' /\ Behind(i)' /\ i \in WholeOf(file) /\ i \in 1..Len(file.recs)
         /\ \A n \in 1..(Len(file.recs) + 1) : InRecord(n) => n = i
<1>1. i \in WholeOf(file) /\ phase # "header" /\ rec = i /\ offset = StartOf(file, i + 1)
  BY DEF Legit
<1>2. file' = file /\ i \in 1..Len(file.recs)
  BY <1>1, SameTrace, TraceTyped, FileTyped DEF TraceInv
<1>3. phase' = "header" /\ pos' = offset /\ left' = HeaderCells
  BY DEF ReadsOn
<1>4. offset \in Nat /\ HeaderCells \in Nat
  BY Offsets
<1>5. InRecord(i + 1)'
  BY <1>1, <1>2, <1>3 DEF InRecord
<1>6. Behind(i)'
  BY <1>1, <1>2, <1>3, <1>4 DEF Behind
<1>7. \A n \in 1..(Len(file.recs) + 1) : InRecord(n) => n = i
  BY <1>1 DEF InRecord
<1> QED
  BY <1>1, <1>2, <1>5, <1>6, <1>7

\* A call that stops the program, and one that reads on after an error.
LEMMA StopStep ==
  ASSUME TraceInv, UNCHANGED fileVars, NEW how, how # "ended", Stops(how),
         status = "running", errors' \in BOOLEAN, errors => errors'
  PROVE  TraceInv'
<1>1. /\ UNCHANGED <<pass, spec, scanned, handed, blkidx>> /\ UNCHANGED readVars
      /\ (status' = "ended" <=> status = "ended")
  BY DEF Stops
<1>2. pos' = pos /\ left' = left /\ phase' = phase /\ rec' = rec
  BY <1>1 DEF readVars
<1>3. file' = file
  BY <1>1, SameTrace
<1>4. ReadOK
  BY DEF TraceInv
<1>5. /\ pos' \in 0..file.size /\ left' \in Nat /\ rec' \in Nat
      /\ phase' = "header" => left' <= HeaderCells
      /\ phase' \in {"header", "body", "rest"}
  BY <1>2, <1>4 DEF ReadOK
<1>6. \A i : (InRecord(i) => InRecord(i)') /\ (Behind(i) => Behind(i)')
  BY <1>2, <1>3 DEF InRecord, Behind
<1>7. (phase # "header" => rec \in 1..Len(file.recs) /\ InRecord(rec))'
  BY <1>2, <1>3, <1>4 DEF ReadOK, InRecord
<1> QED
  BY <1>1, <1>5, <1>6, <1>7, SamePass

LEMMA ErrorReadsOn ==
  ASSUME TraceInv, UNCHANGED fileVars, pass # "scan", NEW i, NEW offset, Legit(i, offset),
         ReadsOn(offset), UNCHANGED <<pass, status, spec, scanned, handed, blkidx>>,
         errors' = TRUE
  PROVE  TraceInv'
<1>1. phase' = "header" /\ pos' = offset /\ left' = HeaderCells /\ rec' = 0
  BY DEF ReadsOn
<1>2. file' = file /\ file \in TraceFiles
  BY SameTrace, TraceTyped DEF TraceInv
<1>3. offset \in Nat /\ pos \in Nat /\ pos <= offset /\ offset <= file.size /\ HeaderCells \in Nat
  BY Offsets
<1>4. /\ pos' \in 0..file.size /\ left' \in Nat /\ rec' \in Nat
      /\ phase' = "header" => left' <= HeaderCells
      /\ phase' \in {"header", "body", "rest"}
  <2>1. file.size \in Int
    BY DEF TraceInv, ReadOK, TraceFiles, file
  <2> QED
    BY <1>1, <1>3, <2>1
<1>5. ASSUME NEW k \in 1..Len(file.recs), Behind(k) PROVE Behind(k)'
  <2>1. PICK s \in Nat : s = StartOf(file, k + 1)
    BY <1>2, FileTyped
  <2>2. s <= pos
    BY <1>5, <2>1 DEF Behind
  <2>3. s <= offset /\ s + HeaderCells <= offset + HeaderCells
    BY <1>3, <2>1, <2>2
  <2> QED
    BY <1>1, <1>2, <2>1, <2>3 DEF Behind
<1> QED
  BY <1>1, <1>4, <1>5, SamePass

-----------------------------------------------------------------------------
\* The scan.  Its block is numbered, and the next is then looked for.
LEMMA ScannedNext ==
  ASSUME TraceInv, UNCHANGED fileVars, pass = "scan", NEW m \in Nat, NEW flag \in {"first", "good", "last"},
         m = Len(scanned) + 1, m \in Whole,
         scanned' = Append(scanned, [rec |-> m, number |-> ScanNumber(trace.recs[m]),
                                     flag |-> flag])
  PROVE  /\ ScannedOK' /\ Len(scanned') = m /\ m \in 1..m
         /\ \A k \in 1..m : k # m => scanned'[k].flag # "last"
         /\ scanned'[m].flag = flag
<1>1. ScannedOK /\ ScanOK /\ ReadOK
  BY DEF TraceInv
<1>2. trace' = trace /\ Whole' = Whole
  BY SameTrace
<1>3. trace.recs[m].vm \in Vms
  <2>1. m \in 1..Len(trace.recs) /\ trace.recs \in Seq(Records)
    BY <1>1, TraceTyped
  <2>2. trace.recs[m] \in Records
    BY <2>1, ElementOfSeq
  <2> QED
    BY <2>2 DEF Records
<1>4. blkidx[trace.recs[m].vm] = Earlier(m, trace.recs[m].vm)
  BY <1>1, <1>3 DEF ScanOK, NumberedUpTo
<1>5. blkidx[trace.recs[m].vm] \in Nat
  BY <1>1, <1>3 DEF ReadOK
<1>6. PICK e : e = [rec |-> m, number |-> blkidx[trace.recs[m].vm], flag |-> flag]
  OBVIOUS
<1>7. e \in [rec : Nat, number : Int, flag : {"first", "good", "last"}]
  <2>1. PICK b \in Int : b = blkidx[trace.recs[m].vm]
    BY <1>5
  <2> QED
    BY <1>6, <2>1, Zenon
<1>8. scanned' = Append(scanned, e)
  BY <1>6 DEF ScanNumber
<1>9. scanned \in Seq([rec : Nat, number : Int, flag : {"first", "good", "last"}]) /\ Len(scanned) \in Nat
  BY <1>1, LenProperties DEF ScannedOK
<1>10. /\ scanned' \in Seq([rec : Nat, number : Int, flag : {"first", "good", "last"}]) /\ Len(scanned') = m
       /\ \A k \in 1..Len(scanned) : scanned'[k] = scanned[k]
       /\ scanned'[m] = e
  BY <1>7, <1>8, <1>9, AppendProperties
<1>11. ASSUME NEW k \in 1..m
       PROVE  /\ k \in Whole /\ scanned'[k].rec = k
              /\ scanned'[k].number = Earlier(k, trace.recs[k].vm)
              /\ k # m => scanned'[k].flag # "last"
  <2>1. CASE k = m
    BY <1>4, <1>6, <1>10, <2>1
  <2>2. CASE k # m
    <3>1. k \in 1..Len(scanned)
      BY <1>9, <2>2
    <3>2. scanned'[k] = scanned[k]
      BY <1>10, <3>1
    <3> QED
      BY <1>1, <2>2, <3>1, <3>2 DEF ScannedOK, ScanOK
  <2> QED
    BY <2>1, <2>2
<1>12. ScannedOK'
  <2>1. \A k \in 1..m : k \in Whole /\ scanned'[k].rec = k
                         /\ scanned'[k].number = Earlier(k, trace.recs[k].vm)
    BY <1>11
  <2>2. (\A k \in 1..Len(scanned) :
          k \in Whole /\ scanned[k].rec = k /\ scanned[k].number = Earlier(k, trace.recs[k].vm))'
    BY <1>2, <1>10, <2>1 DEF Earlier
  <2> QED
    BY <1>10, <2>2 DEF ScannedOK
<1>13. m \in 1..m /\ scanned'[m].flag = flag
  BY <1>6, <1>9, <1>10
<1> QED
  BY <1>10, <1>11, <1>12, <1>13

LEMMA OneMore ==
  ASSUME NEW f \in [Vms -> Nat], NEW x
  PROVE  [f EXCEPT ![x] = @ + 1] \in [Vms -> Nat]
<1>1. PICK g : g = [f EXCEPT ![x] = @ + 1]
  OBVIOUS
<1>2. ASSUME NEW v \in Vms PROVE g[v] \in Nat
  <2>1. g[v] = IF v = x THEN f[v] + 1 ELSE f[v]
    BY <1>1
  <2> QED
    BY <2>1
<1>3. g = [v \in Vms |-> g[v]]
  BY <1>1
<1> QED
  BY <1>1, <1>2, <1>3

LEMMA NumberedNext ==
  ASSUME ReadOK, trace' = trace, NEW m \in Nat \ {0}, NumberedUpTo(m),
         blkidx' = [blkidx EXCEPT ![trace.recs[m].vm] = @ + 1]
  PROVE  NumberedUpTo(m + 1)' /\ blkidx' \in [Vms -> Nat]
<1>1. blkidx \in [Vms -> Nat]
  BY DEF ReadOK
<1>2. blkidx' \in [Vms -> Nat]
  BY <1>1, OneMore
<1>3. ASSUME NEW v \in Vms PROVE blkidx'[v] = Earlier(m + 1, v)
  <2>1. blkidx[v] = CountBefore(trace, m, v, Kinds)
    BY DEF NumberedUpTo, Earlier
  <2>2. blkidx'[v] = blkidx[v] + (IF trace.recs[m].vm = v THEN 1 ELSE 0)
    BY <1>1
  <2>3. CountBefore(trace, m + 1, v, Kinds)
          = CountBefore(trace, m, v, Kinds) + (IF trace.recs[m].vm = v THEN 1 ELSE 0)
    BY CountNext, KindTyped
  <2> QED
    BY <2>1, <2>2, <2>3 DEF Earlier
<1> QED
  BY <1>2, <1>3 DEF NumberedUpTo, Earlier

\* The scan goes on in the next record.
LEMMA ScanGoesOn ==
  ASSUME TraceInv, UNCHANGED fileVars, pass = "scan", status = "running", NEW i, NEW offset,
         Legit(i, offset), ReadsOn(offset), UNCHANGED <<pass, status, handed>>,
         errors' \in BOOLEAN, spec'.rec \in Int, blkidx' \in [Vms -> Nat],
         ScannedOK', ScanOK'
  PROVE  TraceInv'
<1>1. phase' = "header" /\ pos' = offset /\ left' = HeaderCells /\ rec' = 0
  BY DEF ReadsOn
<1>2. /\ trace' = trace /\ warm' = warm /\ enabled' = enabled /\ scanner' = scanner
      /\ Whole' = Whole /\ file' = file
  BY SameTrace
<1>3. offset \in Nat /\ offset <= file.size /\ HeaderCells \in Nat
  BY Offsets
<1>4. (pos \in 0..file.size)'
  <2>1. file.size \in Int
    BY DEF TraceInv, ReadOK, TraceFiles, file
  <2> QED
    BY <1>1, <1>2, <1>3, <2>1
<1>5. ReadOK /\ HandedOK /\ handed = << >>
  BY DEF TraceInv
<1>6. ReadOK'
  BY <1>1, <1>2, <1>3, <1>4, <1>5 DEF ReadOK
<1>7. HandedOK'
  BY <1>5, HandedSame DEF TraceInv
<1> QED
  BY <1>2, <1>5, <1>6, <1>7 DEF TraceInv

\* The record a scan is handed is the one it looked for.
LEMMA ScanFinds ==
  ASSUME TraceInv, UNCHANGED fileVars, pass = "scan", NEW i, NEW offset, Legit(i, offset),
         i > 0, ReadsOn(offset), pass' = pass, NEW n \in 1..(Len(trace.recs) + 1), InRecord(n)
  PROVE  n = i /\ i \in Nat \ {0} /\ i \in Whole /\ (i \in Whole)' /\ InRecord(i + 1)'
<1>1. /\ InRecord(i + 1)' /\ i \in Whole /\ i \in 1..Len(trace.recs)
      /\ \A k \in 1..(Len(trace.recs) + 1) : InRecord(k) => k = i
  BY BehindRecord, TraceTyped DEF TraceInv
<1>2. n = i
  BY <1>1
<1> QED
  BY <1>1, <1>2, SameTrace

LEMMA ProScanStep ==
  ASSUME TraceInv, UNCHANGED fileVars, pass = "scan", status = "running", scanner = "p",
         NEW i, NEW r, NEW offset, Legit(i, offset), r \in {i, 0},
         ProScan(r, offset), errors' \in BOOLEAN, errors => errors'
  PROVE  TraceInv'
<1>1. ReadOK /\ ScanOK /\ ScannedOK /\ handed = << >> /\ scanner' = scanner
  BY SameTrace DEF TraceInv
<1>2. r \in Int
  BY DEF Legit
<1>3. Len(scanned) \in Nat /\ Len(scanned) + 1 \in 1..(Len(trace.recs) + 1)
  BY Lengths
<1>4. spec.rec \in Int /\ blkidx \in [Vms -> Nat]
  BY <1>1 DEF ReadOK
<1>5. CASE spec.rec = -1
  <2>1. /\ spec' = Kept(IF r > 0 /\ HasContent(r) THEN r ELSE 0)
        /\ ReadsOn(offset) /\ UNCHANGED <<pass, status, scanned, handed, blkidx>>
    BY <1>5 DEF ProScan
  <2>2. scanned = << >> /\ InRecord(1) /\ 1 \in 1..(Len(trace.recs) + 1) /\ Len(scanned) = 0
    BY <1>1, <1>3, <1>5, EmptySeq DEF ScanOK
  <2>3. ScannedOK'
    BY <1>1, <2>1, HandedSame DEF TraceInv
  <2>4. spec'.rec = 0 \/ (r > 0 /\ spec'.rec = i)
    BY <2>1 DEF Kept
  <2>5. ASSUME r > 0 PROVE i = 1 /\ (i \in Whole)' /\ InRecord(2)'
    <3>1. i > 0
      BY <2>5
    <3>2. 1 = i /\ (i \in Whole)' /\ InRecord(i + 1)'
      BY <2>1, <2>2, <3>1, ScanFinds
    <3> QED
      BY <3>2
  <2>6. spec'.rec \in Int
    BY <2>4, <2>5
  <2>7. (NumberedUpTo(Len(scanned) + 1))'
    BY <1>1, <2>1, SameTrace DEF ScanOK, NumberedUpTo, Earlier
  <2>8. (\/ spec.rec = 0 /\ scanned = << >>
         \/ spec.rec = Len(scanned) + 1 /\ spec.rec \in Whole /\ InRecord(spec.rec + 1))'
    <3>1. CASE spec'.rec = 0
      BY <2>1, <2>2, <3>1
    <3>2. CASE r > 0 /\ spec'.rec = i
      <4>1. spec'.rec = 1 /\ Len(scanned') = 0
        BY <2>1, <2>2, <2>5, <3>2
      <4>2. (spec.rec \in Whole)'
        BY <2>5, <3>2
      <4>3. InRecord(spec.rec + 1)'
        BY <2>5, <3>2, <4>1
      <4> QED
        BY <4>1, <4>2, <4>3
    <3> QED
      BY <2>4, <3>1, <3>2
  <2>9. ScanOK'
    BY <1>1, <2>1, <2>2, <2>7, <2>8 DEF ScanOK
  <2> QED
    BY <1>4, <2>1, <2>3, <2>6, <2>9, ScanGoesOn
<1>6. CASE spec.rec = 0
  <2>1. PassEnds(NoNumbers) /\ UNCHANGED <<scanned, handed>>
    BY <1>6 DEF ProScan
  <2>2. scanned = << >> /\ Len(scanned) = 0
    BY <1>1, <1>3, <1>6, EmptySeq DEF ScanOK
  <2>3. ScannedOK' /\ blkidx' = NoNumbers
    BY <1>1, <2>1, HandedSame DEF TraceInv, PassEnds
  <2>4. PassEnds(blkidx')
    BY <2>1, <2>3
  <2>5. \A k \in 1..Len(scanned') : scanned'[k].flag = "last" <=> k = Len(scanned')
    BY <2>1, <2>2
  <2> QED
    BY <2>1, <2>3, <2>4, <2>5, UnsetTyped, NextBegins
<1>7. ASSUME spec.rec # -1, spec.rec # 0
      PROVE  /\ spec.rec = Len(scanned) + 1 /\ spec.rec \in Whole /\ spec.rec \in Nat
             /\ spec.rec > 0 /\ InRecord(spec.rec + 1)
             /\ spec.rec + 1 \in 1..(Len(trace.recs) + 1)
  <2>1. spec.rec = Len(scanned) + 1 /\ spec.rec \in Whole /\ InRecord(spec.rec + 1)
    BY <1>1, <1>7 DEF ScanOK
  <2>2. spec.rec \in 1..Len(trace.recs)
    BY <1>1, <2>1, TraceTyped
  <2> QED
    BY <1>1, <2>1, <2>2, TraceTyped
<1>8. CASE spec.rec # -1 /\ spec.rec # 0 /\ r > 0
  <2>1. PICK m \in Nat : m = spec.rec
    BY <1>7, <1>8
  <2>2. IF ~HasContent(r) THEN Stops("crashed")
        ELSE /\ Scanned(spec.rec, IF scanned = << >> THEN "first" ELSE "good")
             /\ spec' = Kept(r)
             /\ ReadsOn(offset) /\ UNCHANGED <<pass, status, handed>>
    BY <1>4, <1>7, <1>8 DEF ProScan
  <2>3. CASE ~HasContent(r)
    BY <2>2, <2>3, StopStep
  <2>4. CASE HasContent(r)
    <3>1. PICK flag \in {"first", "good", "last"} : flag = IF scanned = << >> THEN "first" ELSE "good"
      OBVIOUS
    <3>2. flag # "last"
      BY <3>1
    <3>3. /\ Scanned(m, flag) /\ spec' = Kept(r)
          /\ ReadsOn(offset) /\ UNCHANGED <<pass, status, handed>>
      BY <2>1, <2>2, <2>4, <3>1
    <3>4. r = i /\ i > 0
      BY <1>8
    <3>5. PICK n \in 1..(Len(trace.recs) + 1) : n = m + 1 /\ InRecord(n)
      BY <1>7, <1>8, <2>1
    <3>6. n = i /\ (i \in Whole)' /\ InRecord(i + 1)'
      BY <3>3, <3>4, <3>5, ScanFinds
    <3>7. m = Len(scanned) + 1 /\ m \in Whole /\ m \in Nat \ {0}
      BY <1>7, <1>8, <2>1
    <3>8. /\ ScannedOK' /\ Len(scanned') = m /\ m \in 1..m
          /\ \A k \in 1..m : k # m => scanned'[k].flag # "last"
          /\ scanned'[m].flag = flag
      <4>1. scanned' = Append(scanned, [rec |-> m, number |-> ScanNumber(trace.recs[m]),
                                        flag |-> flag])
        BY <3>3 DEF Scanned
      <4> QED
        BY <3>7, <4>1, ScannedNext
    <3>9. NumberedUpTo(m + 1)' /\ blkidx' \in [Vms -> Nat]
      <4>1. blkidx' = [blkidx EXCEPT ![trace.recs[m].vm] = @ + 1]
        BY <3>3 DEF Scanned
      <4>2. NumberedUpTo(m)
        BY <1>1, <3>7 DEF ScanOK
      <4> QED
        BY <1>1, <3>7, <4>1, <4>2, SameTrace, NumberedNext
    <3>10. spec'.rec = i /\ spec'.rec = m + 1 /\ spec'.rec \in Int
      BY <3>3, <3>4, <3>5, <3>6 DEF Kept
    <3>11. (spec.rec = Len(scanned) + 1 /\ spec.rec \in Whole /\ InRecord(spec.rec + 1))'
      BY <3>6, <3>8, <3>10
    <3>12. (NumberedUpTo(Len(scanned) + 1))'
      BY <3>8, <3>9 DEF NumberedUpTo, Earlier
    <3>13. (\A k \in 1..Len(scanned) : scanned[k].flag # "last")'
      BY <3>2, <3>8
    <3>14. ScanOK'
      BY <1>1, <3>11, <3>12, <3>13 DEF ScanOK
    <3> QED
      BY <3>3, <3>8, <3>9, <3>10, <3>14, ScanGoesOn
  <2> QED
    BY <2>3, <2>4
<1>9. CASE spec.rec # -1 /\ spec.rec # 0 /\ ~(r > 0)
  <2>1. PICK m \in Nat : m = spec.rec
    BY <1>7, <1>9
  <2>2. PICK flag \in {"first", "good", "last"} : flag = "last"
    OBVIOUS
  <2>3. /\ scanned' = Append(scanned, [rec |-> spec.rec, flag |-> "last",
                                       number |-> ScanNumber(trace.recs[spec.rec])])
        /\ PassEnds(NoNumbers) /\ UNCHANGED handed
    BY <1>4, <1>9 DEF ProScan
  <2>4. scanned' = Append(scanned, [rec |-> m, number |-> ScanNumber(trace.recs[m]),
                                    flag |-> flag])
    BY <2>1, <2>2, <2>3
  <2>5. m = Len(scanned) + 1 /\ m \in Whole
    BY <1>7, <1>9, <2>1
  <2>6. /\ ScannedOK' /\ Len(scanned') = m /\ m \in 1..m
        /\ \A k \in 1..m : k # m => scanned'[k].flag # "last"
        /\ scanned'[m].flag = flag
    BY <2>4, <2>5, ScannedNext
  <2>7. \A k \in 1..Len(scanned') : scanned'[k].flag = "last" <=> k = Len(scanned')
    BY <2>2, <2>6
  <2>8. blkidx' = NoNumbers
    BY <2>3 DEF PassEnds
  <2>9. PassEnds(blkidx')
    BY <2>3, <2>8
  <2> QED
    BY <2>3, <2>6, <2>7, <2>8, <2>9, UnsetTyped, NextBegins
<1> QED
  BY <1>5, <1>6, <1>8, <1>9

LEMMA ConScanStep ==
  ASSUME TraceInv, UNCHANGED fileVars, pass = "scan", status = "running", scanner # "p",
         NEW i, NEW r, NEW offset, Legit(i, offset), r \in {i, 0},
         ConScan(r, offset), errors' \in BOOLEAN
  PROVE  TraceInv'
<1>1. ReadOK /\ ScanOK /\ ScannedOK /\ handed = << >> /\ scanner' = scanner /\ scanner = "f"
  BY SameTrace DEF TraceInv, ScanOK, ReadOK
<1>2. CASE r > 0 /\ HasContent(r)
  <2>1. PICK m \in 1..(Len(trace.recs) + 1) : m = Len(scanned) + 1
    BY Lengths
  <2>2. Scanned(i, "good") /\ ReadsOn(offset) /\ UNCHANGED <<pass, status, spec, handed>> /\ i > 0
    BY <1>2 DEF ConScan
  <2>3. InRecord(m)
    BY <1>1, <2>1 DEF ScanOK
  <2>4. m = i /\ i \in Nat \ {0} /\ i \in Whole /\ InRecord(i + 1)'
    BY <2>2, <2>3, ScanFinds
  <2>5. /\ scanned' = Append(scanned, [rec |-> m, number |-> ScanNumber(trace.recs[m]),
                                       flag |-> "good"])
        /\ blkidx' = [blkidx EXCEPT ![trace.recs[m].vm] = @ + 1]
    BY <2>2, <2>4 DEF Scanned
  <2>6. /\ ScannedOK' /\ Len(scanned') = m /\ m \in 1..m
        /\ \A k \in 1..m : k # m => scanned'[k].flag # "last"
        /\ scanned'[m].flag = "good"
    BY <2>1, <2>4, <2>5, ScannedNext
  <2>7. NumberedUpTo(m + 1)' /\ blkidx' \in [Vms -> Nat]
    <3>1. NumberedUpTo(m)
      BY <1>1, <2>1 DEF ScanOK
    <3> QED
      BY <1>1, <2>4, <2>5, <3>1, SameTrace, NumberedNext
  <2>8. (\A k \in 1..Len(scanned) : scanned[k].flag # "last")'
    BY <2>6
  <2>9. NumberedUpTo(Len(scanned) + 1)' /\ InRecord(Len(scanned) + 1)'
    <3>1. NumberedUpTo(Len(scanned) + 1)'
      BY <2>6, <2>7 DEF NumberedUpTo, Earlier
    <3>2. InRecord(Len(scanned) + 1)'
      BY <2>4, <2>6
    <3> QED
      BY <3>1, <3>2
  <2>10. ScanOK'
    BY <1>1, <2>8, <2>9 DEF ScanOK
  <2>11. spec'.rec \in Int
    BY <1>1, <2>2 DEF ReadOK
  <2> QED
    BY <2>2, <2>6, <2>7, <2>10, <2>11, ScanGoesOn
<1>3. CASE ~(r > 0 /\ HasContent(r))
  <2>1. PassEnds(NoNumbers) /\ UNCHANGED <<scanned, handed>>
    BY <1>3 DEF ConScan
  <2>2. ScannedOK' /\ blkidx' = NoNumbers
    BY <1>1, <2>1, HandedSame DEF TraceInv, PassEnds
  <2>3. PassEnds(blkidx')
    BY <2>1, <2>2
  <2> QED
    BY <1>1, <2>1, <2>2, <2>3, UnsetTyped, NextBegins
<1> QED
  BY <1>2, <1>3

LEMMA ScanReturnsStep ==
  ASSUME TraceInv, UNCHANGED fileVars, pass = "scan", status = "running",
         NEW i, NEW offset, Legit(i, offset), ScanReturns(i, offset)
  PROVE  TraceInv'
<1>1. PICK ready : ready = (i > 0 /\ ReplayReady(trace.recs[i]))
  OBVIOUS
<1>2. PICK r : r = IF ready THEN i ELSE 0
  OBVIOUS
<1>3. errors \in BOOLEAN
  BY DEF TraceInv, ReadOK
<1>4. errors' \in BOOLEAN /\ (errors => errors')
  BY <1>3 DEF ScanReturns
<1>5. \/ Stops("aborted") \/ Stops("exit")
      \/ scanner = "p" /\ ProScan(r, offset)
      \/ scanner # "p" /\ ConScan(r, offset)
  BY <1>1, <1>2, Zenon DEF ScanReturns
<1>6. r \in {i, 0}
  BY <1>2
<1> QED
  BY <1>4, <1>5, <1>6, StopStep, ProScanStep, ConScanStep

-----------------------------------------------------------------------------
\* The replay.  It ends when it has been handed all there is.
LEMMA WholeUpTo == ASSUME NEW n \in Nat PROVE Cardinality(1..n) = n
BY FS_Interval

LEMMA ReplayEnds ==
  ASSUME TraceInv, UNCHANGED fileVars, pass = "replay", status = "running",
         NEW offset, Legit(0, offset), PassEnds(blkidx),
         UNCHANGED <<scanned, handed, errors>>
  PROVE  TraceInv'
<1>1. /\ trace' = trace /\ warm' = warm /\ enabled' = enabled /\ scanner' = scanner
      /\ Whole' = Whole /\ file = trace
  BY SameTrace, TraceTyped DEF TraceInv
<1>2. /\ pass' = "over" /\ ReadsOn(0) /\ spec' = Unset /\ status' = "ended" /\ blkidx' = blkidx
  BY DEF PassEnds, NextPass
<1>3. ReadOK /\ HandedOK /\ ScannedOK /\ errors \in BOOLEAN
  BY DEF TraceInv, ReadOK
<1>4. /\ phase' = "header" /\ pos' = 0 /\ left' = HeaderCells /\ rec' = 0
      /\ HeaderCells \in Nat
  BY <1>2, <1>3, TraceTyped DEF ReadsOn
<1>5. ReadOK'
  <2>1. trace.size \in Nat /\ warm.size \in Nat
    BY <1>3 DEF ReadOK, TraceFiles
  <2>2. (pos \in 0..file.size)'
    BY <1>1, <1>4, <2>1 DEF file
  <2>3. (spec.rec \in Int /\ blkidx \in [Vms -> Nat])'
    BY <1>2, <1>3, UnsetTyped DEF ReadOK
  <2> QED
    BY <1>1, <1>2, <1>3, <1>4, <2>2, <2>3 DEF ReadOK
<1>6. ScannedOK' /\ HandedOK'
  BY <1>3, HandedSame DEF TraceInv
<1>7. ASSUME ~errors PROVE NoneLeftOut'
  <2>1. NoneLeftOut
    BY <1>7 DEF TraceInv
  <2>2. PICK l \in Nat : l = Len(handed)
    BY Lengths
  <2>3. PICK n \in 1..(Len(trace.recs) + 1) : n = l + 1
    BY <2>1, <2>2, Lengths
  <2>4. InRecord(n)
    BY <2>1, <2>2, <2>3 DEF NoneLeftOut
  <2>5. Whole = 1..(n - 1) /\ n - 1 = l
    BY <1>1, <1>3, <2>2, <2>3, <2>4, TraceTyped DEF Legit
  <2>6. Cardinality(Whole) = Len(handed)
    BY <2>2, <2>5, WholeUpTo
  <2>7. (\A k \in 1..Len(handed) : handed[k].rec = k /\ handed[k].number = NumberOf(k))'
    BY <1>1, <2>1, SameTrace DEF NoneLeftOut, NumberOf, ReplayNumber
  <2> QED
    BY <1>1, <1>2, <2>6, <2>7 DEF NoneLeftOut
<1>8. (pass # "scan" /\ scanner = "p" =>
         \A k \in 1..Len(scanned) : scanned[k].flag = "last" <=> k = Len(scanned))'
  BY <1>1 DEF TraceInv
<1> QED
  BY <1>1, <1>2, <1>3, <1>5, <1>6, <1>7, <1>8 DEF TraceInv

LEMMA CountEnabled ==
  ASSUME NEW f \in TraceFiles, NEW m \in 1..Len(f.recs), NEW v
  PROVE  /\ CountBefore(f, m, v, enabled) \in Nat
         /\ CountBefore(f, m + 1, v, enabled)
              = CountBefore(f, m, v, enabled)
                + (IF f.recs[m].vm = v /\ KindOf(f.recs[m]) \in enabled THEN 1 ELSE 0)
<1>1. m \in Nat \ {0}
  BY FileTyped
<1>2. PICK kinds : kinds = enabled
  OBVIOUS
<1>3. /\ CountBefore(f, m, v, kinds) \in Nat
      /\ CountBefore(f, m + 1, v, kinds)
           = CountBefore(f, m, v, kinds)
             + (IF f.recs[m].vm = v /\ KindOf(f.recs[m]) \in kinds THEN 1 ELSE 0)
  BY <1>1, CountNext
<1> QED
  BY <1>2, <1>3

LEMMA CountOne ==
  ASSUME NEW rcd, NEW b \in [Vms -> Nat], NEW c, NEW v \in Vms,
         IF KindOf(rcd) \in enabled THEN c = [b EXCEPT ![rcd.vm] = @ + 1] ELSE c = b
  PROVE  c[v] = b[v] + (IF rcd.vm = v /\ KindOf(rcd) \in enabled THEN 1 ELSE 0)
<1>1. CASE KindOf(rcd) \in enabled
  BY <1>1
<1>2. CASE KindOf(rcd) \notin enabled
  BY <1>2
<1> QED
  BY <1>1, <1>2

\* The counts of the requests before the next record.
LEMMA CountsNext ==
  ASSUME NEW f \in TraceFiles, NEW m \in 1..Len(f.recs), NEW b \in [Vms -> Nat], NEW c,
         NEW v \in Vms, NEW w \in Nat, b[v] = w + CountBefore(f, m, v, enabled),
         IF KindOf(f.recs[m]) \in enabled
         THEN c = [b EXCEPT ![f.recs[m].vm] = @ + 1] ELSE c = b
  PROVE  c[v] = w + CountBefore(f, m + 1, v, enabled)
<1>1. m \in Nat \ {0}
  BY FileTyped
<1>2. /\ CountBefore(f, m, v, enabled) \in Nat
      /\ CountBefore(f, m + 1, v, enabled)
           = CountBefore(f, m, v, enabled)
             + (IF f.recs[m].vm = v /\ KindOf(f.recs[m]) \in enabled THEN 1 ELSE 0)
  BY CountEnabled
<1>3. PICK x \in Nat :
        /\ x = CountBefore(f, m, v, enabled)
        /\ CountBefore(f, m + 1, v, enabled)
             = x + (IF f.recs[m].vm = v /\ KindOf(f.recs[m]) \in enabled THEN 1 ELSE 0)
  BY <1>2
<1>4. c[v] = b[v] + (IF f.recs[m].vm = v /\ KindOf(f.recs[m]) \in enabled THEN 1 ELSE 0)
  BY CountOne
<1> QED
  BY <1>2, <1>3, <1>4

\* A record is handed on, or warms the caches up.
LEMMA TipTakes ==
  ASSUME TraceInv, UNCHANGED fileVars, pass \in {"warmup", "replay"}, status = "running",
         NEW i, NEW offset, Legit(i, offset), i > 0, NEW r, NEW number \in Int,
         r = file.recs[i], r.vm \in Vms,
         spec' = [rec |-> i, rw |-> KindOf(r)], Hands(i, number),
         IF KindOf(r) \in enabled
         THEN number = blkidx[r.vm] /\ blkidx' = [blkidx EXCEPT ![r.vm] = @ + 1]
         ELSE number = -1 /\ blkidx' = blkidx,
         ReadsOn(offset), UNCHANGED <<pass, status, scanned, errors>>
  PROVE  TraceInv'
<1>1. /\ trace' = trace /\ warm' = warm /\ enabled' = enabled /\ scanner' = scanner
      /\ Whole' = Whole /\ file' = file
  BY SameTrace
<1>2. ReadOK /\ HandedOK /\ ScannedOK
  BY DEF TraceInv
<1>3. phase' = "header" /\ pos' = offset /\ left' = HeaderCells /\ rec' = 0
  BY DEF ReadsOn
<1>4. offset \in Nat /\ offset <= file.size /\ HeaderCells \in Nat
  BY Offsets
<1>5. ReadOK'
  <2>1. (pos \in 0..file.size)'
    <3>1. file.size \in Int
      BY <1>2 DEF ReadOK, TraceFiles, file
    <3> QED
      BY <1>1, <1>3, <1>4, <3>1
  <2>2. spec'.rec \in Int
    BY DEF Legit
  <2>3. blkidx' \in [Vms -> Nat]
    <3>1. blkidx \in [Vms -> Nat]
      BY <1>2 DEF ReadOK
    <3> QED
      BY <3>1, OneMore
  <2> QED
    BY <1>1, <1>2, <1>3, <1>4, <2>1, <2>2, <2>3 DEF ReadOK
<1>6. ScannedOK'
  BY <1>2, HandedSame DEF TraceInv
<1>7. (pass # "scan" /\ scanner = "p" =>
         \A k \in 1..Len(scanned) : scanned[k].flag = "last" <=> k = Len(scanned))'
  BY <1>1 DEF TraceInv
<1>8. CASE pass = "warmup"
  <2>1. handed' = handed /\ handed = << >>
    BY <1>8 DEF Hands, TraceInv
  <2>2. HandedOK'
    BY <1>2, <2>1, HandedSame DEF TraceInv
  <2>3. ASSUME ~errors PROVE WarmupOK'
    <3>1. PICK n \in 1..(Len(warm.recs) + 1) :
            InRecord(n) /\ \A v \in Vms : blkidx[v] = CountBefore(warm, n, v, enabled)
      BY <1>8, <2>3 DEF TraceInv, WarmupOK
    <3>2. file = warm /\ warm \in TraceFiles /\ blkidx \in [Vms -> Nat]
      BY <1>2, <1>8, TraceTyped DEF ReadOK
    <3>3. n = i /\ i \in 1..Len(warm.recs) /\ InRecord(i + 1)'
      BY <3>1, <3>2, BehindRecord
    <3>4. i + 1 \in 1..(Len(warm.recs) + 1)
      BY <3>2, <3>3, FileTyped
    <3>5. ASSUME NEW v \in Vms PROVE blkidx'[v] = CountBefore(warm, i + 1, v, enabled)
      <4>1. i \in 1..Len(warm.recs) /\ warm \in TraceFiles /\ r = warm.recs[i]
        BY <3>2, <3>3
      <4>2. /\ CountBefore(warm, i, v, enabled) \in Nat
            /\ CountBefore(warm, i + 1, v, enabled)
                 = CountBefore(warm, i, v, enabled)
                   + (IF r.vm = v /\ KindOf(r) \in enabled THEN 1 ELSE 0)
        BY <4>1, CountEnabled
      <4>3. blkidx'[v] = blkidx[v] + (IF r.vm = v /\ KindOf(r) \in enabled THEN 1 ELSE 0)
        BY <3>2, CountOne
      <4>4. blkidx[v] = CountBefore(warm, i, v, enabled)
        BY <3>1, <3>3
      <4> QED
        BY <4>2, <4>3, <4>4
    <3> QED
      BY <1>1, <3>3, <3>4, <3>5 DEF WarmupOK
  <2> QED
    BY <1>1, <1>5, <1>6, <1>7, <1>8, <2>1, <2>2, <2>3 DEF TraceInv
<1>9. CASE pass = "replay"
  <2>1. /\ InRecord(i + 1)' /\ Behind(i)' /\ i \in Whole /\ i \in 1..Len(trace.recs)
        /\ file = trace
        /\ \A n \in 1..(Len(trace.recs) + 1) : InRecord(n) => n = i
    BY <1>2, <1>9, BehindRecord, TraceTyped
  <2>2. PICK l \in Nat : l = Len(handed)
    BY Lengths
  <2>3. PICK m \in Nat \ {0} : m = l + 1 /\ m \in 1..m /\ (m # 1 => m - 1 \in 1..l /\ m - 1 = l)
    OBVIOUS
  <2>4. i \in Nat /\ i \in Nat \ {0}
    BY <2>1
  <2>5. PICK e : e = [rec |-> i, number |-> number]
    OBVIOUS
  <2>6. e \in [rec : Nat, number : Int] /\ e.rec = i /\ e.number = number
    BY <1>9, <2>4, <2>5
  <2>7. handed' = Append(handed, e)
    BY <1>9, <2>5 DEF Hands
  <2>8. /\ handed' \in Seq([rec : Nat, number : Int]) /\ Len(handed') = m
        /\ \A k \in 1..l : handed'[k] = handed[k]
        /\ handed'[m] = e
    <3>1. handed \in Seq([rec : Nat, number : Int])
      BY <1>2 DEF HandedOK
    <3> QED
      BY <2>2, <2>3, <2>6, <2>7, <3>1, AppendProperties
  <2>9. handed' # << >>
    BY <2>3, <2>8, EmptySeq
  <2>10. l # 0 => handed[l].rec < i
    <3> SUFFICES ASSUME l # 0 PROVE handed[l].rec < i
      OBVIOUS
    <3>1. Behind(handed[l].rec)
      <4>1. handed # << >>
        BY <2>2, EmptySeq
      <4> QED
        BY <1>9, <2>2, <4>1 DEF TraceInv
    <3>2. phase # "header" /\ rec = i
      BY <1>9 DEF Legit
    <3> QED
      BY <3>1, <3>2 DEF Behind
  <2>11. ASSUME NEW k \in 1..m
         PROVE  handed'[k].rec \in Whole /\ (k > 1 => handed'[k - 1].rec < handed'[k].rec)
    <3>1. CASE k = m
      <4>1. k > 1 => k - 1 = l /\ l \in 1..l /\ l # 0
        BY <2>3, <3>1
      <4>2. k > 1 => handed'[k - 1] = handed[l]
        BY <2>8, <4>1
      <4> QED
        BY <2>1, <2>6, <2>8, <2>10, <3>1, <4>1, <4>2
    <3>2. CASE k # m
      <4>1. k \in 1..l /\ (k > 1 => k - 1 \in 1..l)
        BY <2>3, <3>2
      <4>2. handed'[k] = handed[k] /\ (k > 1 => handed'[k - 1] = handed[k - 1])
        BY <2>8, <4>1
      <4>3. handed[k].rec \in Whole /\ (k > 1 => handed[k - 1].rec < handed[k].rec)
        BY <1>2, <2>2, <4>1 DEF HandedOK
      <4> QED
        BY <4>2, <4>3
    <3> QED
      BY <3>1, <3>2
  <2>12. HandedOK'
    <3>1. (\A k \in 1..Len(handed) : handed[k].rec \in Whole)'
      BY <1>1, <2>8, <2>11
    <3>2. (\A k \in 1..Len(handed) : k > 1 => handed[k - 1].rec < handed[k].rec)'
      BY <2>8, <2>11
    <3> QED
      BY <2>8, <3>1, <3>2 DEF HandedOK
  <2>13. Behind(handed[Len(handed)].rec)'
    BY <2>1, <2>6, <2>8
  <2>14. ASSUME ~errors PROVE NoneLeftOut'
    <3>1. NoneLeftOut
      BY <1>9, <2>14 DEF TraceInv
    <3>2. m = i
      <4>1. m \in 1..(Len(trace.recs) + 1)
        BY <2>2, <2>3, <3>1, Lengths
      <4>2. InRecord(m)
        BY <1>9, <2>2, <2>3, <3>1 DEF NoneLeftOut
      <4> QED
        BY <2>1, <4>1, <4>2
    <3>3. \A v \in Vms : blkidx[v] = ReplayNumber(m, v)
      BY <1>9, <2>2, <2>3, <3>1 DEF NoneLeftOut
    <3>4. handed'[m].rec = m /\ handed'[m].number = NumberOf(m)
      BY <2>1, <2>6, <2>8, <3>2, <3>3 DEF NumberOf
    <3>5. ASSUME NEW k \in 1..m PROVE handed'[k].rec = k /\ handed'[k].number = NumberOf(k)
      <4>1. CASE k = m
        BY <3>4, <4>1
      <4>2. CASE k # m
        <5>1. k \in 1..l
          BY <2>3, <4>2
        <5> QED
          BY <2>2, <2>8, <3>1, <5>1 DEF NoneLeftOut
      <4> QED
        BY <4>1, <4>2
    <3>6. (\A k \in 1..Len(handed) : handed[k].rec = k /\ handed[k].number = NumberOf(k))'
      BY <1>1, <2>8, <3>5, SameTrace DEF NumberOf, ReplayNumber
    <3>7. ASSUME NEW v \in Vms PROVE blkidx'[v] = ReplayNumber(m + 1, v)
      <4>1. trace \in TraceFiles /\ warm \in TraceFiles /\ blkidx \in [Vms -> Nat]
        BY <1>2 DEF ReadOK
      <4>2. m \in 1..Len(trace.recs) /\ r = trace.recs[m]
        BY <2>1, <3>2
      <4>3. blkidx[v] = WarmedUp(v) + CountBefore(trace, m, v, enabled)
        BY <3>3 DEF ReplayNumber
      <4>4. WarmedUp(v) \in Nat
        BY <4>1, WarmedUpTyped
      <4>5. blkidx'[v] = WarmedUp(v) + CountBefore(trace, m + 1, v, enabled)
        BY <4>1, <4>2, <4>3, <4>4, CountsNext
      <4> QED
        BY <4>5 DEF ReplayNumber
    <3>8. (\A v \in Vms : blkidx[v] = ReplayNumber(Len(handed) + 1, v))'
      BY <1>1, <2>8, <3>7, SameTrace DEF ReplayNumber
    <3>9. InRecord(Len(handed) + 1)' /\ pass' # "over"
      BY <1>9, <2>1, <2>8, <3>2
    <3> QED
      BY <3>6, <3>8, <3>9 DEF NoneLeftOut
  <2> QED
    BY <1>1, <1>5, <1>6, <1>7, <1>9, <2>12, <2>13, <2>14 DEF TraceInv
<1> QED
  BY <1>8, <1>9

LEMMA TipReturnsStep ==
  ASSUME TraceInv, UNCHANGED fileVars, pass \in {"warmup", "replay"}, status = "running",
         NEW i, NEW offset, Legit(i, offset), TipReturns(i, offset)
  PROVE  TraceInv'
<1>1. ReadOK /\ ScannedOK /\ errors \in BOOLEAN /\ i \in Int /\ blkidx \in [Vms -> Nat]
  BY DEF TraceInv, ReadOK, Legit
<1>2. CASE i = 0
  <2>1. PassEnds(blkidx) /\ UNCHANGED <<scanned, handed>> /\ errors' = errors
    BY <1>1, <1>2 DEF TipReturns
  <2>2. CASE pass = "replay"
    BY <1>2, <2>1, <2>2, ReplayEnds
  <2>3. CASE pass = "warmup"
    <3>1. blkidx' = blkidx
      BY <2>1 DEF PassEnds
    <3>2. PassEnds(blkidx')
      BY <2>1, <3>1
    <3>3. ScannedOK'
      BY <1>1, <2>1, HandedSame DEF TraceInv
    <3>4. scanner = "p" =>
            \A k \in 1..Len(scanned') : scanned'[k].flag = "last" <=> k = Len(scanned')
      BY <2>1, <2>3 DEF TraceInv
    <3>5. ASSUME ~errors PROVE \A v \in Vms : blkidx'[v] = WarmedUp(v)
      <4>1. PICK n \in 1..(Len(warm.recs) + 1) :
              InRecord(n) /\ \A v \in Vms : blkidx[v] = CountBefore(warm, n, v, enabled)
        BY <2>3, <3>5 DEF TraceInv, WarmupOK
      <4>2. file = warm /\ warm \in TraceFiles
        BY <1>1, <2>3, TraceTyped DEF ReadOK
      <4>3. WholeOf(warm) = 1..(n - 1)
        BY <1>2, <4>1, <4>2 DEF Legit
      <4> QED
        BY <3>1, <4>1, <4>2, <4>3, WarmedUpWhole
    <3> QED
      BY <1>1, <2>1, <2>3, <3>1, <3>2, <3>3, <3>4, <3>5, NextBegins
  <2> QED
    BY <2>2, <2>3
<1>3. CASE i # 0 /\ (i < 0 \/ (i > 0 /\ Unfit(file.recs[i])))
  <2>1. TakesErrorForRecord(offset) /\ errors' = TRUE
    BY <1>3 DEF TipReturns
  <2>2. \/ ReadsOn(offset) /\ UNCHANGED <<pass, status, spec, scanned, handed, blkidx>>
        \/ Stops("stale")
    BY <2>1 DEF TakesErrorForRecord
  <2> QED
    BY <2>1, <2>2, StopStep, ErrorReadsOn
<1>4. CASE i # 0 /\ ~(i < 0 \/ (i > 0 /\ Unfit(file.recs[i])))
  <2>1. PICK r : r = file.recs[i]
    OBVIOUS
  <2>2. i > 0 /\ ~Unfit(r)
    BY <1>1, <1>4, <2>1
  <2>3. errors' = errors
    BY <1>1, <1>4 DEF TipReturns
  <2>4. IF r.event = "OFR" THEN Stops("aborted")
        ELSE /\ spec' = [rec |-> i, rw |-> KindOf(r)]
             /\ IF KindOf(r) \in enabled
                THEN Hands(i, blkidx[r.vm]) /\ blkidx' = [blkidx EXCEPT ![r.vm] = @ + 1]
                ELSE Hands(i, -1) /\ UNCHANGED blkidx
             /\ ReadsOn(offset) /\ UNCHANGED <<pass, status, scanned>>
    BY <1>4, <2>1 DEF TipReturns
  <2>5. CASE r.event = "OFR"
    BY <1>1, <2>3, <2>4, <2>5, StopStep
  <2>6. CASE r.event # "OFR"
    <3>1. r.vm \in Vms
      <4>1. i \in 1..Len(file.recs) /\ file \in TraceFiles
        BY <1>1, <2>2, TraceTyped, FileTyped DEF Legit
      <4>2. r \in Records
        BY <2>1, <4>1, FileTyped
      <4> QED
        BY <4>2 DEF Records
    <3>2. /\ spec' = [rec |-> i, rw |-> KindOf(r)]
          /\ ReadsOn(offset) /\ UNCHANGED <<pass, status, scanned, errors>>
      BY <2>3, <2>4, <2>6
    <3>3. PICK number \in Int :
            number = IF KindOf(r) \in enabled THEN blkidx[r.vm] ELSE -1
      BY <1>1, <3>1
    <3>4. Hands(i, number)
      BY <2>4, <2>6, <3>3
    <3>5. IF KindOf(r) \in enabled
          THEN number = blkidx[r.vm] /\ blkidx' = [blkidx EXCEPT ![r.vm] = @ + 1]
          ELSE number = -1 /\ blkidx' = blkidx
      BY <2>4, <2>6, <3>3
    <3> QED
      BY <2>1, <2>2, <3>1, <3>2, <3>4, <3>5, TipTakes
  <2> QED
    BY <2>5, <2>6
<1> QED
  BY <1>2, <1>3, <1>4

LEMMA ReturnsStep ==
  ASSUME TraceInv, UNCHANGED fileVars, status = "running",
         NEW i, NEW offset, Legit(i, offset), Returns(i, offset)
  PROVE  TraceInv'
<1>1. pass \in {"scan", "warmup", "replay"}
  BY DEF TraceInv, ReadOK
<1>2. CASE pass = "scan"
  BY <1>2, ScanReturnsStep DEF Returns
<1>3. CASE pass \in {"warmup", "replay"}
  BY <1>3, TipReturnsStep DEF Returns
<1> QED
  BY <1>1, <1>2, <1>3

-----------------------------------------------------------------------------
\* The stream.  A place between two records tells which of them are whole.
LEMMA WholeBefore ==
  ASSUME NEW f \in TraceFiles, NEW n \in 1..(Len(f.recs) + 1), StartOf(f, n) <= f.size,
         n \in 1..Len(f.recs) => f.size < StartOf(f, n + 1)
  PROVE  WholeOf(f) = 1..(n - 1)
<1>1. PICK N \in Nat : N = Len(f.recs) /\ DOMAIN f.recs = 1..N
  BY FileTyped, TraceAssumption
<1>2. /\ \A j \in 1..(N + 1) : StartOf(f, j) \in Nat
      /\ f.size \in Nat /\ HeaderCells \in Nat
  BY <1>1, FileTyped, TraceAssumption
<1>3. ASSUME NEW k \in 1..N PROVE k \in WholeOf(f) <=> k \in 1..(n - 1)
  <2>1. PICK j \in 1..(N + 1) : j = k + 1
    OBVIOUS
  <2>2. k \in WholeOf(f) <=> StartOf(f, j) <= f.size
    BY <1>1, <2>1 DEF WholeOf, WholeIn
  <2>3. CASE k \in 1..(n - 1)
    <3>1. j <= n
      BY <1>1, <2>1, <2>3
    <3>2. StartOf(f, j) <= StartOf(f, n)
      <4>1. CASE j = n
        BY <1>1, <1>2, <4>1
      <4>2. CASE j # n
        <5>1. j \in 1..N /\ n \in (j + 1)..(N + 1)
          BY <1>1, <3>1, <4>2
        <5>2. StartOf(f, j) + HeaderCells < StartOf(f, n)
          BY <1>1, <5>1, StartsInOrder
        <5>3. StartOf(f, j) \in Nat /\ StartOf(f, n) \in Nat
          BY <1>1, <1>2
        <5> QED
          BY <1>2, <5>2, <5>3
      <4> QED
        BY <4>1, <4>2
    <3>3. StartOf(f, j) \in Nat /\ StartOf(f, n) \in Nat
      BY <1>1, <1>2
    <3>4. StartOf(f, j) <= f.size
      BY <1>2, <3>2, <3>3
    <3> QED
      BY <2>2, <2>3, <3>4
  <2>4. CASE k \notin 1..(n - 1)
    <3>1. PICK m \in 1..(N + 1) : m = n + 1 /\ n \in 1..N /\ m <= j
      <4>1. n + 1 \in 1..(N + 1) /\ n \in 1..N /\ n + 1 <= j
        BY <1>1, <2>1, <2>4
      <4> QED
        BY <4>1
    <3>2. f.size < StartOf(f, m)
      BY <1>1, <3>1
    <3>3. StartOf(f, m) <= StartOf(f, j)
      <4>1. j \in (n + 1)..(N + 1)
        BY <3>1
      <4> QED
        BY <1>1, <3>1, <4>1, StartsInOrder
    <3>4. StartOf(f, m) \in Nat /\ StartOf(f, j) \in Nat
      BY <1>2
    <3>5. ~(StartOf(f, j) <= f.size)
      BY <1>2, <3>2, <3>3, <3>4
    <3> QED
      BY <2>2, <2>4, <3>5
  <2> QED
    BY <2>3, <2>4
<1>4. WholeOf(f) \subseteq 1..N /\ 1..(n - 1) \subseteq 1..N
  BY <1>1 DEF WholeOf
<1> QED
  BY <1>3, <1>4

\* The place of the stream, in the file that is read.
LEMMA Places ==
  ASSUME TraceInv
  PROVE  /\ pos \in Nat /\ left \in Nat /\ rec \in Nat /\ file.size \in Nat /\ pos <= file.size
         /\ HeaderCells \in Nat \ {0} /\ BodyCells \in Nat \ {0} /\ RestCells \in Nat \ {0}
         /\ DOMAIN file.recs \subseteq Nat
         /\ file \in TraceFiles
<1>1. ReadOK
  BY DEF TraceInv
<1>2. file.size \in Nat /\ file.recs \in Seq(Records)
  BY <1>1 DEF ReadOK, TraceFiles, file
<1>3. DOMAIN file.recs \subseteq Nat
  BY <1>2, LenProperties
<1>4. pos \in Nat /\ pos <= file.size
  BY <1>1, <1>2 DEF ReadOK
<1> QED
  BY <1>1, <1>2, <1>3, <1>4, TraceTyped DEF ReadOK

LEMMA LegitError == ASSUME TraceInv, NEW p \in pos..file.size PROVE Legit(-1, p)
<1>1. PICK i \in Int : i = -1 /\ ~(i > 0) /\ i # 0
  OBVIOUS
<1> QED
  BY <1>1 DEF Legit

LEMMA LegitEnd ==
  ASSUME TraceInv, phase = "header",
         \/ left > 0 /\ pos = file.size
         \/ left = 0 /\ pos - HeaderCells = TrailerOf(file)
  PROVE  Legit(0, pos)
<1>1. PICK o \in Int : o = 0 /\ ~(o > 0)
  OBVIOUS
<1>2. pos \in pos..file.size
  BY Places
<1>3. ASSUME NEW n \in 1..(Len(file.recs) + 1), InRecord(n)
      PROVE  WholeOf(file) = 1..(n - 1)
  <2>1. PICK N \in Nat : N = Len(file.recs)
    BY Places, FileTyped
  <2>2. PICK s \in Nat : s = StartOf(file, n)
    BY Places, FileTyped
  <2>3. pos + left = s + HeaderCells
    BY <1>3, <2>2 DEF InRecord
  <2>4. left <= HeaderCells
    BY DEF TraceInv, ReadOK
  <2>5. s <= file.size
    BY <2>3, <2>4, Places
  <2>6. n \in 1..N => file.size < StartOf(file, n + 1)
    <3> SUFFICES ASSUME n \in 1..N PROVE file.size < StartOf(file, n + 1)
      OBVIOUS
    <3>1. PICK m \in (n + 1)..(N + 1) : m = n + 1 /\ m \in 1..(N + 1) /\ ~(m <= n)
      <4>1. n + 1 \in (n + 1)..(N + 1) /\ n + 1 \in 1..(N + 1) /\ ~(n + 1 <= n)
        OBVIOUS
      <4> QED
        BY <4>1
    <3>2. s + HeaderCells < StartOf(file, m) /\ StartOf(file, m) \in Nat
      BY <2>1, <2>2, <3>1, StartsInOrder, StartsNat
    <3>3. CASE left > 0 /\ pos = file.size
      BY <2>3, <2>4, <3>1, <3>2, <3>3, Places
    <3>4. CASE left = 0 /\ pos - HeaderCells = TrailerOf(file)
      <4>1. PICK k \in 1..(N + 1) : k = N + 1
        OBVIOUS
      <4>2. s = StartOf(file, k)
        BY <2>1, <2>3, <2>4, <3>4, <4>1, Places DEF TrailerOf
      <4>3. k <= n
        <5>1. StartOf(file, k) <= StartOf(file, n)
          BY <2>2, <4>2
        <5> QED
          BY <2>1, <5>1, StartsApart
      <4> QED
        BY <4>1, <4>3
    <3> QED
      BY <3>3, <3>4
  <2>7. PICK f \in TraceFiles : f = file
    BY Places
  <2>8. n \in 1..(Len(f.recs) + 1) /\ StartOf(f, n) <= f.size
    BY <2>2, <2>5, <2>7
  <2>9. n \in 1..Len(f.recs) => f.size < StartOf(f, n + 1)
    BY <2>1, <2>6, <2>7
  <2>10. WholeOf(f) = 1..(n - 1)
    BY <2>8, <2>9, WholeBefore
  <2> QED
    BY <2>7, <2>10
<1>4. o = 0 => \A n \in 1..(Len(file.recs) + 1) : InRecord(n) => WholeOf(file) = 1..(n - 1)
  BY <1>3
<1>5. o \in Int /\ (o > 0 => o \in WholeOf(file) /\ phase # "header" /\ rec = o
                               /\ pos = StartOf(file, o + 1))
  BY <1>1
<1>6. Legit(o, pos)
  BY <1>2, <1>4, <1>5 DEF Legit
<1> QED
  BY <1>1, <1>6

LEMMA LegitRecord ==
  ASSUME TraceInv, left = 0,
         \/ phase = "body" /\ Interpret(file.recs[rec]) = "done"
         \/ phase = "rest"
  PROVE  Legit(rec, pos)
<1>1. rec \in Nat /\ pos \in Nat /\ pos \in pos..file.size
  BY Places
<1>2. rec \in WholeOf(file) /\ pos = StartOf(file, rec + 1) /\ rec # 0
  <2>1. file \in TraceFiles /\ rec \in 1..Len(file.recs) /\ InRecord(rec)
    BY Places DEF TraceInv, ReadOK
  <2>2. pos = StartOf(file, rec + 1)
    <3>1. CASE phase = "rest"
      BY <1>1, <2>1, <3>1 DEF InRecord
    <3>2. CASE phase = "body" /\ Interpret(file.recs[rec]) = "done"
      <4>1. file.recs[rec].whole
        <5>1. \/ file.recs[rec].whole
              \/ file.recs[rec].event \in {"SFN", "SFD", "OFNW", "OFDW"}
          BY <2>1, FileTyped DEF TraceFiles
        <5> QED
          BY <2>1, <3>2, <5>1 DEF Interpret, ParseSF, ParseOFW
      <4>2. CellsOf(file.recs[rec]) = HeaderCells + BodyCells
        BY <4>1, Places DEF CellsOf
      <4>3. StartOf(file, rec + 1) = StartOf(file, rec) + (HeaderCells + BodyCells)
        BY <2>1, <4>2, FileTyped
      <4>4. pos = StartOf(file, rec) + HeaderCells + BodyCells
        BY <1>1, <2>1, <3>2 DEF InRecord
      <4>5. StartOf(file, rec) \in Nat
        BY <2>1, FileTyped
      <4> QED
        BY <4>3, <4>4, <4>5, Places
    <3> QED
      BY <3>1, <3>2
  <2>3. rec \in WholeOf(file)
    <3>1. DOMAIN file.recs = 1..Len(file.recs)
      BY Places, FileTyped
    <3>2. pos <= file.size
      BY <2>1, Places
    <3> QED
      BY <2>1, <2>2, <3>1, <3>2 DEF WholeOf, WholeIn
  <2> QED
    BY <2>1, <2>2, <2>3
<1>3. phase # "header"
  OBVIOUS
<1> QED
  BY <1>1, <1>2, <1>3 DEF Legit

-----------------------------------------------------------------------------
LEMMA ReadStep == ASSUME TraceInv, Read PROVE TraceInv'
<1>1. PICK n \in 1..left : pos + n <= file.size /\ pos' = pos + n /\ left' = left - n
  BY DEF Read
<1>2. UNCHANGED <<fileVars, phase, rec, passVars>>
  BY DEF Read
<1>3. UNCHANGED <<pass, spec, scanned, handed, blkidx, errors, status>> /\ file' = file
  BY <1>2, SameTrace DEF passVars
<1>4. ReadOK /\ errors \in BOOLEAN
  BY DEF TraceInv, ReadOK
<1>5. /\ pos' \in 0..file.size /\ left' \in Nat /\ left' <= left /\ pos <= pos'
      /\ pos' + left' = pos + left
  BY <1>1, Places
<1>6. phase' = "header" => left' <= HeaderCells
  <2>1. phase = "header" => left <= HeaderCells
    BY <1>4 DEF ReadOK
  <2> QED
    BY <1>2, <1>5, <2>1, Places
<1>7. \A i : InRecord(i) => InRecord(i)'
  BY <1>2, <1>3, <1>5 DEF InRecord
<1>8. ASSUME NEW i \in 1..Len(file.recs), Behind(i) PROVE Behind(i)'
  <2>1. PICK s \in Nat : s = StartOf(file, i + 1)
    BY Places, FileTyped
  <2>2. s <= pos /\ s <= pos'
    <3>1. s <= pos
      BY <1>8, <2>1 DEF Behind
    <3>2. pos \in Int /\ pos' \in Int /\ pos <= pos'
      BY <1>5, Places
    <3> QED
      BY <2>1, <3>1, <3>2
  <2> QED
    BY <1>2, <1>3, <1>5, <1>8, <2>1, <2>2 DEF Behind
<1>9. (phase # "header" => rec \in 1..Len(file.recs) /\ InRecord(rec))'
  BY <1>2, <1>3, <1>4, <1>5 DEF ReadOK, InRecord
<1>10. rec' \in Nat /\ phase' \in {"header", "body", "rest"}
  BY <1>2, <1>4 DEF ReadOK
<1> QED
  BY <1>2, <1>3, <1>4, <1>5, <1>6, <1>7, <1>8, <1>9, <1>10, SamePass

LEMMA FileEndsStep == ASSUME TraceInv, FileEnds PROVE TraceInv'
<1>1. status = "running" /\ left > 0 /\ pos = file.size /\ UNCHANGED fileVars
  BY DEF FileEnds
<1>2. CASE phase = "header"
  BY <1>1, <1>2, LegitEnd, ReturnsStep DEF FileEnds
<1>3. CASE phase # "header"
  <2>1. pos \in pos..file.size
    BY Places
  <2>2. Returns(-1, pos)
    BY <1>3 DEF FileEnds
  <2> QED
    BY <1>1, <2>1, <2>2, LegitError, ReturnsStep
<1> QED
  BY <1>2, <1>3

LEMMA ReadFailsStep == ASSUME TraceInv, ReadFails PROVE TraceInv'
<1>1. status = "running" /\ UNCHANGED fileVars /\ Returns(-1, pos)
  BY DEF ReadFails
<1>2. pos \in pos..file.size
  BY Places
<1> QED
  BY <1>1, <1>2, LegitError, ReturnsStep

LEMMA RestReadStep == ASSUME TraceInv, RestRead PROVE TraceInv'
BY LegitRecord, ReturnsStep DEF RestRead

\* The stream has come to the body of a record.
LEMMA ComesToBody ==
  ASSUME TraceInv, phase = "header", left = 0, UNCHANGED <<fileVars, pos, passVars>>,
         phase' = "body", left' = BodyCells,
         rec' \in {i \in DOMAIN file.recs : StartOf(file, i) = pos - HeaderCells}
  PROVE  TraceInv'
<1>1. UNCHANGED <<pass, spec, scanned, handed, blkidx, errors, status>> /\ file' = file
  BY SameTrace DEF passVars
<1>2. errors \in BOOLEAN
  BY DEF TraceInv, ReadOK
<1>3. pos' \in 0..file.size /\ left' \in Nat /\ rec' \in Nat
  BY Places
<1>4. /\ rec' \in 1..Len(file.recs) /\ InRecord(rec)'
      /\ \A i \in 1..(Len(file.recs) + 1) : InRecord(i) => InRecord(i)'
      /\ \A i \in 1..Len(file.recs) : Behind(i) => Behind(i)'
  <2>1. PICK N \in Nat : N = Len(file.recs) /\ DOMAIN file.recs = 1..N
    BY Places, FileTyped
  <2>2. PICK r \in 1..N : r = rec' /\ StartOf(file, r) = pos - HeaderCells
    BY <2>1
  <2>3. r \in 1..(N + 1) /\ StartOf(file, r) \in Nat
    BY <2>1, StartsNat
  <2>4. pos' + left' = StartOf(file, r) + HeaderCells + BodyCells
    BY <2>2, <2>3, Places
  <2>5. InRecord(rec)'
    BY <1>1, <2>2, <2>4 DEF InRecord
  <2>6. ASSUME NEW i \in 1..(N + 1), InRecord(i) PROVE InRecord(i)'
    <3>1. PICK s \in Nat : s = StartOf(file, i)
      BY <2>1, StartsNat
    <3>2. pos + left = s + HeaderCells
      BY <2>6, <3>1 DEF InRecord
    <3>3. StartOf(file, i) = StartOf(file, r)
      BY <2>2, <3>1, <3>2, Places
    <3>4. i <= r /\ r <= i
      BY <2>1, <2>3, <3>1, <3>3, StartsApart
    <3>5. i = r
      BY <3>4
    <3> QED
      BY <2>2, <2>5, <3>5 DEF InRecord
  <2>7. ASSUME NEW i \in 1..N, Behind(i) PROVE Behind(i)'
    <3>1. PICK j \in 1..(N + 1) : j = i + 1
      OBVIOUS
    <3>2. PICK s \in Nat : s = StartOf(file, j)
      BY <2>1, StartsNat
    <3>3. s <= pos /\ s + HeaderCells <= pos
      BY <2>7, <3>1, <3>2, Places DEF Behind
    <3>4. StartOf(file, j) <= StartOf(file, r)
      BY <2>2, <3>2, <3>3, Places
    <3>5. j <= r
      BY <2>1, <2>3, <3>4, StartsApart
    <3>6. i < r
      BY <3>1, <3>5
    <3> QED
      BY <1>1, <2>2, <3>1, <3>2, <3>3, <3>6 DEF Behind
  <2> QED
    BY <2>1, <2>2, <2>5, <2>6, <2>7
<1>5. (phase # "header" => rec \in 1..Len(file.recs) /\ InRecord(rec))'
  BY <1>1, <1>4
<1> QED
  BY <1>1, <1>2, <1>3, <1>4, <1>5, SamePass

LEMMA HeaderReadStep == ASSUME TraceInv, HeaderRead PROVE TraceInv'
<1>1. status = "running" /\ phase = "header" /\ left = 0 /\ UNCHANGED fileVars
  BY DEF HeaderRead
<1>2. PICK here : here = {i \in DOMAIN file.recs : StartOf(file, i) = pos - HeaderCells}
  OBVIOUS
<1>3. IF here # {}
      THEN /\ phase' = "body" /\ left' = BodyCells /\ rec' \in here
           /\ UNCHANGED <<pos, passVars>>
      ELSE \/ Stops("crashed") /\ UNCHANGED <<errors, genesis>>
           \/ IF file.trailer /\ pos - HeaderCells = TrailerOf(file) THEN Returns(0, pos)
              ELSE \E p \in pos..file.size : Returns(-1, p)
  BY <1>2 DEF HeaderRead
<1>4. CASE here # {}
  BY <1>1, <1>2, <1>3, <1>4, ComesToBody
<1>5. CASE here = {} /\ Stops("crashed") /\ UNCHANGED <<errors, genesis>>
  <2>1. errors \in BOOLEAN
    BY DEF TraceInv, ReadOK
  <2> QED
    BY <1>1, <1>5, <2>1, StopStep
<1>6. CASE pos - HeaderCells = TrailerOf(file) /\ Returns(0, pos)
  BY <1>1, <1>6, LegitEnd, ReturnsStep
<1>7. CASE \E p \in pos..file.size : Returns(-1, p)
  BY <1>1, <1>7, LegitError, ReturnsStep
<1> QED
  BY <1>3, <1>4, <1>5, <1>6, <1>7

LEMMA BodyReadStep == ASSUME TraceInv, BodyRead PROVE TraceInv'
<1>1. status = "running" /\ phase = "body" /\ left = 0 /\ UNCHANGED fileVars
  BY DEF BodyRead
<1>2. \/ Interpret(file.recs[rec]) = "done" /\ Returns(rec, pos)
      \/ /\ Interpret(file.recs[rec]) = "more" /\ phase' = "rest" /\ left' = RestCells
         /\ UNCHANGED <<pos, rec, passVars>>
      \/ Returns(-1, pos)
  BY DEF BodyRead
<1>3. CASE Interpret(file.recs[rec]) = "done" /\ Returns(rec, pos)
  BY <1>1, <1>3, LegitRecord, ReturnsStep
<1>4. CASE /\ Interpret(file.recs[rec]) = "more" /\ phase' = "rest" /\ left' = RestCells
           /\ UNCHANGED <<pos, rec, passVars>>
  <2>1. UNCHANGED <<pass, spec, scanned, handed, blkidx, errors, status>> /\ file' = file
    BY <1>1, <1>4, SameTrace DEF passVars
  <2>2. errors \in BOOLEAN /\ ReadOK
    BY DEF TraceInv, ReadOK
  <2>3. pos' \in 0..file.size /\ left' \in Nat /\ rec' \in Nat
    BY <1>4, Places
  <2>4. /\ rec' \in 1..Len(file.recs) /\ InRecord(rec)'
        /\ \A i \in 1..(Len(file.recs) + 1) : InRecord(i) => InRecord(i)'
        /\ \A i \in 1..Len(file.recs) : Behind(i) => Behind(i)'
    <3>1. file \in TraceFiles /\ rec \in 1..Len(file.recs) /\ InRecord(rec)
      BY <1>1, <2>2, Places DEF ReadOK
    <3>2. ~file.recs[rec].whole
      BY <1>4, <3>1 DEF Interpret, ParseSF, ParseOFW, ParseCFW
    <3>3. PICK s \in Nat : s = StartOf(file, rec)
      BY <3>1, FileTyped
    <3>4. pos = s + HeaderCells + BodyCells
      BY <1>1, <3>1, <3>3, Places DEF InRecord
    <3>5. StartOf(file, rec + 1) = s + (HeaderCells + BodyCells + RestCells)
      <4>1. CellsOf(file.recs[rec]) = HeaderCells + BodyCells + RestCells
        BY <3>2 DEF CellsOf
      <4> QED
        BY <3>1, <3>3, <4>1, FileTyped
    <3>6. pos + RestCells = StartOf(file, rec + 1)
      BY <3>4, <3>5, Places
    <3>7. InRecord(rec)'
      BY <1>4, <2>1, <3>2, <3>6 DEF InRecord
    <3>8. \A i : InRecord(i) => i = rec
      BY <1>1 DEF InRecord
    <3>9. \A i \in 1..Len(file.recs) : Behind(i) => Behind(i)'
      BY <1>1, <1>4, <2>1 DEF Behind
    <3>10. rec' = rec
      BY <1>4
    <3>11. \A i : i = rec => InRecord(i)'
      BY <3>7, <3>10 DEF InRecord
    <3> QED
      BY <3>1, <3>7, <3>8, <3>9, <3>10, <3>11
  <2>5. (phase # "header" => rec \in 1..Len(file.recs) /\ InRecord(rec))'
    BY <2>1, <2>4
  <2>6. phase' \in {"header", "body", "rest"} /\ phase' # "header"
    BY <1>4
  <2> QED
    BY <1>1, <2>1, <2>2, <2>3, <2>4, <2>5, <2>6, SamePass
<1>5. CASE Returns(-1, pos)
  <2>1. pos \in pos..file.size
    BY Places
  <2> QED
    BY <1>1, <1>5, <2>1, LegitError, ReturnsStep
<1> QED
  BY <1>2, <1>3, <1>4, <1>5

LEMMA TraceStutters == ASSUME TraceInv, UNCHANGED traceVars PROVE TraceInv'
<1>1. UNCHANGED fileVars /\ UNCHANGED <<phase, pos, left, rec>>
      /\ UNCHANGED <<pass, spec, scanned, handed, blkidx, errors, status>>
  BY DEF traceVars, readVars, passVars
<1>2. file' = file
  BY <1>1, SameTrace
<1>3. ReadOK /\ errors \in BOOLEAN
  BY DEF TraceInv, ReadOK
<1>4. \A i : (InRecord(i) => InRecord(i)') /\ (Behind(i) => Behind(i)')
  BY <1>1, <1>2 DEF InRecord, Behind
<1>5. (phase # "header" => rec \in 1..Len(file.recs) /\ InRecord(rec))'
  BY <1>1, <1>2, <1>3 DEF ReadOK, InRecord
<1>6. /\ pos' \in 0..file.size /\ left' \in Nat /\ rec' \in Nat
      /\ phase' = "header" => left' <= HeaderCells
      /\ phase' \in {"header", "body", "rest"}
  BY <1>1, <1>3 DEF ReadOK
<1> QED
  BY <1>1, <1>3, <1>4, <1>5, <1>6, SamePass

LEMMA TraceStep == TraceInv /\ [TraceNext]_traceVars => TraceInv'
BY ReadStep, FileEndsStep, ReadFailsStep, HeaderReadStep, BodyReadStep, RestReadStep,
   TraceStutters DEF TraceNext

LEMMA TraceInvariant == TraceSpec => []TraceInv
BY TraceInitially, TraceStep, PTL DEF TraceSpec

\* However a trace is cut and its bytes come, the passes are handed its whole
\* records only, once and in order, and without an error all there are.
THEOREM HandedTheorem == TraceSpec => []HandedInOrder
<1>1. ASSUME TraceInv PROVE HandedInOrder
  <2>1. ScannedOK /\ HandedOK /\ ReadOK
    BY <1>1 DEF TraceInv
  <2>2. DOMAIN scanned = 1..Len(scanned) /\ DOMAIN handed = 1..Len(handed)
    BY <2>1, LenProperties DEF ScannedOK, HandedOK
  <2>3. ~errors /\ status = "ended" => Len(handed) = Cardinality(Whole)
    BY <1>1, <2>1 DEF TraceInv, ReadOK, NoneLeftOut
  <2>4. \A k \in DOMAIN scanned : scanned[k].rec = k /\ k \in Whole
    BY <2>1, <2>2 DEF ScannedOK
  <2>5. \A k \in DOMAIN handed : /\ handed[k].rec \in Whole
                                 /\ k > 1 => handed[k - 1].rec < handed[k].rec
    BY <2>1, <2>2 DEF HandedOK
  <2> QED
    BY <2>3, <2>4, <2>5 DEF HandedInOrder
<1> QED
  BY <1>1, TraceInvariant, PTL

\* After a scan the replay looks its blocks up under the numbers the scan gave
\* them, shifted by exactly the requests that warmed the caches up and by those
\* left out; and the scan's last block alone is flagged as the last.
THEOREM ScannedTheorem == TraceSpec => []ReplayedAsScanned
<1>1. ASSUME TraceInv PROVE ReplayedAsScanned
  <2>1. ScannedOK /\ HandedOK /\ ReadOK
    BY <1>1 DEF TraceInv
  <2>2. DOMAIN scanned = 1..Len(scanned) /\ DOMAIN handed = 1..Len(handed)
    BY <2>1, LenProperties DEF ScannedOK, HandedOK
  <2>3. pass # "scan" /\ scanner = "p" =>
          \A k \in DOMAIN scanned : scanned[k].flag = "last" <=> k = Len(scanned)
    BY <1>1, <2>2 DEF TraceInv
  <2>4. ASSUME ~errors, NEW k \in 1..Len(handed), k \in 1..Len(scanned), NEW r, r = trace.recs[k]
        PROVE  handed[k] = [rec |-> k, number |->
                 IF KindOf(r) \in enabled
                 THEN scanned[k].number + WarmedUp(r.vm) - LeftOut(k, r.vm) ELSE -1]
    <3>1. handed # << >>
      BY <2>4, EmptySeq
    <3>2. pass \in {"replay", "over"}
      BY <1>1, <2>1, <3>1 DEF TraceInv, ReadOK
    <3>3. handed[k].rec = k /\ handed[k].number = NumberOf(k)
      BY <1>1, <2>4, <3>2 DEF TraceInv, NoneLeftOut
    <3>4. scanned[k].number = Earlier(k, r.vm)
      BY <2>1, <2>4 DEF ScannedOK
    <3>5. k \in Nat \ {0}
      BY <1>1, <2>4, Lengths
    <3>6. WarmedUp(r.vm) \in Nat
      BY <2>1, WarmedUpTyped DEF ReadOK
    <3>7. ReplayNumber(k, r.vm) = scanned[k].number + WarmedUp(r.vm) - LeftOut(k, r.vm)
      BY <3>4, <3>5, <3>6, CountSplit DEF ReplayNumber
    <3>8. handed[k] \in [rec : Nat, number : Int]
      BY <2>1, <2>4, ElementOfSeq DEF HandedOK
    <3>9. handed[k].number = IF KindOf(r) \in enabled
            THEN scanned[k].number + WarmedUp(r.vm) - LeftOut(k, r.vm) ELSE -1
      BY <2>4, <3>3, <3>7 DEF NumberOf
    <3> QED
      BY <3>3, <3>8, <3>9
  <2> QED
    BY <2>2, <2>3, <2>4 DEF ReplayedAsScanned
<1> QED
  BY <1>1, TraceInvariant, PTL
=============================================================================
