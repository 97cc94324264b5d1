------------------------------ MODULE MCProgram ------------------------------
(***************************************************************************)
(* The program from its command line to its exit, and what it reads in     *)
(* between: traces of events and files of bunches.  A behaviour is that of *)
(* one of the three parts.                                                 *)
(***************************************************************************)
EXTENDS Startup, TraceInput, Bunching

VARIABLE part

programVars == <<part, startVars, traceVars, bunchVars>>

-----------------------------------------------------------------------------
\* Command lines that differ in what decides what is created, read, released.
Opt(letter) == [opt |-> letter, n |-> 0, words |-> {}]
Num(letter, n) == [Opt(letter) EXCEPT !.n = n]
Name(letter, words) == [Opt(letter) EXCEPT !.words = words]

Always == << Opt("c"), Opt("e") >>
Modes == { << >>, << Opt("P") >>, << Opt("R") >>, << Opt("T") >>,
           << Opt("T"), Opt("Q") >>, << Opt("Q"), Opt("T") >>, << Opt("P"), Opt("R") >> }
Mappings == { << >>, << Opt("r") >>, << Opt("S") >>, << Opt("s") >>, << Opt("i") >>,
              << Opt("r"), Opt("s") >> }
Formats == { << Opt("b"), Opt("C") >>, << Opt("A") >>, << Opt("C") >> }
Events == << Name("f", {"consistent", "pioevents"}) >>
Inputs == { << >>, Events, << Name("f", {"consistent", "vmbunch"}) >>,
            << Name("f", {"pioevents"}) >> }
Devices == { << >>, << Name("D", {}) >>, << Name("D", {"pioevents"}) >> }
Sizes == { << Num("O", 5) >>, << Num("O", 3), Num("o", 3) >>, << Num("O", 8) >>,
           << Num("O", 3), Num("o", 2) >>, << Num("O", 0) >>,
           << Num("O", 9), Num("o", 8) >> }
Warm == { << >>, << Name("W", {"pioevents"}) >>, << Name("W", {}) >> }

MCCommandLines ==
  { Always \o m \o p \o f \o i \o d :
      m \in Modes, p \in Mappings, f \in Formats, i \in Inputs, d \in Devices }
  \cup
  { Always \o m \o p \o << Opt("b"), Opt("C") >> \o Events \o s \o w :
      m \in { << >>, << Opt("P") >>, << Opt("T") >> }, p \in { << >>, << Opt("r") >> },
      s \in Sizes, w \in Warm }
  \cup
  { Always \o << Opt("T"), Opt("s"), Opt("A"), Opt("C") >> \o Events
           \o << Name("D", {"pioevents"}) >> \o w : w \in Warm }
  \cup
  { << o >> : o \in {Opt("h"), Opt("w"), Num("I", 0), Num("F", 2), Opt("E")} }

-----------------------------------------------------------------------------
\* Traces of up to three requests of two machines, whole or cut in the last
\* record or behind it, and traces with records a pass refuses.
Rec(event, vm) ==
  [event |-> event, vm |-> vm, whole |-> TRUE, contentflag |-> 0, bytes |-> 1, time |-> 1]
Preprocessed == [Rec("OFNW", "a") EXCEPT !.whole = FALSE, !.contentflag = 1]
Requests == {Rec("CFR", "a"), Rec("CFNW", "b"), Preprocessed}
Others == {Rec("OFR", "a"), Rec("DFR", "a"), Rec("SZ", "a"), Rec("none", "a"),
           [Rec("CFNW", "a") EXCEPT !.contentflag = -1],
           [Preprocessed EXCEPT !.contentflag = 0], [Preprocessed EXCEPT !.bytes = 0],
           [Rec("CFR", "b") EXCEPT !.time = 2], [Rec("OFDW", "a") EXCEPT !.contentflag = 1],
           [Rec("SFN", "a") EXCEPT !.contentflag = 1]}

File(recs, trailer, missing) ==
  LET f == [recs |-> recs, trailer |-> trailer, size |-> 0] IN
  [f EXCEPT !.size = TrailerOf(f) + (IF trailer THEN TrailerCells ELSE 0) - missing]
UpTo(S, n) == UNION { [1..m -> S] : m \in 0..n }
NoFile == File(<< >>, FALSE, 0)

MCTraces ==
  { File(recs, FALSE, missing) : recs \in UpTo(Requests, 3) \ {<< >>}, missing \in 0..4 }
  \cup { File(recs, TRUE, 0) : recs \in UpTo(Requests, 2) }
  \cup { File(<<r>> \o recs, FALSE, 0) : r \in Others, recs \in UpTo(Requests, 1) }
  \cup { File(recs \o <<r>>, FALSE, 0) : r \in Others, recs \in UpTo(Requests, 2) }
MCWarmups == {NoFile, File(<<Rec("CFR", "a"), Rec("CFNW", "b")>>, FALSE, 0)}

\* Four packets, close to each other or not, one trace with times out of order.
MCTimes == { t \in UNION {[1..n -> 1..6] : n \in 0..4} : 
               \A i \in 2..Len(t) : t[i - 1] <= t[i] \/ i = 4 }

-----------------------------------------------------------------------------
InStartup(A) == part = "startup" /\ A /\ UNCHANGED <<part, traceVars, bunchVars>>
InTrace(A) == part = "trace" /\ A /\ UNCHANGED <<part, startVars, bunchVars>>
InBunches(A) == part = "bunches" /\ A /\ UNCHANGED <<part, startVars, traceVars>>

\* What the other parts would do is of no account.
NoStartup == args = << Opt("h") >>
NoTrace ==
  trace = File(<< >>, TRUE, 0) /\ warm = NoFile /\ enabled = {"read"} /\ scanner = "p"
NoBunching == times = << >>

ProgramInit ==
  /\ \/ part = "startup" /\ NoTrace /\ NoBunching
     \/ part = "trace" /\ NoStartup /\ NoBunching
     \/ part = "bunches" /\ NoStartup /\ NoTrace
  /\ StartupInit /\ TraceInit /\ StreamOpen

ProgramNext ==
  InStartup(StartupNext) \/ InTrace(TraceNext) \/ InBunches(BunchingNext)

ProgramSpec == ProgramInit /\ [][ProgramNext]_programVars
=============================================================================
