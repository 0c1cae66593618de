------------------------------ MODULE Startup ------------------------------
(***************************************************************************)
(* The first part of main() of creator/main.cpp: the command line, the     *)
(* configuration, the choice of a writer and the range of the direct map.  *)
(*                                                                         *)
(*   args    a loop over argv.  An option that takes a value looks one     *)
(*           argument ahead and steps over it; an option with a value that *)
(*           is missing is not recognized, and goes on as a file name if   *)
(*           it has two characters, as an unknown command if it has more.  *)
(*   open    the input files are opened, then readConfig reads records of  *)
(*           three lines each until the end of the file.                   *)
(*   writer  the output file is opened, unless every component is to get   *)
(*           a file of its own, later.                                     *)
(*   range   with -hs, the ids of all references decide how large the      *)
(*           direct part of the map is, or whether there is one.           *)
(*                                                                         *)
(* Arguments are strings; what the library makes of their characters is    *)
(* given by constants.  A definition like Skip_One is a faulty variant of  *)
(* the one that follows it, used only to show that a property can fail.    *)
(***************************************************************************)
EXTENDS Integers, Sequences, SequencesExt, Functions, FiniteSets, FiniteSetsExt

CONSTANTS
  Inputs,     \* [groups, lines, cut, refs]: the command line in groups, the lines of
              \* the configuration, whether its last line lacks a newline, and
              \* the node references of the accepted ways
  Numbers,    \* function: the arguments and lines that begin with a number -> the number
  TooBig,     \* the ones whose number does not fit into its type
  Bounds,     \* the arguments that are valid bounds
  Unreadable, \* the files that cannot be opened
  Unknown,    \* arguments of more than two characters that begin with - and are no option
  WordSpace   \* 2^64

\* What the options -t, -g and -cc may be followed by.
WeightWords ==
  [none |-> "WC_NONE", distance |-> "WC_DISTANCE", time |-> "WC_TIME", maxspeed |-> "WC_MAXSPEED"]
GraphWords ==
  [topotext |-> "GT_TOPO_TEXT", topobinary |-> "GT_TOPO_BINARY",
   fmitext |-> "GT_FMI_TEXT", fmibinary |-> "GT_FMI_BINARY",
   fmimaxspeedtext |-> "GT_FMI_MAXSPEED_TEXT", fmimaxspeedbinary |-> "GT_FMI_MAXSPEED_BINARY",
   sserializeoffsetarray |-> "GT_SSERIALIZE_OFFSET_ARRAY",
   sserializelargeoffsetarray |-> "GT_SSERIALIZE_LARGE_OFFSET_ARRAY",
   plot |-> "GT_PLOT", drop |-> "GT_NONE", none |-> "GT_NONE"]
ModeWords == [topk |-> "TopK", size |-> "MinSize", all |-> "All"]

\* Option -> the field of cmd it sets, for the options that take a value.
Valued ==
  [o \in {"-t", "-g", "-c", "-o", "-hs", "-dm", "-tm", "-b", "-cc"} |->
     CASE o = "-t"  -> "wcType"   [] o = "-g"  -> "graphType"    [] o = "-c"  -> "config"
       [] o = "-o"  -> "outFile"  [] o = "-hs" -> "populate"     [] o = "-dm" -> "distanceMult"
       [] o = "-tm" -> "timeMult" [] o = "-b"  -> "bounds"       [] o = "-cc" -> "mode"]
Flags ==
  [o \in {"-s", "--no-reverse-edge"} |-> IF o = "-s" THEN "sortedEdges" ELSE "noReverse"]

\* Longer than two characters, and they begin with -.
Dashed == Unknown \cup {"-hs", "-dm", "-tm", "-cc"}

\* What a signed word can hold: so can every id and every number.
SignedWords == (-(WordSpace \div 2))..(WordSpace \div 2 - 1)

ASSUME StartupAssumption ==
  /\ Inputs \subseteq [groups : Seq(Seq(STRING)), lines : Seq(STRING), cut : BOOLEAN,
                       refs : Seq(SignedWords)]
  /\ \A s \in DOMAIN Numbers : Numbers[s] \in SignedWords
  /\ DOMAIN Numbers \cap TooBig = {}
  /\ Unknown \cap (DOMAIN Valued \cup DOMAIN Flags \cup {"-h", "--help"}) = {}
  /\ WordSpace \in Nat \ {0, 1}

NoValue == ""

VARIABLES
  input,           \* the input; fixed
  pc,              \* the part main is in, or how it ended
  i,               \* the argument or the line that is next
  cmd,             \* State::CommandLineOptions and the names of the output and the configuration
  inputFileNames,
  hwTagIds, typeToWeight, implicitOneWay,  \* State::Configuration; a weight is given by its speed
  range            \* the direct part of the map: [from, to], or empty

config == <<hwTagIds, typeToWeight, implicitOneWay>>
vars   == <<input, pc, i, cmd, inputFileNames, config, range>>

argv  == FlattenSeq(input.groups)
lines == input.lines

Defaults ==
  [wcType |-> "WC_DISTANCE", graphType |-> "GT_NONE", config |-> NoValue, outFile |-> NoValue,
   populate |-> -1, distanceMult |-> 1, timeMult |-> 100, bounds |-> NoValue, mode |-> NoValue,
   threshold |-> 0, sortedEdges |-> FALSE, noReverse |-> FALSE]

NoEntries == [v \in {} |-> 0]
NoRange   == [from |-> 0, to |-> 0]

Init ==
  /\ input \in Inputs
  /\ pc = "args" /\ i = 1
  /\ cmd = Defaults /\ inputFileNames = << >>
  /\ hwTagIds = NoEntries /\ typeToWeight = NoEntries /\ implicitOneWay = {}
  /\ range = NoRange

End(how) == pc' = how /\ UNCHANGED <<i, cmd, inputFileNames>>

-----------------------------------------------------------------------------
(* args.                                                                   *)

arg   == argv[i]
HasNext == i + 1 <= Len(argv)
value == argv[i + 1]
atof(s) == IF s \in DOMAIN Numbers THEN Numbers[s] ELSE 0

\* A signed number in an unsigned word.
Unsigned_Kept(x) == x
Unsigned(x) == x % WordSpace

InArgs == /\ pc = "args" /\ Len(argv) >= 3 /\ i <= Len(argv)
          /\ UNCHANGED <<input, config, range>>

\* argc counts the name of the program.
TooFew ==
  /\ pc = "args" /\ Len(argv) < 3
  /\ End("help")
  /\ UNCHANGED <<input, config, range>>

Help == InArgs /\ arg \in {"-h", "--help"} /\ End("help")

Skip_One == 1
Skip == 2

SetTo(field, x) ==
  /\ cmd' = [cmd EXCEPT ![field] = x]
  /\ i' = i + Skip
  /\ UNCHANGED <<pc, inputFileNames>>

Choice(option) == CASE option = "-t" -> WeightWords [] option = "-g" -> GraphWords

ChoiceOption ==
  /\ InArgs /\ arg \in {"-t", "-g"} /\ HasNext
  /\ IF value \in DOMAIN Choice(arg) THEN SetTo(Valued[arg], Choice(arg)[value])
     ELSE End("rejected")

NameOption == InArgs /\ arg \in {"-c", "-o"} /\ HasNext /\ SetTo(Valued[arg], value)

FactorOption == InArgs /\ arg \in {"-dm", "-tm"} /\ HasNext /\ SetTo(Valued[arg], atof(value))

\* std::stol throws out_of_range, which nobody catches, and invalid_argument,
\* which is: then the option is stepped over.
PopulateOption ==
  /\ InArgs /\ arg = "-hs" /\ HasNext
  /\ IF value \in TooBig THEN End("crashed")
     ELSE SetTo("populate", IF value = "auto" THEN 0
                            ELSE IF value \in DOMAIN Numbers THEN Numbers[value]
                            ELSE cmd.populate)

BoundsOption ==
  /\ InArgs /\ arg = "-b" /\ HasNext
  /\ IF value \in Bounds THEN SetTo("bounds", value) ELSE End("rejected")

\* A mode that takes a threshold takes the argument behind it, whether or not
\* there is one: the check at main.cpp:135 compares with i+1, which is at most
\* argc.  stoi does not get past a null pointer or a word.
ThresholdAt(k) == k <= Len(argv) /\ argv[k] \in DOMAIN Numbers

\* The one that is there already is kept.
ComponentsOption_KeepsThreshold ==
  /\ InArgs /\ arg = "-cc" /\ HasNext
  /\ IF value \notin DOMAIN ModeWords THEN End("rejected")
     ELSE IF value = "all" \/ ~ThresholdAt(i + 2) THEN SetTo("mode", ModeWords[value])
     ELSE /\ cmd' = [cmd EXCEPT !.mode = ModeWords[value],
                                !.threshold = Unsigned(Numbers[argv[i + 2]])]
          /\ i' = i + 3
          /\ UNCHANGED <<pc, inputFileNames>>
ComponentsOption ==
  /\ InArgs /\ arg = "-cc" /\ HasNext
  /\ IF value \notin DOMAIN ModeWords THEN End("rejected")
     ELSE IF value = "all" THEN SetTo("mode", "All")
     ELSE IF ~ThresholdAt(i + 2) THEN End("crashed")
     ELSE /\ cmd' = [cmd EXCEPT !.mode = ModeWords[value],
                                !.threshold = Unsigned(Numbers[argv[i + 2]])]
          /\ i' = i + 3
          /\ UNCHANGED <<pc, inputFileNames>>

Flag ==
  /\ InArgs /\ arg \in DOMAIN Flags
  /\ cmd' = [cmd EXCEPT ![Flags[arg]] = TRUE]
  /\ i' = i + 1
  /\ UNCHANGED <<pc, inputFileNames>>

NoOption == arg \notin DOMAIN Flags \cup {"-h", "--help"} /\ ~(arg \in DOMAIN Valued /\ HasNext)

UnknownCommand == InArgs /\ NoOption /\ arg \in Dashed /\ End("rejected")

InputFile ==
  /\ InArgs /\ NoOption /\ arg \notin Dashed
  /\ inputFileNames' = Append(inputFileNames, arg)
  /\ i' = i + 1
  /\ UNCHANGED <<pc, cmd>>

EndArgs ==
  /\ pc = "args" /\ Len(argv) >= 3 /\ i > Len(argv)
  /\ pc' = "open" /\ i' = 1
  /\ UNCHANGED <<input, cmd, inputFileNames, config, range>>

Arguments ==
  \/ TooFew \/ Help \/ ChoiceOption \/ NameOption \/ FactorOption \/ PopulateOption
  \/ BoundsOption \/ ComponentsOption \/ Flag \/ UnknownCommand \/ InputFile \/ EndArgs

-----------------------------------------------------------------------------
(* open and config.                                                        *)

\* Whether PbiStream accepts an empty list of files is up to the library.
OpenFiles ==
  /\ pc = "open"
  /\ LET fails == \/ Range(inputFileNames) \cap Unreadable # {}
                  \/ cmd.config \in Unreadable \cup {NoValue}
     IN pc' \in IF fails THEN {"rejected"}
                ELSE IF inputFileNames = << >> THEN {"rejected", "config"} ELSE {"config"}
  /\ UNCHANGED <<input, i, cmd, inputFileNames, config, range>>

\* std::getline has met the end of the file, not a newline, behind line k.
Eof(k) == k > Len(lines) \/ (k = Len(lines) /\ input.cut)
LineAt(k) == IF k <= Len(lines) THEN lines[k] ELSE ""

\* The line that is read last is not looked for the end of the file.
Incomplete_AnyLine == \E k \in i..(i + 2) : Eof(k)
Incomplete == Eof(i) \/ Eof(i + 1)

\* map[x] = y
Assigned(map, x, y) == [k \in DOMAIN map \cup {x} |-> IF k = x THEN y ELSE map[k]]

ReadRecord ==
  /\ pc = "config" /\ ~Incomplete
  /\ LET id == atof(LineAt(i + 1))
     IN IF "" \in {LineAt(i), LineAt(i + 1), LineAt(i + 2)}
          THEN pc' = "rejected" /\ UNCHANGED <<i, hwTagIds, typeToWeight>>
          ELSE /\ hwTagIds' = Assigned(hwTagIds, LineAt(i), id)
               /\ typeToWeight' = Assigned(typeToWeight, id, atof(LineAt(i + 2)))
               /\ i' = i + 3
               /\ UNCHANGED pc
  /\ UNCHANGED <<input, cmd, inputFileNames, implicitOneWay, range>>

EndConfig ==
  /\ pc = "config" /\ Incomplete
  /\ pc' = "writer"
  /\ implicitOneWay' = {hwTagIds[v] : v \in {"motorway", "motorway_link"} \cap DOMAIN hwTagIds}
  /\ UNCHANGED <<input, i, cmd, inputFileNames, hwTagIds, typeToWeight, range>>

-----------------------------------------------------------------------------
(* writer and range.                                                       *)

\* CCGraphWriter opens its files when it knows the components.
OpenWriter ==
  /\ pc = "writer"
  /\ pc' = IF cmd.mode = NoValue /\ cmd.outFile \in Unreadable \cup {NoValue} THEN "rejected"
           ELSE "range"
  /\ UNCHANGED <<input, i, cmd, inputFileNames, config, range>>

largest  == Max(Range(input.refs) \cup {0})
smallest == Min(Range(input.refs) \cup {largest})

\* std::min<uint64_t> of two signed numbers: a negative sum is no limit.
LimitedTo_Absolute(n) == Min({n, largest})
LimitedTo(n) == Min({Unsigned(smallest + n), largest})

EndStartup ==
  /\ pc = "range"
  /\ LET to == IF cmd.populate > 0 THEN LimitedTo(cmd.populate) ELSE largest
     IN range' = IF cmd.populate >= 0 /\ to - smallest < 3 * Len(input.refs)
                   THEN [from |-> smallest, to |-> to] ELSE NoRange
  /\ pc' = "passes"
  /\ UNCHANGED <<input, i, cmd, inputFileNames, config>>

\* main has returned, has been ended by an exception, or goes on with the
\* passes of GraphCreator: the only states it may stay in.
Ends == {"help", "rejected", "crashed", "passes"}
Ended == pc \in Ends /\ UNCHANGED vars

Next == \/ Arguments \/ OpenFiles \/ ReadRecord \/ EndConfig \/ OpenWriter \/ EndStartup
        \/ Ended

Spec == Init /\ [][Next]_vars

-----------------------------------------------------------------------------
(* Properties.                                                             *)

\* The state has the types the code declares.
TypeOK ==
  /\ pc \in {"args", "open", "config", "writer", "range"} \cup Ends
  /\ i \in 1..(Len(argv) + Len(lines) + 4)
  /\ cmd.wcType \in Range(WeightWords) /\ cmd.graphType \in Range(GraphWords)
  /\ cmd.mode \in {NoValue} \cup Range(ModeWords)
  /\ cmd.bounds \in {NoValue} \cup Bounds
  /\ {cmd.sortedEdges, cmd.noReverse} \subseteq BOOLEAN
  /\ cmd.threshold \in 0..(WordSpace - 1)
  /\ Range(inputFileNames) \subseteq Range(argv)
  /\ DOMAIN hwTagIds \subseteq Range(lines) \ {""}
  /\ {range.from, range.to} \subseteq SignedWords

\* What somebody who writes groups means by them.
IsFile(g)   == Len(g) = 1 /\ g[1] \notin Dashed \cup DOMAIN Flags \cup {"-h", "--help"} \cup DOMAIN Valued
IsFlag(g)   == Len(g) = 1 /\ g[1] \in DOMAIN Flags
IsOption(g) ==
  \/ Len(g) = 2 /\ g[1] \in DOMAIN Valued \ {"-cc"} /\ (g[1] = "-hs" => g[2] \notin TooBig)
  \/ g = <<"-cc", "all">>
  \/ Len(g) = 3 /\ g[1] = "-cc" /\ g[2] \in {"topk", "size"} /\ g[3] \in DOMAIN Numbers
WellFormed == \A g \in Range(input.groups) : IsFile(g) \/ IsFlag(g) \/ IsOption(g)

NumberIn(s) == IF s \in DOMAIN Numbers THEN Numbers[s] ELSE 0

Says(g) ==
  CASE g[1] = "-t"  -> WeightWords[g[2]]
    [] g[1] = "-g"  -> GraphWords[g[2]]
    [] g[1] = "-cc" -> ModeWords[g[2]]
    [] g[1] = "-hs" -> IF g[2] = "auto" THEN 0 ELSE Numbers[g[2]]
    [] g[1] \in {"-dm", "-tm"} -> NumberIn(g[2])
    [] OTHER        -> g[2]

\* The groups that set option; an -hs without a number is ignored.
Setting(option) == {k \in DOMAIN input.groups :
                      /\ input.groups[k][1] = option
                      /\ option = "-hs" => input.groups[k][2] \in DOMAIN Numbers \cup {"auto"}}

\* The groups that name a file.
Files == {k \in DOMAIN input.groups : IsFile(input.groups[k])}

\* The loop never takes a value for an option or an option for a value, whatever
\* follows what and even if a value looks like an option: of a command line that
\* is put together from options with their values, flags and files, the last
\* value of each option holds, the files are the input in their order, and none
\* of it ends the program by an exception (main.cpp:87-234).
OptionsMeanWhatTheySay ==
  WellFormed =>
    /\ pc # "crashed"
    /\ pc \notin {"args", "help", "rejected"} =>
         /\ \A o \in DOMAIN Valued :
              cmd[Valued[o]] = IF Setting(o) = {} THEN Defaults[Valued[o]]
                               ELSE Says(input.groups[Max(Setting(o))])
         /\ \A o \in DOMAIN Flags : cmd[Flags[o]] <=> Setting(o) # {}
         /\ Len(inputFileNames) = Cardinality(Files)
         /\ \A k \in Files : inputFileNames[Cardinality({j \in Files : j <= k})] = input.groups[k][1]

\* However malformed a command line is, a filter that needs a threshold has the one
\* that was given with it, never one of another filter and never one that nobody
\* gave: the missing check of main.cpp:135 costs the message, not the result
\* (main.cpp:119-141).
ThresholdIsTheFilters ==
  cmd.mode \in {"TopK", "MinSize"} =>
    \E k \in 1..(Len(argv) - 2) :
      /\ argv[k] = "-cc"
      /\ argv[k + 1] \in DOMAIN ModeWords /\ ModeWords[argv[k + 1]] = cmd.mode
      /\ argv[k + 2] \in DOMAIN Numbers /\ cmd.threshold = Unsigned(Numbers[argv[k + 2]])

RecordCount == Len(lines) \div 3
LastRecord(k, x) == Max({n \in 1..RecordCount : lines[3 * n - 3 + k] = x})

\* If the configuration is accepted, it is what the complete records of the file
\* say, the last one with a newline or without, and the last one for a value or
\* a type counts; every type that a way may get has a speed, so that
\* maxSpeedFromType finds it.  At most the name and the type of one more record
\* are dropped without a message (main.cpp:24-30).
ConfigIsTheFilesRecords ==
  pc \in {"writer", "range", "passes"} =>
    /\ DOMAIN hwTagIds = {lines[3 * n - 2] : n \in 1..RecordCount}
    /\ \A v \in DOMAIN hwTagIds : hwTagIds[v] = NumberIn(lines[3 * LastRecord(1, v) - 1])
    /\ \A v \in DOMAIN hwTagIds :
         \E n \in 1..RecordCount :
           /\ NumberIn(lines[3 * n - 1]) = hwTagIds[v]
           /\ \A m \in (n + 1)..RecordCount : NumberIn(lines[3 * m - 1]) # hwTagIds[v]
           /\ typeToWeight[hwTagIds[v]] = NumberIn(lines[3 * n])
    /\ Len(lines) - 3 * RecordCount = 2 => input.cut

\* The direct part of the map begins at the smallest id that is referred to.  It
\* holds all of them if -hs is auto.  Otherwise it leaves out none that is less
\* than NUM away from the smallest, and is no longer than NUM if ids are not
\* negative.  There are fewer than three times as many ids in it as references
\* (main.cpp:345-362).
RangeHoldsReferences ==
  (pc = "passes" /\ range # NoRange) =>
    /\ cmd.populate >= 0
    /\ range.from = Min(Range(input.refs))
    /\ range.to - range.from < 3 * Len(input.refs)
    /\ \A x \in Range(input.refs) :
         (cmd.populate = 0 \/ x < range.from + cmd.populate) => x \in range.from..range.to
    /\ (cmd.populate > 0 /\ range.from >= 0) => range.to <= range.from + cmd.populate

=============================================================================
