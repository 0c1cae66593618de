------------------------- MODULE StartupInvariants -------------------------
(***************************************************************************)
(* The inductive invariants from which the properties of Startup are       *)
(* proved: what the loop over argv has made of the groups it has read, and *)
(* what readConfig has made of the records it has read.                    *)
(***************************************************************************)
EXTENDS Startup

GroupCount == Len(input.groups)

\* How many arguments the first k groups have.
ArgsUpTo[k \in 0..GroupCount] ==
  IF k = 0 THEN 0 ELSE ArgsUpTo[k - 1] + Len(input.groups[k])

\* The values that the options can take.
CmdOK(c) ==
  /\ DOMAIN c = DOMAIN Defaults
  /\ c.wcType \in Range(WeightWords) /\ c.graphType \in Range(GraphWords)
  /\ c.mode \in {NoValue} \cup Range(ModeWords)
  /\ c.bounds \in {NoValue} \cup Bounds
  /\ c.sortedEdges \in BOOLEAN /\ c.noReverse \in BOOLEAN
  /\ c.populate \in SignedWords
  /\ c.threshold \in 0..(WordSpace - 1)

\* What is so whatever is given.
TypeInv ==
  /\ input \in Inputs
  /\ pc \in {"args", "open", "config", "writer", "range"} \cup Ends
  /\ i \in Nat \ {0}
  /\ pc = "args" => i <= Len(argv) + 1
  /\ pc # "args" => i <= Len(argv) + Len(lines) + 4
  /\ pc = "open" => i = 1
  /\ pc = "config" => i <= Len(lines) + 2
  /\ CmdOK(cmd)
  /\ inputFileNames \in Seq(STRING) /\ Range(inputFileNames) \subseteq Range(argv)
  /\ DOMAIN hwTagIds \subseteq Range(lines) \ {""}
  /\ pc # "passes" => range = NoRange
  /\ range.from \in SignedWords /\ range.to \in SignedWords

-----------------------------------------------------------------------------
(* The command line.                                                       *)

SettingIn(o, k) == {j \in Setting(o) : j <= k}
FilesIn(k)      == {j \in Files : j <= k}

IsLast(j, S) == j \in S /\ \A l \in S : l <= j

\* c and fs are what the first k groups say of the options and the files.
SaidBy(c, fs, k) ==
  /\ \A o \in DOMAIN Valued :
       \/ SettingIn(o, k) = {} /\ c[Valued[o]] = Defaults[Valued[o]]
       \/ \E j \in SettingIn(o, k) :
            IsLast(j, SettingIn(o, k)) /\ c[Valued[o]] = Says(input.groups[j])
  /\ \A o \in DOMAIN Flags : c[Flags[o]] = (SettingIn(o, k) # {})
  /\ Len(fs) = Cardinality(FilesIn(k))
  /\ \A j \in FilesIn(k) : fs[Cardinality(FilesIn(j))] = input.groups[j][1]

HasRead(k) == SaidBy(cmd, inputFileNames, k)

ArgsInv ==
  WellFormed =>
    /\ pc # "crashed"
    /\ pc = "args" => \E k \in 0..GroupCount : i = ArgsUpTo[k] + 1 /\ HasRead(k)
    /\ pc \notin {"args", "help", "rejected"} => HasRead(GroupCount)

-----------------------------------------------------------------------------
(* The configuration.                                                      *)

ValueOf(n) == lines[3 * n - 2]
TypeOf(n)  == NumberIn(lines[3 * n - 1])
SpeedOf(n) == NumberIn(lines[3 * n])

\* The maps are what the first k records say, the last one for each key.
RecordsRead(k) ==
  /\ DOMAIN hwTagIds = {ValueOf(n) : n \in 1..k}
  /\ \A v \in DOMAIN hwTagIds : \E n \in 1..k :
       /\ ValueOf(n) = v /\ hwTagIds[v] = TypeOf(n)
       /\ \A m \in (n + 1)..k : ValueOf(m) # v
  /\ \A v \in DOMAIN hwTagIds : hwTagIds[v] \in DOMAIN typeToWeight
  /\ \A t \in DOMAIN typeToWeight : \E n \in 1..k :
       /\ TypeOf(n) = t /\ typeToWeight[t] = SpeedOf(n)
       /\ \A m \in (n + 1)..k : TypeOf(m) # t

ConfigInv ==
  /\ pc \in {"args", "open"} => hwTagIds = NoEntries /\ typeToWeight = NoEntries
  /\ pc = "config" => \E k \in 0..RecordCount : i = 3 * k + 1 /\ RecordsRead(k)
  /\ pc \in {"writer", "range", "passes"} =>
       RecordsRead(RecordCount) /\ (Len(lines) - 3 * RecordCount = 2 => input.cut)

StartupInv == TypeInv /\ ArgsInv /\ ConfigInv /\ RangeHoldsReferences

=============================================================================
