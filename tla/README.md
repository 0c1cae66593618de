# A formal model of the OSM graph creator

This directory holds TLA+ models of OsmGraphCreator: the program `creator`, which
turns OpenStreetMap extracts into road graphs, and the readers for the files it
writes. TLC checks the models on small instances; the TLA+ proof system proves
theorems about the command line, the passes, the parser of ways, all writers of graphs
and the readers for every instance. Paths like `main.cpp:378` are
relative to `creator/` or `readers/`.

    tlc -config creator.cfg MCGraphCreator.tla
    tlapm GraphCreatorProofs.tla

## The system

`creator` is one sequential program. It reads its input, a list of PBF files that
`osmpbf::PbiStream` presents as one stream of blocks, up to eight times, and passes
what it has learned from one pass to the next in one shared `State`. What is hard is
therefore not concurrency but *protocol*: counters of one pass are announced in the
header and must fit what later passes write; one hash map serves two purposes one
after the other; ids are positions in vectors of which some are dropped; string ids
mean something only within one block; two cursors must run in step.

| Part | State | Operations | Interacts with |
|---|---|---|---|
| passes (`main.cpp`, `Processors.h`) | `osmIdToMyNodeId`, `invalidWays`, `nodes`, `nodeCoordinates`, `edgeCount` | one processor or scan per pass | `WayParser` calls the processor; the last passes call a `GraphWriter` |
| `WayParser` | string ids of the block, tags of the way | `parse` | calls `processor(ows, hwType, storedKv, way)` |
| `CCGraphWriter` | the whole graph, disjoint sets, two cursors | `writeHeader/Node/Edge`, `endGraph` | is a `GraphWriter`, creates one per component |
| `RamGraphWriter`, `StaticGraphWriter` | node and edge arrays, free slots | `writeHeader/Node/Edge` | rely on the degrees a pass has counted |
| `SortedEdgeWriter` | the edges | `writeEdge`, `endEdges` | sits between the passes and a writer |
| `DropGraphWriter`, topology writers, `PlotGraph` | counters, none, coordinates | as a `GraphWriter` | the output stream |
| FMI writers | the output stream | `writeHeader/Node/Edge` | the file |
| FMI readers | position, stream state, local variables | `read` | the file; callbacks `header/node/edge` |
| `readConfig`, command line, output factory | `State::cfg`, `State::cmd` | once, at the start | the passes |
| direct hash map, `MinMaxNodeIdProcessor` | a range of ids | one optional pass | chooses how the map is stored |
| weights, `MaxSpeedParser` | none | `calc`, `parseMaxSpeed` | the last pass |

What makes each part correct:

* **passes**: the header announces exactly what follows; an edge names the positions
  of its ends; the graph consists of the ways all of whose nodes are usable and the
  nodes of these ways, each once; the program ends, and gives up only without ids.
* **WayParser**: a processor is called for exactly the accepted ways with what their
  tags mean, wherever the strings stand in the table of the block.
* **CCGraphWriter**: each file is one whole component, renumbered, sorted; the filter
  keeps the right ones.
* **startup**: an option is never taken for a value or a value for an option; the
  configuration is what the records of its file say; the direct part of the map holds
  the ids it should.
* **speeds and weights**: an edge has the speed of its own way's tag or type; a weight
  is defined, and in the same unit whichever formula gives it.
* **writers**: each edge lies in the slots of its source, each slot is taken, no vector
  is accessed outside; a writer cannot tell whether a `SortedEdgeWriter` is in front.
* **files**: what is read is what was written; a truncated file costs at most the
  last record; no reader hangs.

The hard behaviours are listed with their lines under `hazards` in `PROJECT.json`.

## The modules

| Module | What it is |
|---|---|
| `OsmData` | the input: blocks, nodes, ways, tags, the configuration, and which ways of an extract are complete |
| `GraphCreator` | the passes; one action per processor call, scanned node, and step of `main` |
| `GraphExtraction` | the abstract specification: what the creator promises, without passes and ids |
| `GraphCreatorRefinement` | the refinement mapping from the first to the second |
| `GraphCreatorInvariants` | the inductive invariants |
| `GraphCreatorProofs` | theorems on selection, types and ids, on what is fetched, and on header, edges and degrees |
| `GraphCreatorRefinementProofs` | the theorem on the refinement |
| `Startup` | `main` up to the first pass: command line, configuration, output file, range of the map |
| `StartupInvariants` | its inductive invariants |
| `StartupProofs` | theorems on the options, thresholds, the configuration and the range |
| `WayParser` | the loop over blocks, ways and tags |
| `EdgeWeights` | extends `WayParser`: the speed of an edge and the travel times |
| `WayParserInvariants` | the inductive invariants of `WayParser` |
| `WayParserProofs` | theorems on both |
| `GraphWriters` | `main` and the writers that keep the graph as it is: `SortedEdgeWriter` in front of offset arrays, topology, plot and drop |
| `GraphWritersInvariants` | its inductive invariants |
| `GraphWritersProofs` | theorems on the protocol, the files and the offset array |
| `CCGraphWriter` | the writer that splits the graph into its connected components |
| `ConnectedComponents` | what a component is, without union-find |
| `ComponentFiles` | the abstract specification of `-cc` |
| `CCGraphWriterRefinement` | the refinement mapping from `CCGraphWriter` to it |
| `CCGraphWriterInvariants` | its inductive invariants |
| `CCGraphWriterProofs` | theorems on its components, cursors, files and filters |
| `CCGraphWriterRefinementProofs` | the theorem that it implements `ComponentFiles` |
| `FmiFiles` | the FMI writers, a file that may be cut, and the readers |
| `FmiFilesInvariants` | its inductive invariants |
| `FmiFilesProofs` | theorems on files, round trips and what a cut costs |
| `MC...` | instances for TLC |

The modules follow the program. `Startup` ends where `GraphCreator` begins: it gives
the options (`CommandLines` of `OsmData`) and the configuration (`HwTagIds`,
`implicitOneWay`), of which `ConfigIsTheFilesRecords` says what `GraphCreator` assumes,
that every type has a speed. `GraphCreator` reads ways whose tags have their meaning
(`Accepted`, `Ows`, `HwType` of `OsmData`), which `WayParser!CallsMatchTags` shows to be
what `parse` delivers; `EdgeWeights` is composed with `WayParser` and adds what the last
pass makes of the stored tag. The calls of `writeHeader`, `writeNode` and `writeEdge` in
this order are the input of the writers: `GraphWriters` takes graphs both with edges that
point to nodes and, because of `overlap_edges`, without; the degrees of its nodes are
those that `GraphCreator!DegreesMatchEdges` speaks of, with the width of the code.
`GraphWriters!ProtocolKept` shows that a writer behind a `SortedEdgeWriter` gets the same
calls, so that no other module needs to distinguish.

### GraphCreator

`pass` says where `main` is and `pos` how many items of the stream (or nodes, while
these are written) the pass has handled. Each pass over the input is a set of actions:
one that handles an item it is interested in (`CollectWay`, `DeleteAvailable`,
`InvalidateWay`, `RefsWay`, `FetchNode`, `DegreeWay`, `WriteWay`), `SkipItem` for the
others, and one that ends it (`EndCollect`, ...), with what `main` does before the next
one: the choice whether a pass is needed at all (`main.cpp:372`, `394`), and clearing
the map (`378`) or the nodes (`417`). A block of the input is an item, because
`gatherNodes` ends only between blocks (`Processors.h:79`).

The map `osmIdToMyNodeId` is a function on the marked ids. Until a node is fetched the
entry holds what `mark` of the library has left there, which the repository does not
determine: `NoId` is written for it, and where the code uses it as an index
(`DegreeWay`) any value may result. Node ids wrap at `IdSpace` (2^32 in the code),
degrees at `DegreeSpace` (2^16). A weight is represented by the coordinates and the
type it is computed from; the speed of an edge is left out.

### Startup

The loop over `argv` is one action per kind of option. `i` is what the code calls `i`,
counted from 1, and the look-ahead `i+1 < argc` is `HasNext`. Options are looked at in
the order of the code: a token of more than two characters that begins with `-` and is no
option, or has no value behind it, is an unknown command, anything else an input file,
which includes `-o` at the end of the line. Each way to end has a state: `help`,
`rejected` (a message and -1), `crashed` (an exception of `std::stoi` or `std::stol` that
nobody catches). `readConfig` is `ReadRecord`, with the end of the file as
`std::getline` sees it (`Eof`): it is met behind a line without a newline, and the code
does not look for it after the third line of a record. `EndStartup` is the pass of
`MinMaxNodeIdProcessor` and the arithmetic behind it; signed and unsigned sums differ by
`Unsigned`.

What the library makes of characters is given by constants: which strings begin with a
number (`Numbers`), which of these are too big for their type, which describe bounds.
Arguments are given in *groups*, the way a user thinks of them; the program sees only
their concatenation `argv`.

### WayParser and EdgeWeights

A block is a table of strings and the ways in it; a way refers to strings by their
position. One action per block, per tag (`OneWayTag`, `HighwayTag`, `OtherTag` are the
branches of the loop body) and per way. `keysToStore` keeps the ids of old blocks, as
in the code; that this is harmless for the processors there are (a stored value is
looked up by its key, not by its id) is a consequence of `CallsMatchTags`, not an
assumption.

`EdgeWeights` has no variables of its own. The value of a maxspeed tag is given by the
parts that the grammar of `MaxSpeedParser.rl` finds in it: number, unit, and whether
anything follows. `MaxSpeed` is what `FinalWayProcessor` makes of a call of the parser.
Speeds are in tenths and factors in millionths, so that rounding down to `int` is seen;
errors of floating-point numbers are not.

What an edge *should* get is stated without the parser, from its documents: the comment of
`MaxSpeedParser.rl:5` (a number, an optional unit and nothing behind it; that it wants two
characters for the number is left out) and README.md:50 (`IsSpeed`, `InKmh`, `SpeedFor`). The
program does not follow them everywhere. `ReadOtherwise` has the values it reads in another
way: numbers without a unit, text behind the unit (`SpeedsMatchDocuments`, which does not
hold), and the unit `kph`, of which no document says what it is worth. `SpeedsMatchTags` is
about all others.

### GraphWriters

`call` says which call `main` makes next. With `sorted`, edges go into `m_edges` and are
passed on, one `PassOn` each, within `endEdges`; `std::sort` leaves the order of
equivalent edges open. `BaseHeader`, `BaseNode` and `BaseEdge` are the calls the writer
gets. Both offset array classes are there: `Ram` finds the slot of an edge by its own
count, `Static` by a vector. An index behind the end of a vector leads to
`call = "undefined"`. Degrees are counted as `GraphCreator!DegreeWay` does. `heard` is a
history variable, for the properties, and for the counters of `DropGraphWriter`, which
are lengths of it. A node of the input has its position as id
(`GraphCreator!IdsNamePositions`, proved), so that the check of `DropGraphWriter` for it
is left out.

### CCGraphWriter

`Unite` chooses either representative, as union by rank or size may. `std::sort` is
any order that the comparison allows, so equal edges may come in any order. The two
cursors are `nodePos` and `edgePos`. An edge that names no node makes `at()` throw.
Opening a file may fail (`OpenComponent`). `SizeOrders` is `cch_by_size` after the sort and
the reversal; each of the three loops over it ends at the first component that it does
not take (`LoopEnds`). The sums `nn` and `ne` are written as numbers of pairs.

`ComponentFiles` says what is to come of it: components are sets that no edge leaves
(`ConnectedComponents`), a numbering of those that the filter keeps is chosen, and the
files of these numbers are opened and finished one at a time, in any order. The mapping
reads a finished file back: positions into nodes, edges into a bag of edges of the input.

### FmiFiles

A file is a sequence of tokens, written record by record. `Truncate` ends the writing
at any time and keeps any prefix, also with a shortened last number: a crash before
the stream was flushed, or a full disk, of which the creator takes no notice. Then a
reader runs. For text the module follows the state of a C++ stream: an extraction
fails and leaves the variable alone unless the stream is good, sets it to 0 where
there is no number, and sets end-of-file when a number ends the file. For binary files
bytes behind the end are 0 within the last page and cannot be read behind it
(`crashed`). Fields are the unit of a binary file: a cut inside of a field makes the
record reach behind the end just as a cut before it. Only a count is told apart: the
reader uses it wherever the file ends, and counts are written with their high bytes first,
so of a count that is cut within some high bytes may be left (`HighBytes`, with bytes of
`ByteSpace` values, 2 in the runs).

## What is checked

| Run | Instance | States | Result |
|---|---|---|---|
| `creator` | one extract: up to 3 nodes, each missing, present or out of bounds, up to 2 ways of 7 kinds, nodes before, behind or between the ways; and two extracts in three blocks, sharing nodes and ways; all options | 1.1 million | all properties hold |
| `overlap_edges` | the two extracts only | | **violated**, see below |
| `refinement` | one extract, one output type, 3 ids; up to 3 nodes, and some extracts with 4 | 268 thousand | `GraphCreator` implements `GraphExtraction`, with its fairness (`KeepsPromise`), and gives up only when ids run out, before it has written anything |
| `startup` | every command line of up to two of 29 groups, with and without the usual ones in front; configurations of up to two records with every kind of end; up to 3 references, some negative, with four values of `-hs` | 40 thousand | hold |
| `way_parser` | blocks with 4 different tables, up to 3 tags in any order, 8 kinds of maxspeed values | 71 thousand | hold |
| `maxspeed_values` | the same | | **violated** |
| `travel_time` | the same | | **violated** |
| `components` | all graphs of 3 nodes and up to 3 edges, some of 4 nodes, repeated and invalid edges; all filters | 243 thousand | hold; `CCGraphWriter` implements `ComponentFiles`, with its fairness (`KeepsPromise`) |
| `graph_writers` | 3 nodes and 4 edges in every order of sources; 2 nodes and up to 5 edges, some of them equal, with degrees that wrap; edges that point nowhere; no nodes; all writers but `Ram`, with and without `-s` | 43 thousand | hold |
| `ram_offset_array` | the same, for `Ram` | | **violated** |
| `fmi_files` | up to 2 nodes and 2 edges, with or without tags, four formats, cut anywhere | 99 thousand | hold |
| `fmi_tagged_text` | the same | | **violated** |

The properties, by the question they answer:

* *Does the file keep what its header says?* `HeaderMatchesOutput`,
  `DegreesMatchEdges`, `AllSlotsTaken`, `FileHasLayout`.
* *Do edges mean what they say?* `IdsNamePositions`, `EdgesResolve`,
  `FilesAreComponents`, `FilesAreSorted`, `EdgesLieAtTheirSource`, `SpeedsMatchTags`.
* *Is it the right graph?* `InvalidWaysLackNodes`, `NodesAreNeeded`, `KeepsPromise`
  (twice), `FilterKeepsTheRightOnes`, `CallsMatchTags`, `StoredTagsAreOfThisWay`.
* *Does a part get what the part before it has?* `ProtocolKept`,
  `OptionsMeanWhatTheySay`, `ThresholdIsTheFilters`, `ConfigIsTheFilesRecords`,
  `RangeHoldsReferences`, `CursorsAligned`.
* *Can what was written be read?* `RoundTrip`, `OnlyTheLastIsWrong`,
  `LosesAtMostOne`.
* *Does it end, and how?* `Termination`, `AbortsOnlyOnOverflow`, `NoAccessOutside`,
  `WeightsAreDefined`, `DropComplainsRightly`.

**Bounds.** Three nodes and two ways are enough for everything a pass can do to a way
or a node: a node that two ways share, that one way visits twice, that is missing for
one way and present for the other, that lies behind the ways that need it. Two blocks
are enough for one table to be read with what another has left behind. A component
writer needs two components whose nodes and edges interleave in the input, and a third
that is filtered. Two groups on a command line are enough for one to be mistaken for a
part of the other, in both orders; the usual ones in front of them let the program get
through to the passes. Widths are reduced (`IdSpace`, `DegreeSpace`, `TypeSpace`,
`MaxCount`, `WordSpace`, `ByteSpace`) so that the instances reach them: 3 ids, degree 5,
5 nodes, a word of 64, a byte of 2. In `creator` they are too large to be reached, so that the other properties
need no exception. A graph of 2 nodes and 2 edges has a first, a middle and a last
record.

**Fairness.** The programs are sequential: whenever the next step is possible it is
taken, `WF_vars(Next)`. Termination is about the loops: that each one ends, and that
the next pass begins. It is assumed that reading and writing do not block forever.
`CHECK_DEADLOCK FALSE` is set because all programs stop; `Termination` says that they
stop only where they should. `startup` checks for deadlock: its ends stutter (`Ended`),
so that the loop over the arguments can always go on.

### What does not hold

* `EdgesPointToNodes` (`overlap_edges`): when input files overlap, `gatherNodes`
  counts a shared node once for each file and stops as soon as it has counted as many
  as there are marked nodes; later nodes are never fetched. Edges to them are written
  with whatever the map holds. `NodesUnique` in `EdgesResolve`, `NodesAreNeeded`,
  `DegreesMatchEdges` and `AbortsOnlyOnOverflow` names the case in which all is well.
* `NoAccessOutside` (`ram_offset_array`): `RamGraphWriter` starts to count the edges of
  a node at its full degree, and writes behind its slots. `StaticGraphWriter`, the
  class for large graphs, has its own vector of free slots and is right.
* `SpeedsMatchDocuments` (`maxspeed_values`), for two reasons. `MaxSpeedParser.rl:33`
  requires the unit that the comment in line 5 makes optional: an edge with `maxspeed=50`
  gets the configured speed, which README.md:50 gives to edges without a tag only. And the
  comment ends the value behind the unit, where the machine neither fails nor applies the
  factor: `30 mph;` becomes 30 km/h.
* `SameSpeedSameTime` (`travel_time`): `WeightCalculator.cpp:39` has the factor 3600
  where configured speeds use 360 (`main.cpp:46`); `-t maxspeed` gives milliseconds,
  `-t time` centiseconds.
* `TaggedTextIsRead` (`fmi_tagged_text`): the text reader cannot read tags, and does
  not notice.

What the models also show, as exceptions that the properties had to state:

* A file that is cut within its last record, or before its counts, is read without an
  error (`LosesAtMostOne` says how much is lost at most).
* `-cc topk 0` writes the largest component and its ties (`ComponentFiles`), and TopK of
  an empty graph reads the front of an empty vector (`Unsplittable`).
* `kph` is taken for knots (`MaxSpeedParser.rl:20`).
* A number below 1 in the tag, or a configured speed below 1 km/h, may divide by zero
  (`WeightsAreDefined`).
* Up to two lines at the end of a configuration are dropped without a message; numbers
  in it are whatever `atoi` and `atof` make of them.
* With negative ids, which OSM does not use, the limit of `-hs NUM` may not apply
  (`RangeHoldsReferences`).

Further disagreements that no run is about: the check for a missing threshold at
`main.cpp:135` compares with the wrong bound and never applies, so `-cc topk` at the end of
the line ends in an exception (`crashed`) instead of the message of line 136; the option `-ccs` of the repository's README
does not exist; the comment at `GraphWriter.cpp:472` says "ascending" of a vector that
has just been reversed; the message at `GraphWriter.cpp:82` speaks of nodes where it means
edges, and swaps both numbers; the binary writers put unsigned numbers into signed ones;
`RamGraph::serialize` writes nothing for an empty graph, not even empty vectors.

## What is proved

`tlapm` proves, for all inputs, options and widths (P: theorem stating a property of a run):

| Component | Theorem | Statement |
|---|---|---|
| `GraphCreator` | `SelectionInvariant` | `Spec => []SelectionInv` |
| | `InvalidWaysAreIncomplete` | P `InvalidWaysLackNodes` |
| | `GraphInvariant` | `Spec => []GraphInv` |
| | `TypeCorrect`, `IdsArePositions` | P `TypeOK`, `IdsNamePositions` |
| | `FetchInvariant` | `Spec => []FetchInv` |
| | `NodesNeeded`, `AbortsOnOverflow` | P `NodesAreNeeded`, `AbortsOnlyOnOverflow` |
| | `EdgeCountInvariant`, `DegreeInvariant` | `Spec => []EdgeCountInv`, `Spec => []DegreeInv` |
| | `HeaderMatches`, `EdgesAreResolved`, `DegreesMatch` | P `HeaderMatchesOutput`, `EdgesResolve`, `DegreesMatchEdges` |
| | `LocationsInvariant` | `Spec => []LocationsInv` |
| | `CreatorImplementsExtraction` | `Spec /\ NodesUnique(stream) => StepsKeepPromise` |
| `GraphWriters` | `HeardInvariant`, `WritersHearProtocol` | `HeardInv`; P `ProtocolKept` |
| | `StreamInvariant`, `FilesHaveLayout`, `DropIsRight` | `StreamInv`; P `FileHasLayout`, `DropComplainsRightly` |
| | `OffsetsInvariant`, `SlotsInvariant` | `OffsetsInv`, `SlotsInv` |
| | `WritersTypeCorrect`, `StaysInside` | P `TypeOK`, `NoAccessOutside` |
| | `EdgesStayApart`, `EverySlotTaken` | P `EdgesLieAtTheirSource`, `AllSlotsTaken` |
| `CCGraphWriter` | `WriterIsPlaced` | `Spec => []WriterInv` |
| | `WriterTypeCorrect`, `CursorsPointIntoTheirComponent` | P `TypeOK`, `CursorsAligned` |
| | `FilesHoldComponents`, `FilesStaySorted` | P `FilesAreComponents`, `FilesAreSorted` |
| | `FilterIsRight` | P `FilterKeepsTheRightOnes` |
| | `WriterImplementsFiles` | `Spec => StepsKeepPromise` |
| `WayParser` | `ParserInvariant` | `Spec => []ParserInv` |
| | `ParserTypeCorrect`, `NothingIsHandedOn`, `CallsAreRight` | P `TypeOK`, `StoredTagsAreOfThisWay`, `CallsMatchTags` |
| `EdgeWeights` | `SpeedsAreRight`, `WeightsStayDefined` | P `SpeedsMatchTags`, `WeightsAreDefined` |
| `Startup` | `StartupTypeCorrect`, `OptionsAreTakenAsMeant` | P `TypeOK`, `OptionsMeanWhatTheySay` |
| | `ThresholdsAreGiven` | P `ThresholdIsTheFilters` |
| | `ConfigIsRight`, `RangeIsRight` | P `ConfigIsTheFilesRecords`, `RangeHoldsReferences` |
| `FmiFiles` | `FmiFilesHoldRecords` | `Spec => []FileInv` |
| | `FmiFilesTypeCorrect`, `FmiFilesRoundTrip` | P `TypeOK`, `RoundTrip` |
| | `FmiFilesOnlyTheLastIsWrong`, `FmiFilesLoseAtMostOne` | P `OnlyTheLastIsWrong`, `LosesAtMostOne` |

The assumptions are those of `OsmData`, `GraphCreator`, `GraphWriters`, `CCGraphWriter`,
`WayParser`, `EdgeWeights`, `Startup` and `FmiFiles`: finitely many
node ids, bounds within the locations, a configuration that maps highway values to
integers, extracts that begin with a block, graphs whose nodes are counted by a natural
number and whose edges are sequences of records, positive widths; that the strings of a
table are distinct and a way has a key once (`IsBlock`), that a configured type has a
speed other than 0 and a maxspeed tag a value that `Values` describes; that arguments and
lines are strings, references and numbers fit into a word, and an unknown argument is no
option; that a graph in an FMI file says for each record whether it has tags. TLC
evaluates them in every run.

### GraphCreator

None of its properties is inductive. `InvalidWaysLackNodes` speaks of the end of a pass,
so `SelectionInv` says what a pass has done *so far*: in each pass the set of marked
nodes, and the set of invalid ways, equals a set that is defined by the input and by
`pos` alone (`RefsUpTo`, `FoundUpTo`, `IncompleteUpTo`, `NeededUpTo`). A lemma for each
of these says what one more item adds (`RefsUpToStep`, ...), and `UpToEnds` what is left
at the end of a pass. The jump from `available` past `invalidate` needs a lemma of its
own: if no node is missing, no way is incomplete (`NothingMissing`).

`IdsNamePositions` needs that the map, the two vectors and what was written agree all
along (`IdsInv`, `WrittenInv`). `Records` stands for the vector of nodes after it has
been dropped: it is in the output by then. That no marked node has an id before `fetch`
follows from the clearing of the map only together with types, so types, selection and
ids form one invariant, `GraphInv`. It holds for overlapping extracts too: that edges may
miss their ends there is not because ids are wrong but because they are absent.

`FetchInv` says what `gatherNodes` has stored: the needed nodes up to `pos`, each once.
From this follows what its early end at a block is worth: as many nodes as there are
marks are all the marked ones (a subset of equal size is the set). This is the place that
needs `NodesUnique`, which `overlap_edges` shows to be necessary.

The header is written from a counter of the `refs` pass, the edges by a later one.
`EdgeCountInv` relates both to the set of *slots* of edges `<<i, n>>`, the n-th edge of
the way at position i, whose cardinality replaces a sum over the ways; the lemmas say that
one more way adds a set of slots disjoint from the others. `DegreeInv` does the same for
the slots that begin or end at one node: the degrees of a record are their number modulo
the width of the counter, and so many edges of the section name it.

*The refinement.* `GraphExtraction` is split into `SafeSpec` and its fairness.
`StepsKeepPromise` is the first, seen through the mapping, and so the part of `KeepsPromise`
that can be proved; no run checks it on its own. Each pass up to the header maps
to a stutter, the header to the choice of the abstract creator, and `WriteWay` to one step
of it if the two edges it appends, resolved by the node section into OSM ids and locations
(`LocationsInv`), are what the abstract creator adds to its bag.

### GraphWriters

What a writer has got is read off the history `heard`, so that one invariant serves with
and without a `SortedEdgeWriter`. `HeardInv` says that it is a prefix of the protocol, how
long it is in each state of `main`, that what has been passed on and what is kept back in
`m_edges` are disjoint, together all edges, and that nothing kept back belongs before what
was passed on. `StepKinds` then sums the eight actions up into the five things that can
happen to a writer; the data invariants are proved over these.

`StreamInv` gives each field of the file its place. `OffsetsInv` says that a node's slots
begin at the number of edges of lower sources (`Lower`), and that its next free slot is
behind as many as it has got; without wrapping degrees these are equalities, with them
bounds, which is enough for `NoAccessOutside`. `FillInv` adds that the slots before the
free one hold just what the node has got, `TargetsInv` that they are in order with `-s`.
That the slots of two nodes are apart follows from `Lower(v + 1)` being `Lower(v)` and the
edges of `v`.

`StaysInside`, `EdgesStayApart` and `EverySlotTaken` are for the writers other than
`RamGraphWriter` (`"Ram" \notin Writers`): for that one `ram_offset_array` shows the
opposite. The other theorems include it.

### CCGraphWriter

`WriterInv` has a part for each phase of `endGraph`. `UniteInv` says what union-find has
done without naming paths in the graph: the ends of an edge handled so far have one
representative, and a set of nodes that no such edge leaves holds with a node all nodes of
the same representative. When all edges are united this makes the sets the minimal separate
sets, which are the components (`SetsAreComponents`). `SortedInv` says that both vectors
list each item once, in their order, and that the counts are right.

The place of the cursors follows from one idea: both vectors are sorted by the
representative, so the items below a representative are a prefix of the vector, and the
length of the prefix is their number (`ListPrefix`). `Low[r]` has these numbers. The
component loop, which moves each cursor by the count of one component, thus goes from `Low[r]`
to `Low[q]` of the next representative `q` (`NextComponent`), and what stands between is the
`Block` of `r`, its nodes and edges (`NodeBlock`, `EdgeBlock`). `CursorInv` then says where in
its block a cursor is, and that the chosen components below it, and no others, have finished
files (`DoneBelow`). An edge is renumbered by the positions of its ends in the node block,
which rise with the nodes: the order of the edges is kept, and one edge stands for one edge.

`RightChoice` says what the loop over the sizes leaves. For ties of `TopK`, all components
beyond the k-th equal it, by induction over an interval. The library's induction theorems
cannot be used here; `IntervalInduction` derives induction over an interval from facts on
finite sets: the initial segment within a set is as long as its cardinality says.

*The refinement.* The abstract writer has the finished files as a set, the writer fills
one file entry by entry. `FilesAreFunctions` closes the gap: what is read back from a
finished file is `File` of its component, whatever its numbers and its order, so that a
step behind the choice is decided by which files are finished (`FilesFollowEnded`).
`SkipComponent`, `PutNode`, `EndNodes` and `PutEdge` are not seen, `OpenComponent` takes a
number that has no file (`AtNext`), `CloseComponent` ends the only open file, and `Finish`
finds a file for every number. Before the choice nothing is seen but an abort. There
`EarlyInv` says that the graph is not too large behind the check of `endGraph`, and
`CountsAddUp` that the check of the sums never fails, as it is a partition that is summed
up (`PartsAddUp`). `ChoiceIsAllowed` turns `RightChoice` into what the abstract writer may
choose; for this it has to say that `TopK` leaves a component out only if it keeps one,
which the theorem on the filter does not need.

### WayParser and EdgeWeights

The parser compares indices, its promise is about strings. `TablesInv` says what the
tables of the block at hand translate, nothing of the stale rest of `keysToStore`;
`TagHere` turns it into what each comparison of the loop means, which needs that the
strings of a table are distinct. `WayInv` then says what the tags read so far have been
taken for (`Understood`), unless the way has been given up, and `AllTagsRead` what this
comes to at the end of the way: it is processed if and only if it is accepted, and the
call fits.

The calls are a sequence, the accepted ways are spread over blocks of which some are
skipped. Instead of computing the sequence that the calls should be, which would be
induction over data, `CallsMatchTags` numbers the accepted ways: the call for the way at a
place `<<block, way>>` is the one behind as many as there are accepted places before it
(`AcceptedBefore`). One more way adds one place or none (`OneMoreWay`), a new block, or one
that is skipped for having no string `highway`, adds none (`BlockDone`, `SkippedBlock`).

### Startup

`TypeInv` is what holds for any arguments. `ArgsInv` is about command lines that are put
together from groups: the loop over `argv` knows nothing of groups, and the property says
that it gets back to them. So it says that `i` is always behind a whole number of groups
(`ArgsUpTo`), and that `cmd` and `inputFileNames` are what these groups say (`SaidBy`): an
option has the value of its last group so far, or its default, and a file stands where the
number of file groups before it puts it. `AtGroup` finds a group in the concatenation
`argv`; from this follow what the code sees of a group at `i` and behind it, and that each
branch of the loop goes to the end of its group. The branch that would take a value for an
option is then excluded by the position alone, whatever the value looks like.

`ConfigInv` says that the maps are what the first k records say, in terms of the last
record of each key (`RecordsRead`): a later record may replace the type of a value, or the
speed of a type that another value has, so the link from value to speed is split into one
for each map. `LastRecord` of the property then is the one that the invariant names. At the
end of the file the number of lines decides what has been dropped. `ThresholdIsTheFilters`
is inductive: only `ComponentsOption` touches mode or threshold, and it sets both or, for
`all`, a mode that has none. `RangeHoldsReferences`
is kept by every step but the last, which is arithmetic on the smallest and the largest
reference, with the sum of signed and unsigned numbers as the code has it.

### FmiFiles

The size of a file is a sum over its records, and what a reader finds at a position
depends on all records before it. `EndOf(r)` gives the sum a closed form: the fields are
counted by multiplication, the sizes of the tags are as many as there are records, and the
tags as many as there are records with tags (`Tagged`), a cardinality. `EndOfIs` says
what one more record adds. So a token is found by its record and its place in it, and no
induction over the file is needed.

`FileInv` says what can stand in a file: it is no longer than all records, and each of its
tokens is the one that the writers put at this place (`Untouched`), except for the last
token of a text file that was cut within one (`LastIsPartial`). Each append of a writer
keeps it, so does each way to cut.

`LoopInv` is about the readers. Its idea is `Whole`: nothing has been read from behind a
binary file, and the end of a text file has not been met. As long as this is so, the reader of record i stands at `EndOf(Before + i)`, the
counts are right, and all it has handed over is as it was written (`Handed`). A record
that is not all there ends `Whole`, and with it the loop: the record at hand is then the
last. What differs is how each reader gets there. For binary files, `pos`
grows by the length of the record also when the file is shorter, and `Fits` decides
whether the record is handed over; for text, an extraction that stops short sets
end-of-file, as it meets no tag it could stop at (`~ TextTags`). A last number that was cut
short also sets it, having nothing behind it, which is why `separated` matters, and why only
the last call may have a wrong field. A record whose last number ends the file, complete
or not, cannot be told from a cut one, and this is the record that `LosesAtMostOne` gives up.
The counts of the header may be cut as well, and then are numbers of whatever size
(`CountsAre`). A wrong number of nodes other than 0 is
always followed by the end of the file, and so by an error; 0 needs no record to be found,
and is the exception of the property.

What is proved without `~ TextTags` is that the values have their types (`ValuesInv`): with
tags, a reader takes what it finds for the fields of other records, but always for some.

### Only model-checked

* `Termination` of every module, and the fairness of both `KeepsPromise`: liveness is
  beyond this prover. What is proved of both is `StepsKeepPromise`.
* The runs that are expected to be violated: their counterexamples are the result.

TLC has checked each inductive invariant on the instances of its run before it was proved.

## What is not modelled, and why

* Values: coordinates, weights and tags are names; travel times are integers. Rounding
  of floating-point numbers is outside of what TLC and TLAPS can treat, and so is the
  geodesic distance, which is part of sserialize. The machine that Ragel generates is
  modelled by what it makes of number, unit and rest, not by characters.
* The libraries `osmpbf` and `sserialize` are not part of the repository; what the code
  uses of them is modelled by its effect and marked external in the map. This includes
  the file formats that `RamGraph::serialize` and `StaticGraphWriter` delegate to them.
* Exceptions of the libraries while reading, and memory that runs out.
* Graphs of more than 2^31 nodes or edges in FMI files, whose counts become negative.
* A build without support for the offset arrays (`main.cpp:293-296`), which refuses
  them when the file is opened.
* `BestReader.h`, which has no implementation, and the examples, which only print.

## Plan

Done, in this order: `OsmData`, `GraphCreator` with its invariants and proofs; the
abstract specification and the refinement; `CCGraphWriter`; the offset arrays;
`WayParser`; `FmiFiles`; then `GraphWriters` (which took in the offset arrays),
`Startup`, `EdgeWeights`, and `ComponentFiles` with its refinement.

All parts of the program that keep a state are modelled. What is left to be modelled is
the width of the counts in `FmiFiles`.

All invariants that a run checks are proved, and both refinements step by step. What is
left is beyond the prover: `Termination` and the fairness of the refinements, which stay
with TLC.
