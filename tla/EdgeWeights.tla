---------------------------- MODULE EdgeWeights ----------------------------
(***************************************************************************)
(* What becomes of the tags of a way on its edges: FinalWayProcessor takes *)
(* what WayParser hands over, parseMaxSpeed of creator/MaxSpeedParser.rl   *)
(* makes a number of km/h of the maxspeed tag, or fails, and then the      *)
(* configured speed of the type is used; creator/WeightCalculator.cpp      *)
(* makes a weight of the speed and of the length of the edge.              *)
(*                                                                         *)
(* The value of a tag is given by the parts that the grammar finds in it:  *)
(* a number, in tenths so that rounding can be seen, a unit, and whether   *)
(* anything follows it.  Floating-point numbers are exact here.            *)
(*                                                                         *)
(* A definition like MaxSpeed_NoFallback is a faulty variant of the one    *)
(* that follows it, used only to show that a property can fail.            *)
(***************************************************************************)
EXTENDS WayParser

CONSTANTS
  Values,     \* function: value of a maxspeed tag -> [number, unit, more]
  TypeSpeed,  \* function: type of edge -> the configured speed in tenths of km/h
  Lengths,    \* lengths of edges in m
  timeMult    \* the option -tm

None == "none"

ASSUME EdgeWeightsAssumption ==
  /\ \A s \in DOMAIN Values : /\ Values[s].number \in Nat \cup {-1}
                             /\ Values[s].unit \in {None, "kmh", "mph", "kph"}
                             /\ Values[s].more \in BOOLEAN
  /\ \A s \in Inputs : \A k \in DOMAIN s : \A n \in DOMAIN s[k].ways :
       LET tags == s[k].ways[n].tags
       IN \A m \in DOMAIN tags : tags[m].key = "maxspeed" => tags[m].value \in DOMAIN Values
  /\ \A type \in Range(HwTagIds) : TypeSpeed[type] \in Nat \ {0}

\* Millionths of a km/h.
Factor == [kmh |-> 1000000, mph |-> 1609344, kph |-> 1852000]

\* The unit is not optional: the input ends in a state that is not final.
ok(s) == Values[s].number >= 0 /\ Values[s].unit # None

\* The factor is applied on leaving the unit for the end of the input; if
\* anything else follows, the machine stops without it, and without an error.
parseMaxSpeed_NoUnit(s) == Values[s].number \div 10
parseMaxSpeed(s) ==
  (Values[s].number * IF Values[s].more THEN Factor.kmh ELSE Factor[Values[s].unit]) \div 10000000

maxSpeedFromType(type) == TypeSpeed[type] \div 10

MaxSpeed_NoFallback(c) ==
  IF "maxspeed" \in DOMAIN c.storedKv
    THEN IF ok(c.storedKv["maxspeed"]) THEN parseMaxSpeed(c.storedKv["maxspeed"]) ELSE 0
    ELSE maxSpeedFromType(c.hwType)
MaxSpeed(c) ==
  IF "maxspeed" \in DOMAIN c.storedKv /\ ok(c.storedKv["maxspeed"])
    THEN parseMaxSpeed(c.storedKv["maxspeed"])
    ELSE maxSpeedFromType(c.hwType)

\* The weights that -t time and -t maxspeed give to an edge of a way.  The
\* second one is not defined if it divides by zero.
TimeWeight(c, length)     == (timeMult * length * 3600) \div (100 * TypeSpeed[c.hwType])
MaxSpeedDefined(c)        == MaxSpeed(c) # 0
MaxSpeedWeight(c, length) == (timeMult * length * 3600) \div (100 * MaxSpeed(c))

-----------------------------------------------------------------------------
(* Properties.                                                             *)

\* What the documents make of a maxspeed tag; none of this is taken from the
\* machine.  The comment of MaxSpeedParser.rl:5 has a number, an optional unit and
\* nothing behind it; MaxSpeedParser.h:5 has the result in km/h.
TagOf(v)  == ValueOf(v, "maxspeed")
IsSpeed(s) == Values[s].number >= 0 /\ ~Values[s].more
InKmh(s) ==
  IF Values[s].unit = "mph" THEN (Values[s].number * 1609344) \div 10000000
                            ELSE Values[s].number \div 10

\* README.md:50: the configured speed is for edges without a maxspeed tag; here
\* also for those whose tag is not a speed.
SpeedFor(v) ==
  IF TagOf(v) # NoTag /\ IsSpeed(TagOf(v)) THEN InKmh(TagOf(v))
                                           ELSE TypeSpeed[HwType(Meaning(v))] \div 10

\* Numbers that the program reads otherwise: without a unit, with text behind the
\* unit, and with the unit kph, of which no document says what it is worth.
Unitless(s) == IsSpeed(s) /\ Values[s].unit = None
Trailing(s) == Values[s].number >= 0 /\ Values[s].unit # None /\ Values[s].more
ReadOtherwise(v) ==
  TagOf(v) # NoTag /\ (Unitless(TagOf(v)) \/ Trailing(TagOf(v)) \/ Values[TagOf(v)].unit = "kph")

\* The edges of a way get the speed that its own maxspeed tag stands for, rounded
\* down, and that of its own type if it has no tag or one without a number: whichever
\* way or block came before, and in whichever order the tags come
\* (Processors.h:336-342).  SpeedsMatchDocuments is about the values left out.
SpeedsMatchTags ==
  keys = {"maxspeed"} =>
    \A p \in Done : ReadOtherwise(WayAt(p)) \/ MaxSpeed(CallFor(p)) = SpeedFor(WayAt(p))

\* Values that the documents leave no doubt about have the speed that they stand
\* for, also those without a unit and those with text behind the unit
\* (MaxSpeedParser.rl:5).  It does not hold: line 33 demands a unit; and as its error
\* handler is for states that are not final, text behind the unit is accepted, but
\* the number is taken for km/h whatever the unit.
SpeedsMatchDocuments ==
  keys = {"maxspeed"} =>
    \A p \in Done :
      LET v == WayAt(p)
      IN \/ TagOf(v) # NoTag /\ Values[TagOf(v)].unit = "kph"
         \/ MaxSpeed(CallFor(p)) = SpeedFor(v)

\* -t maxspeed divides by zero only if the tag has a number below 1 or the speed of
\* the type is below 1 km/h: never because a tag says nothing (WeightCalculator.cpp:39).
WeightsAreDefined ==
  keys = {"maxspeed"} =>
    \A p \in Done :
      LET v == WayAt(p)
      IN \/ MaxSpeedDefined(CallFor(p))
         \/ TagOf(v) # NoTag /\ Values[TagOf(v)].number \in 0..9
         \/ TypeSpeed[HwType(Meaning(v))] < 10

\* A way whose limit is the speed of its type takes the same time by -t time and
\* by -t maxspeed: README.md:72 gives both in centiseconds.  It does not hold.
SameSpeedSameTime ==
  keys = {"maxspeed"} =>
    \A n \in DOMAIN calls, length \in Lengths :
      (TypeSpeed[calls[n].hwType] = 10 * MaxSpeed(calls[n]) /\ MaxSpeedDefined(calls[n])) =>
        MaxSpeedWeight(calls[n], length) = TimeWeight(calls[n], length)

=============================================================================
