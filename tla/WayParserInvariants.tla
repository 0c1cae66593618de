------------------------ MODULE WayParserInvariants ------------------------
(* The inductive invariants from which the properties of WayParser are     *)
(* proved: what has been translated of the block, what the tags of the way *)
(* so far have been taken for, and what has been called.                   *)
EXTENDS WayParser

AtWay == InBlock /\ w <= Len(block.ways)

PlaceInv ==
  /\ blocks \in Inputs /\ b \in 0..Len(blocks)
  /\ b = 0 => w = 0 /\ t = 0
  /\ b > 0 => w \in 1..(Len(block.ways) + 1)
  /\ b > 0 /\ ~InBlock => w = 1
  /\ IF AtWay THEN t \in 0..Len(way.tags) ELSE t = 0

TablesInv ==
  /\ highwayTagId \in Nat /\ onewayTagId \in Nat /\ keysToStore \subseteq Nat
  /\ \A j \in DOMAIN strIdToHwId : j \in Nat /\ strIdToHwId[j] \in Range(HwTagIds)
  /\ b > 0 => highwayTagId = findString(block.strings, "highway")
  /\ InBlock =>
       /\ onewayTagId = findString(block.strings, "oneway")
       /\ \A j \in DOMAIN block.strings :
            /\ j \in DOMAIN strIdToHwId <=> block.strings[j] \in DOMAIN HwTagIds
            /\ j \in DOMAIN strIdToHwId => strIdToHwId[j] = HwTagIds[block.strings[j]]
            /\ block.strings[j] \in keys => j \in keysToStore

\* What one tag has been taken for.
Understood(tag) ==
  /\ tag.key = "oneway" => ows = IF toBool(tag.value) THEN "OW_YES" ELSE "OW_NO"
  /\ tag.key = "highway" => /\ tag.value \in DOMAIN HwTagIds /\ Len(way.refs) > 1
                            /\ process /\ hwType = HwTagIds[tag.value]
  /\ tag.key \in keys => tag.key \in DOMAIN storedKv /\ storedKv[tag.key] = tag.value

\* The tags so far, unless the way has been found not to be accepted.
TagsRead ==
  /\ \A k \in 1..t : Understood(way.tags[k])
  /\ process => \E k \in 1..t : way.tags[k].key = "highway"
  /\ (\A k \in 1..t : way.tags[k].key # "oneway") => ows = "OW_IMPLICIT"

GivenUp == t = Len(way.tags) /\ ~process /\ ~Accepted(Meaning(way))

WayInv ==
  /\ process \in BOOLEAN /\ ows \in OneWayStatus
  /\ ~AtWay => ~process /\ storedKv = EmptyKv
  /\ AtWay => StoredTagsAreOfThisWay /\ (GivenUp \/ TagsRead)

\* What is stored are tags of the way.
StoredOf(kv, v) ==
  \A key \in DOMAIN kv : \E k \in DOMAIN v.tags : v.tags[k] = [key |-> key, value |-> kv[key]]

CallsInv ==
  /\ calls \in Seq({calls[n] : n \in DOMAIN calls})
  /\ IsFiniteSet(Done) /\ Len(calls) = Cardinality(Done)
  /\ \A p \in Done : /\ CallNumber(p) \in 1..Len(calls)
                     /\ Fits(CallFor(p), WayAt(p)) /\ StoredOf(CallFor(p).storedKv, WayAt(p))

=============================================================================
