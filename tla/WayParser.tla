----------------------------- MODULE WayParser -----------------------------
(***************************************************************************)
(* WayParser::parse of creator/Processors.h: walks through the blocks of   *)
(* an extract and hands the accepted ways to a processor.                  *)
(*                                                                         *)
(* The tags of a way are pairs of indices into the string table of its     *)
(* block.  The parser translates the strings it looks for into indices     *)
(* once per block and compares indices only; an index means another string *)
(* in the next block.  strIdToHwId is cleared for every block and storedKv *)
(* for every way, but keysToStore is never cleared.                        *)
(*                                                                         *)
(* That what the processor is given is the meaning of the tags by OsmData, *)
(* which GraphCreator builds on, is what there is to check.                *)
(*                                                                         *)
(* A definition like ParseBlock_KeepsIds is a faulty variant of the one    *)
(* that follows it, used only to show that a property can fail.            *)
(***************************************************************************)
EXTENDS OsmData

CONSTANTS
  Inputs,      \* sequences of blocks [strings, ways]; a way is [tags, refs]
  Processors   \* what the processors' keysToStore() may be

Tags      == [key : STRING, value : STRING]
WayRecords == [tags : Seq(Tags), refs : Seq(NodeIds)]

\* A block may have no string "highway"; the strings of a table are distinct,
\* and its tags use no other strings.  A way has at most one value for a key.
\* NoTag stands for no string.
IsBlock(x) ==
  /\ IsInjective(x.strings) /\ NoTag \notin Range(x.strings)
  /\ \A n \in DOMAIN x.ways :
       LET tags == x.ways[n].tags
       IN /\ \A k \in DOMAIN tags : {tags[k].key, tags[k].value} \subseteq Range(x.strings)
          /\ \A j, k \in DOMAIN tags : tags[j].key = tags[k].key => j = k

ASSUME ParserAssumption ==
  /\ Inputs \subseteq Seq([strings : Seq(STRING), ways : Seq(WayRecords)])
  /\ \A s \in Inputs : \A k \in DOMAIN s : IsBlock(s[k])
  /\ NoTag \notin DOMAIN HwTagIds

VARIABLES
  blocks, keys,            \* the input and processor.keysToStore(); fixed
  b, w, t,                 \* how many blocks, ways of the block and tags are done
  highwayTagId, onewayTagId, strIdToHwId, keysToStore,
  ows, hwType, process, storedKv,
  calls                    \* what the processor has been called with

input  == <<blocks, keys>>
tables == <<highwayTagId, onewayTagId, strIdToHwId, keysToStore>>
found  == <<ows, hwType, process>>
vars   == <<input, b, w, t, tables, found, storedKv, calls>>

\* osmpbf numbers strings from 1; PrimitiveBlockInputAdaptor::findString returns
\* 0 for none.
findString_OrMinusOne(strings, s) ==
  IF s \in Range(strings) THEN CHOOSE i \in DOMAIN strings : strings[i] = s ELSE -1
findString(strings, s) == IF s \in Range(strings) THEN CHOOSE i \in DOMAIN strings : strings[i] = s
                          ELSE 0

EmptyKv == [k \in {} |-> ""]

Init ==
  /\ blocks \in Inputs /\ keys \in Processors
  /\ b = 0 /\ w = 0 /\ t = 0
  /\ highwayTagId = 0 /\ onewayTagId = 0 /\ strIdToHwId = EmptyKv /\ keysToStore = {}
  /\ ows = "OW_IMPLICIT" /\ hwType = 0 /\ process = FALSE /\ storedKv = EmptyKv
  /\ calls = << >>

block == blocks[b]
way   == block.ways[w]
keyId(k)   == findString(block.strings, way.tags[k].key)
valueId(k) == findString(block.strings, way.tags[k].value)

InBlock  == b > 0 /\ highwayTagId # 0

\* The next block.  The ways of a block without "highway" are not looked at.
ParseBlock_KeepsIds ==
  /\ b < Len(blocks) /\ (InBlock => w > Len(block.ways))
  /\ b' = b + 1
  /\ LET strings == blocks[b + 1].strings
     IN /\ highwayTagId' = findString(strings, "highway")
        /\ IF highwayTagId' = 0
             THEN UNCHANGED <<onewayTagId, strIdToHwId, keysToStore>>
             ELSE /\ onewayTagId' = findString(strings, "oneway")
                  /\ strIdToHwId' =
                       [i \in DOMAIN strIdToHwId \cup
                              {j \in DOMAIN strings : strings[j] \in DOMAIN HwTagIds} |->
                          IF i \in DOMAIN strings /\ strings[i] \in DOMAIN HwTagIds
                            THEN HwTagIds[strings[i]] ELSE strIdToHwId[i]]
                  /\ keysToStore' = keysToStore \cup {i \in DOMAIN strings : strings[i] \in keys}
  /\ w' = 1 /\ t' = 0
  /\ ows' = "OW_IMPLICIT" /\ hwType' = 0 /\ process' = FALSE
  /\ UNCHANGED <<input, storedKv, calls>>

ParseBlock ==
  /\ b < Len(blocks) /\ (InBlock => w > Len(block.ways))
  /\ b' = b + 1
  /\ LET strings == blocks[b + 1].strings
     IN /\ highwayTagId' = findString(strings, "highway")
        /\ IF highwayTagId' = 0
             THEN UNCHANGED <<onewayTagId, strIdToHwId, keysToStore>>
             ELSE /\ onewayTagId' = findString(strings, "oneway")
                  /\ strIdToHwId' =
                       [i \in {j \in DOMAIN strings : strings[j] \in DOMAIN HwTagIds} |->
                          HwTagIds[strings[i]]]
                  /\ keysToStore' = keysToStore \cup {i \in DOMAIN strings : strings[i] \in keys}
  /\ w' = 1 /\ t' = 0
  /\ ows' = "OW_IMPLICIT" /\ hwType' = 0 /\ process' = FALSE
  /\ UNCHANGED <<input, storedKv, calls>>

AtTag == InBlock /\ w <= Len(block.ways) /\ t < Len(way.tags)
Tag   == way.tags[t + 1]

StoreTag ==
  storedKv' = IF keyId(t + 1) \in keysToStore
                THEN [k \in DOMAIN storedKv \cup {Tag.key} |->
                        IF k = Tag.key THEN Tag.value ELSE storedKv[k]]
                ELSE storedKv

OneWayTag ==
  /\ AtTag /\ keyId(t + 1) = onewayTagId
  /\ ows' = IF toBool(Tag.value) THEN "OW_YES" ELSE "OW_NO"
  /\ StoreTag
  /\ t' = t + 1
  /\ UNCHANGED <<input, b, w, tables, hwType, process, calls>>

\* The highway tag; if the way is not accepted, its other tags are not read.
HighwayTag ==
  /\ AtTag /\ keyId(t + 1) # onewayTagId /\ keyId(t + 1) = highwayTagId
  /\ IF valueId(t + 1) \in DOMAIN strIdToHwId /\ Len(way.refs) > 1
       THEN /\ hwType' = strIdToHwId[valueId(t + 1)] /\ process' = TRUE
            /\ StoreTag
            /\ t' = t + 1
       ELSE t' = Len(way.tags) /\ UNCHANGED <<hwType, process, storedKv>>
  /\ UNCHANGED <<input, b, w, tables, ows, calls>>

OtherTag ==
  /\ AtTag /\ keyId(t + 1) \notin {onewayTagId, highwayTagId}
  /\ StoreTag
  /\ t' = t + 1
  /\ UNCHANGED <<input, b, w, tables, found, calls>>

ClearedKv_IfProcessed == IF process THEN EmptyKv ELSE storedKv
ClearedKv == EmptyKv

\* The end of a way: it is processed or not, and the next one begins.
EndWay ==
  /\ InBlock /\ w <= Len(block.ways) /\ t >= Len(way.tags)
  /\ calls' = IF process
                THEN Append(calls, [ows |-> ows, hwType |-> hwType, storedKv |-> storedKv,
                                    way |-> way])
                ELSE calls
  /\ storedKv' = ClearedKv
  /\ ows' = "OW_IMPLICIT" /\ hwType' = 0 /\ process' = FALSE
  /\ w' = w + 1 /\ t' = 0
  /\ UNCHANGED <<input, b, tables>>

Next == ParseBlock \/ OneWayTag \/ HighwayTag \/ OtherTag \/ EndWay

Spec == Init /\ [][Next]_vars

-----------------------------------------------------------------------------
(* Properties.                                                             *)

\* The state has the types the code declares.
TypeOK ==
  /\ b \in 0..Len(blocks)
  /\ b > 0 => /\ w \in 1..(Len(block.ways) + 1)
              /\ t \in 0..(IF w <= Len(block.ways) THEN Len(way.tags) ELSE 0)
  /\ {highwayTagId, onewayTagId} \subseteq Nat
  /\ \A i \in DOMAIN strIdToHwId : i \in Nat /\ strIdToHwId[i] \in Range(HwTagIds)
  /\ keysToStore \subseteq Nat
  /\ ows \in OneWayStatus
  /\ process \in BOOLEAN
  /\ process => hwType \in Range(HwTagIds)

ValueOf(v, key) == IF \E k \in DOMAIN v.tags : v.tags[k].key = key
                     THEN v.tags[CHOOSE k \in DOMAIN v.tags : v.tags[k].key = key].value
                     ELSE NoTag

\* The way as OsmData sees it.
Meaning(v) == [kind |-> "way", refs |-> v.refs, highway |-> ValueOf(v, "highway"),
               oneway |-> ValueOf(v, "oneway")]

\* A way has a place <<block, position in it>>.
WayAt(p) == blocks[p[1]].ways[p[2]]

\* The places of the accepted ways before way n of block k.
AcceptedBefore(k, n) ==
  {p \in UNION {{j} \X DOMAIN blocks[j].ways : j \in 1..k} :
     (p[1] < k \/ p[2] < n) /\ Accepted(Meaning(WayAt(p)))}

\* Those the parser is done with, and the call that belongs to one of them.
Done == IF b = 0 THEN {} ELSE AcceptedBefore(b, IF InBlock THEN w ELSE Len(block.ways) + 1)
CallNumber(p) == Cardinality(AcceptedBefore(p[1], p[2])) + 1
CallFor(p) == calls[CallNumber(p)]

\* What the processor is given is what the tags of the way mean.
Fits(c, v) ==
  /\ c.way = v /\ c.ows = Ows(Meaning(v)) /\ c.hwType = HwType(Meaning(v))
  /\ \A key \in keys :
       ValueOf(v, key) = IF key \in DOMAIN c.storedKv THEN c.storedKv[key] ELSE NoTag

\* The processor has been called for the accepted ways, once for each and in
\* their order, with the oneway status, the type and the values of its keys that
\* their tags mean, wherever the strings are in the table of the block and in
\* which order the tags come (Processors.h:150-197).
CallsMatchTags ==
  /\ Len(calls) = Cardinality(Done)
  /\ \A p \in Done : Fits(CallFor(p), WayAt(p))

\* Whatever stale indices keysToStore holds (it is filled at Processors.h:165
\* and never cleared), a stored value is one of a tag of the way at hand:
\* nothing is handed over from the way before or from another block.
StoredTagsAreOfThisWay ==
  \A key \in DOMAIN storedKv :
    \E k \in 1..t : way.tags[k] = [key |-> key, value |-> storedKv[key]]

=============================================================================
