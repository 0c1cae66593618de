-------------------------- MODULE WayParserProofs --------------------------
(***************************************************************************)
(* Theorems about WayParser and EdgeWeights: for every sequence of blocks  *)
(* the processor is called with what the tags mean, and the edges get the  *)
(* speed of their own way.                                                 *)
(***************************************************************************)
EXTENDS EdgeWeights, WayParserInvariants, FiniteSetTheorems, SequenceTheorems, TLAPS

-----------------------------------------------------------------------------
(* The input.                                                              *)

LEMMA InputType ==
  ASSUME blocks \in Inputs
  PROVE  /\ blocks \in Seq([strings : Seq(STRING), ways : Seq(WayRecords)])
         /\ Len(blocks) \in Nat /\ DOMAIN blocks = 1..Len(blocks)
         /\ \A k \in DOMAIN blocks :
              /\ IsBlock(blocks[k])
              /\ blocks[k].strings \in Seq(STRING) /\ blocks[k].ways \in Seq(WayRecords)
              /\ Len(blocks[k].ways) \in Nat /\ DOMAIN blocks[k].ways = 1..Len(blocks[k].ways)
<1>1. blocks \in Seq([strings : Seq(STRING), ways : Seq(WayRecords)])
  BY ParserAssumption
<1>2. Len(blocks) \in Nat /\ DOMAIN blocks = 1..Len(blocks)
  BY <1>1
<1>3. \A k \in DOMAIN blocks : IsBlock(blocks[k])
  BY ParserAssumption
<1>4. ASSUME NEW k \in DOMAIN blocks
      PROVE  /\ blocks[k].strings \in Seq(STRING) /\ blocks[k].ways \in Seq(WayRecords)
             /\ Len(blocks[k].ways) \in Nat /\ DOMAIN blocks[k].ways = 1..Len(blocks[k].ways)
  <2>1. blocks[k] \in [strings : Seq(STRING), ways : Seq(WayRecords)]
    BY <1>1, <1>2, ElementOfSeq
  <2>2. blocks[k].strings \in Seq(STRING) /\ blocks[k].ways \in Seq(WayRecords)
    BY <2>1
  <2>3. Len(blocks[k].ways) \in Nat /\ DOMAIN blocks[k].ways = 1..Len(blocks[k].ways)
    BY <2>2
  <2> QED BY <2>2, <2>3
<1> QED BY <1>1, <1>2, <1>3, <1>4

LEMMA WayType ==
  ASSUME blocks \in Inputs, NEW k \in DOMAIN blocks, NEW n \in DOMAIN blocks[k].ways,
         NEW v, v = blocks[k].ways[n]
  PROVE  /\ v.tags \in Seq(Tags) /\ Len(v.tags) \in Nat /\ DOMAIN v.tags = 1..Len(v.tags)
         /\ v.refs \in Seq(NodeIds)
         /\ \A m \in DOMAIN v.tags :
              /\ v.tags[m] = [key |-> v.tags[m].key, value |-> v.tags[m].value]
              /\ v.tags[m].key \in Range(blocks[k].strings)
              /\ v.tags[m].value \in Range(blocks[k].strings)
              /\ v.tags[m].key # NoTag /\ v.tags[m].value # NoTag
         /\ \A j, m \in DOMAIN v.tags : v.tags[j].key = v.tags[m].key => j = m
<1>1. blocks[k].ways \in Seq(WayRecords) /\ IsBlock(blocks[k])
  BY InputType
<1>2. v \in WayRecords
  BY <1>1
<1>3. v.tags \in Seq(Tags) /\ v.refs \in Seq(NodeIds)
  BY <1>2 DEF WayRecords
<1>4. Len(v.tags) \in Nat /\ DOMAIN v.tags = 1..Len(v.tags)
  BY <1>3
<1>5. /\ \A m \in DOMAIN v.tags : {v.tags[m].key, v.tags[m].value} \subseteq Range(blocks[k].strings)
      /\ \A j, m \in DOMAIN v.tags : v.tags[j].key = v.tags[m].key => j = m
      /\ NoTag \notin Range(blocks[k].strings)
  BY <1>1 DEF IsBlock
<1>6. \A m \in DOMAIN v.tags : v.tags[m] = [key |-> v.tags[m].key, value |-> v.tags[m].value]
  <2> SUFFICES ASSUME NEW m \in DOMAIN v.tags
               PROVE  v.tags[m] = [key |-> v.tags[m].key, value |-> v.tags[m].value]
    OBVIOUS
  <2>1. v.tags[m] \in Tags
    BY <1>3, <1>4
  <2> QED BY <2>1 DEF Tags
<1> QED BY <1>3, <1>4, <1>5, <1>6

LEMMA FindString ==
  ASSUME NEW strings \in Seq(STRING), NEW s
  PROVE  /\ findString(strings, s) \in Nat
         /\ s \in Range(strings) => /\ findString(strings, s) \in DOMAIN strings
                                    /\ strings[findString(strings, s)] = s
                                    /\ findString(strings, s) # 0
         /\ s \notin Range(strings) => findString(strings, s) = 0
<1>1. DOMAIN strings = 1..Len(strings) /\ Len(strings) \in Nat
  OBVIOUS
<1>2. ASSUME s \in Range(strings)
      PROVE  findString(strings, s) \in DOMAIN strings /\ strings[findString(strings, s)] = s
  <2>1. \E i \in DOMAIN strings : strings[i] = s
    BY <1>2 DEF Range
  <2> QED BY <1>2, <2>1 DEF findString
<1>3. s \notin Range(strings) => findString(strings, s) = 0
  BY DEF findString
<1> QED BY <1>1, <1>2, <1>3

\* Two strings of a table have two indices.
LEMMA FindInjective ==
  ASSUME NEW strings \in Seq(STRING), NEW r \in Range(strings), NEW s
  PROVE  findString(strings, r) = findString(strings, s) <=> r = s
BY FindString

\* What ValueOf finds.
LEMMA ValueOfTag ==
  ASSUME NEW v, \A j, m \in DOMAIN v.tags : v.tags[j].key = v.tags[m].key => j = m,
         NEW key
  PROVE  /\ \A k \in DOMAIN v.tags : v.tags[k].key = key => ValueOf(v, key) = v.tags[k].value
         /\ (\A k \in DOMAIN v.tags : v.tags[k].key # key) => ValueOf(v, key) = NoTag
<1>1. ASSUME NEW k \in DOMAIN v.tags, v.tags[k].key = key
      PROVE  ValueOf(v, key) = v.tags[k].value
  <2>1. \E m \in DOMAIN v.tags : v.tags[m].key = key
    BY <1>1
  <2>2. (CHOOSE m \in DOMAIN v.tags : v.tags[m].key = key) = k
    BY <1>1, <2>1
  <2> QED BY <2>1, <2>2 DEF ValueOf
<1>2. ASSUME \A k \in DOMAIN v.tags : v.tags[k].key # key
      PROVE  ValueOf(v, key) = NoTag
  BY <1>2 DEF ValueOf
<1> QED BY <1>1, <1>2

LEMMA MeaningIs ==
  ASSUME NEW v
  PROVE  /\ Accepted(Meaning(v)) <=> ValueOf(v, "highway") \in DOMAIN HwTagIds /\ Len(v.refs) > 1
         /\ HwType(Meaning(v)) = HwTagIds[ValueOf(v, "highway")]
         /\ Ows(Meaning(v)) = IF ValueOf(v, "oneway") = NoTag THEN "OW_IMPLICIT"
                              ELSE IF toBool(ValueOf(v, "oneway")) THEN "OW_YES" ELSE "OW_NO"
BY DEF Accepted, Meaning, HwType, Ows

-----------------------------------------------------------------------------
(* Where the parser is.                                                    *)

LEMMA Here ==
  ASSUME PlaceInv, b > 0
  PROVE  /\ b \in Nat /\ Len(blocks) \in Nat /\ b \in DOMAIN blocks /\ block = blocks[b]
         /\ block.strings \in Seq(STRING) /\ Len(block.ways) \in Nat
         /\ DOMAIN block.ways = 1..Len(block.ways) /\ w \in Nat
         /\ w <= Len(block.ways) => w \in DOMAIN block.ways
<1>1. blocks \in Inputs /\ b \in 0..Len(blocks) /\ w \in 1..(Len(block.ways) + 1)
  BY DEF PlaceInv
<1>2. Len(blocks) \in Nat /\ DOMAIN blocks = 1..Len(blocks)
  BY <1>1, InputType
<1>3. b \in Nat /\ b \in DOMAIN blocks
  BY <1>1, <1>2
<1>4. block = blocks[b]
  BY DEF block
<1>5. block.strings \in Seq(STRING) /\ Len(block.ways) \in Nat
      /\ DOMAIN block.ways = 1..Len(block.ways)
  BY <1>1, <1>3, <1>4, InputType
<1>6. w \in Nat /\ (w <= Len(block.ways) => w \in DOMAIN block.ways)
  BY <1>1, <1>5
<1> QED BY <1>2, <1>3, <1>4, <1>5, <1>6

LEMMA AtWayFacts ==
  ASSUME PlaceInv, AtWay
  PROVE  /\ b > 0 /\ InBlock /\ w \in DOMAIN block.ways /\ w <= Len(block.ways) /\ way = block.ways[w]
         /\ t \in 0..Len(way.tags) /\ t \in Nat
         /\ Len(way.tags) \in Nat /\ DOMAIN way.tags = 1..Len(way.tags)
         /\ way.refs \in Seq(NodeIds)
         /\ \A m \in DOMAIN way.tags :
              /\ way.tags[m] = [key |-> way.tags[m].key, value |-> way.tags[m].value]
              /\ way.tags[m].key \in Range(block.strings)
              /\ way.tags[m].value \in Range(block.strings)
              /\ way.tags[m].key # NoTag /\ way.tags[m].value # NoTag
         /\ \A j, m \in DOMAIN way.tags : way.tags[j].key = way.tags[m].key => j = m
<1>1. b > 0 /\ InBlock /\ w <= Len(block.ways)
  BY DEF AtWay, InBlock
<1>2. b \in DOMAIN blocks /\ block = blocks[b] /\ w \in DOMAIN block.ways
  BY <1>1, Here
<1>3. way = blocks[b].ways[w] /\ way = block.ways[w]
  BY <1>2 DEF way
<1>4. blocks \in Inputs /\ t \in 0..Len(way.tags)
  BY DEF PlaceInv
<1>8. blocks \in Inputs /\ b \in DOMAIN blocks /\ w \in DOMAIN blocks[b].ways /\ way = blocks[b].ways[w]
  BY <1>2, <1>3, <1>4
<1>5. Len(way.tags) \in Nat
  BY <1>8, WayType
<1>6. t \in Nat
  BY <1>4, <1>5
<1>7. /\ DOMAIN way.tags = 1..Len(way.tags) /\ way.refs \in Seq(NodeIds)
      /\ \A m \in DOMAIN way.tags :
           /\ way.tags[m] = [key |-> way.tags[m].key, value |-> way.tags[m].value]
           /\ way.tags[m].key \in Range(block.strings)
           /\ way.tags[m].value \in Range(block.strings)
           /\ way.tags[m].key # NoTag /\ way.tags[m].value # NoTag
      /\ \A j, m \in DOMAIN way.tags : way.tags[j].key = way.tags[m].key => j = m
  <2> DEFINE v == way
             strings == block.strings
  <2>1. v = blocks[b].ways[w] /\ strings = blocks[b].strings
    BY <1>2, <1>8
  <2> HIDE DEF v, strings
  <2>2. DOMAIN v.tags = 1..Len(v.tags) /\ v.refs \in Seq(NodeIds)
    BY <1>8, <2>1, WayType
  <2>3. \A m \in DOMAIN v.tags :
          /\ v.tags[m] = [key |-> v.tags[m].key, value |-> v.tags[m].value]
          /\ v.tags[m].key # NoTag /\ v.tags[m].value # NoTag
    BY <1>8, <2>1, WayType
  <2>4. \A m \in DOMAIN v.tags : v.tags[m].key \in Range(strings) /\ v.tags[m].value \in Range(strings)
    BY <1>8, <2>1, WayType
  <2>5. \A j, m \in DOMAIN v.tags : v.tags[j].key = v.tags[m].key => j = m
    BY <1>8, <2>1, WayType
  <2> QED BY <2>2, <2>3, <2>4, <2>5 DEF v, strings
<1> QED BY <1>1, <1>2, <1>3, <1>4, <1>5, <1>6, <1>7

\* What the comparisons of indices mean.
LEMMA TagHere ==
  ASSUME PlaceInv, TablesInv, AtWay, NEW k \in 1..Len(way.tags)
  PROVE  /\ keyId(k) = onewayTagId <=> way.tags[k].key = "oneway"
         /\ keyId(k) = highwayTagId <=> way.tags[k].key = "highway"
         /\ valueId(k) \in DOMAIN strIdToHwId <=> way.tags[k].value \in DOMAIN HwTagIds
         /\ valueId(k) \in DOMAIN strIdToHwId => strIdToHwId[valueId(k)] = HwTagIds[way.tags[k].value]
         /\ way.tags[k].key \in keys => keyId(k) \in keysToStore
<1> DEFINE strings == block.strings
           key     == way.tags[k].key
           val     == way.tags[k].value
<1>1. InBlock /\ b > 0 /\ key \in Range(strings) /\ val \in Range(strings)
  BY AtWayFacts
<1>2. strings \in Seq(STRING)
  BY <1>1, Here
<1>3. /\ onewayTagId = findString(strings, "oneway") /\ highwayTagId = findString(strings, "highway")
      /\ keyId(k) = findString(strings, key) /\ valueId(k) = findString(strings, val)
  BY <1>1 DEF TablesInv, keyId, valueId
<1>4. /\ \A j \in DOMAIN strings : /\ j \in DOMAIN strIdToHwId <=> strings[j] \in DOMAIN HwTagIds
                                   /\ j \in DOMAIN strIdToHwId => strIdToHwId[j] = HwTagIds[strings[j]]
                                   /\ strings[j] \in keys => j \in keysToStore
  BY <1>1 DEF TablesInv
<1>5. /\ keyId(k) \in DOMAIN strings /\ strings[keyId(k)] = key
      /\ valueId(k) \in DOMAIN strings /\ strings[valueId(k)] = val
  BY <1>1, <1>2, <1>3, FindString
<1>6. /\ keyId(k) = onewayTagId <=> key = "oneway"
      /\ keyId(k) = highwayTagId <=> key = "highway"
  BY <1>1, <1>2, <1>3, FindInjective
<1> QED BY <1>4, <1>5, <1>6

\* What stays while the tags of a way are read.
LEMMA TagStep ==
  ASSUME PlaceInv, TablesInv, OneWayTag \/ HighwayTag \/ OtherTag
  PROVE  /\ AtWay /\ AtWay' /\ UNCHANGED <<blocks, keys, b, w, tables, calls>>
         /\ block' = block /\ way' = way /\ InBlock'
         /\ t < Len(way.tags) /\ t + 1 \in 1..Len(way.tags) /\ Tag = way.tags[t + 1]
<1>1. AtTag /\ UNCHANGED <<blocks, keys, b, w, tables, calls>>
  BY DEF OneWayTag, HighwayTag, OtherTag, input
<1>2. AtWay /\ InBlock /\ t < Len(way.tags)
  BY <1>1 DEF AtTag, AtWay
<1>3. block' = block /\ highwayTagId' = highwayTagId
  BY <1>1 DEF block, tables
<1>4. way' = way
  BY <1>1, <1>3 DEF way
<1>5. AtWay' /\ InBlock'
  BY <1>1, <1>2, <1>3 DEF AtWay, InBlock
<1>6. t + 1 \in 1..Len(way.tags)
  BY <1>2, AtWayFacts
<1> QED BY <1>1, <1>2, <1>3, <1>4, <1>5, <1>6 DEF Tag

LEMMA NextBlock ==
  ASSUME PlaceInv, ParseBlock
  PROVE  /\ b \in Nat /\ b' = b + 1 /\ b + 1 \in DOMAIN blocks /\ b' <= Len(blocks)
         /\ blocks' = blocks /\ keys' = keys /\ block' = blocks[b + 1]
         /\ blocks[b + 1].strings \in Seq(STRING)
         /\ w' = 1 /\ t' = 0 /\ UNCHANGED <<storedKv, calls>>
         /\ ows' = "OW_IMPLICIT" /\ process' = FALSE
         /\ highwayTagId' = findString(blocks[b + 1].strings, "highway")
         /\ ~AtWay
<1>1. /\ b < Len(blocks) /\ (InBlock => w > Len(block.ways)) /\ b' = b + 1 /\ blocks' = blocks /\ keys' = keys
      /\ w' = 1 /\ t' = 0 /\ UNCHANGED <<storedKv, calls>> /\ ows' = "OW_IMPLICIT" /\ process' = FALSE
      /\ highwayTagId' = findString(blocks[b + 1].strings, "highway")
  BY DEF ParseBlock, input
<1>2. blocks \in Inputs /\ b \in 0..Len(blocks)
  BY DEF PlaceInv
<1>3. Len(blocks) \in Nat /\ DOMAIN blocks = 1..Len(blocks)
  BY <1>2, InputType
<1>4. b \in Nat /\ b + 1 \in DOMAIN blocks /\ b' <= Len(blocks)
  BY <1>1, <1>2, <1>3
<1>5. blocks[b + 1].strings \in Seq(STRING)
  BY <1>2, <1>4, InputType
<1>6. block' = blocks[b + 1]
  BY <1>1 DEF block
<1>7. ~AtWay
  <2> SUFFICES ASSUME AtWay PROVE FALSE
    OBVIOUS
  <2>1. InBlock /\ w <= Len(block.ways) /\ b > 0
    BY DEF AtWay, InBlock
  <2>2. w \in Nat /\ Len(block.ways) \in Nat
    BY <2>1, Here
  <2> QED BY <1>1, <2>1, <2>2
<1> QED BY <1>1, <1>4, <1>5, <1>6, <1>7

LEMMA WayEnds ==
  ASSUME PlaceInv, EndWay
  PROVE  /\ AtWay /\ t = Len(way.tags) /\ UNCHANGED <<blocks, keys, b, tables>> /\ block' = block
         /\ InBlock' /\ w' = w + 1 /\ t' = 0 /\ storedKv' = EmptyKv
         /\ ows' = "OW_IMPLICIT" /\ process' = FALSE
<1>1. /\ InBlock /\ w <= Len(block.ways) /\ t >= Len(way.tags)
      /\ UNCHANGED <<blocks, keys, b, tables>> /\ w' = w + 1 /\ t' = 0 /\ storedKv' = EmptyKv
      /\ ows' = "OW_IMPLICIT" /\ process' = FALSE
  BY DEF EndWay, input, ClearedKv
<1>2. AtWay
  BY <1>1 DEF AtWay
<1>3. t = Len(way.tags)
  BY <1>1, <1>2, AtWayFacts
<1>4. block' = block /\ highwayTagId' = highwayTagId
  BY <1>1 DEF block, tables
<1> QED BY <1>1, <1>2, <1>3, <1>4 DEF InBlock

LEMMA PlaceInit == Init => PlaceInv
BY InputType DEF Init, PlaceInv, AtWay, InBlock

LEMMA PlaceStep == PlaceInv /\ TablesInv /\ [Next]_vars => PlaceInv'
<1> SUFFICES ASSUME PlaceInv, TablesInv, [Next]_vars PROVE PlaceInv'
  OBVIOUS
<1>0. blocks \in Inputs /\ b \in 0..Len(blocks) /\ Len(blocks) \in Nat
  BY InputType DEF PlaceInv
<1>1. CASE ParseBlock
  <2>1. /\ b' = b + 1 /\ b \in Nat /\ b + 1 \in DOMAIN blocks /\ b' <= Len(blocks) /\ blocks' = blocks
        /\ block' = blocks[b + 1] /\ w' = 1 /\ t' = 0
    BY <1>1, NextBlock
  <2>2. Len(block'.ways) \in Nat /\ DOMAIN block'.ways = 1..Len(block'.ways)
    BY <1>0, <2>1, InputType
  <2>3. ASSUME AtWay' PROVE t' \in 0..Len(way'.tags)
    <3>1. w' <= Len(block'.ways) /\ way' = blocks[b + 1].ways[1] /\ 1 \in DOMAIN blocks[b + 1].ways
      BY <2>1, <2>2, <2>3 DEF AtWay, way
    <3> QED BY <1>0, <2>1, <3>1, WayType
  <2> QED BY <1>0, <2>1, <2>2, <2>3 DEF PlaceInv
<1>2. CASE OneWayTag \/ HighwayTag \/ OtherTag
  <2>1. /\ AtWay /\ AtWay' /\ UNCHANGED <<blocks, b, w>> /\ block' = block /\ way' = way /\ InBlock'
        /\ t + 1 \in 1..Len(way.tags)
    BY <1>2, TagStep
  <2>2. t' = t + 1 \/ t' = Len(way.tags)
    BY <1>2 DEF OneWayTag, HighwayTag, OtherTag
  <2>3. b > 0 /\ Len(way.tags) \in Nat
    BY <2>1, AtWayFacts
  <2>4. t' \in 0..Len(way'.tags)
    BY <2>1, <2>2, <2>3
  <2>5. w' \in 1..(Len(block'.ways) + 1)
    BY <2>1, <2>3 DEF PlaceInv
  <2> QED BY <1>0, <2>1, <2>3, <2>4, <2>5 DEF PlaceInv
<1>3. CASE EndWay
  <2>1. /\ AtWay /\ UNCHANGED <<blocks, b>> /\ block' = block /\ InBlock' /\ w' = w + 1 /\ t' = 0
    BY <1>3, WayEnds
  <2>2. b > 0 /\ w \in Nat /\ w <= Len(block.ways) /\ Len(block.ways) \in Nat /\ b \in DOMAIN blocks
        /\ DOMAIN block.ways = 1..Len(block.ways) /\ block = blocks[b] /\ w \in DOMAIN block.ways
    BY <2>1, AtWayFacts, Here
  <2>3. ASSUME AtWay' PROVE t' \in 0..Len(way'.tags)
    <3>1. w + 1 \in DOMAIN blocks[b].ways /\ way' = blocks[b].ways[w + 1]
      BY <2>1, <2>2, <2>3 DEF AtWay, way
    <3>2. Len(way'.tags) \in Nat
      BY <1>0, <2>2, <3>1, WayType
    <3> QED BY <2>1, <3>2
  <2>4. w' \in 1..(Len(block'.ways) + 1)
    BY <2>1, <2>2
  <2> QED BY <1>0, <2>1, <2>2, <2>3, <2>4 DEF PlaceInv
<1>4. CASE UNCHANGED vars
  BY <1>4 DEF vars, input, tables, PlaceInv, AtWay, InBlock, block, way
<1> QED BY <1>1, <1>2, <1>3, <1>4 DEF Next

LEMMA TablesInit == Init => TablesInv
BY DEF Init, TablesInv, EmptyKv, InBlock

LEMMA TablesStep == PlaceInv /\ TablesInv /\ [Next]_vars => TablesInv'
<1> SUFFICES ASSUME PlaceInv, TablesInv, [Next]_vars PROVE TablesInv'
  OBVIOUS
<1>1. CASE ParseBlock
  <2> DEFINE strings == blocks[b + 1].strings
  <2>1. /\ b' = b + 1 /\ b \in Nat /\ b + 1 \in DOMAIN blocks /\ blocks' = blocks /\ keys' = keys
        /\ block'.strings = strings /\ strings \in Seq(STRING)
        /\ highwayTagId' = findString(strings, "highway")
    BY <1>1, NextBlock
  <2>2. highwayTagId' \in Nat /\ findString(strings, "oneway") \in Nat
    BY <2>1, FindString
  <2>3. \A j \in DOMAIN strings : j \in Nat
    BY <2>1
  <2>4. CASE highwayTagId' = 0
    <3>1. UNCHANGED <<onewayTagId, strIdToHwId, keysToStore>>
      BY <1>1, <2>1, <2>4 DEF ParseBlock
    <3> QED BY <2>1, <2>2, <2>4, <3>1 DEF TablesInv, InBlock
  <2>5. CASE highwayTagId' # 0
    <3>1. /\ onewayTagId' = findString(strings, "oneway")
          /\ strIdToHwId' = [i \in {j \in DOMAIN strings : strings[j] \in DOMAIN HwTagIds} |->
                               HwTagIds[strings[i]]]
          /\ keysToStore' = keysToStore \cup {i \in DOMAIN strings : strings[i] \in keys}
      BY <1>1, <2>1, <2>5 DEF ParseBlock
    <3>2. \A j \in DOMAIN strings :
            /\ j \in DOMAIN strIdToHwId' <=> strings[j] \in DOMAIN HwTagIds
            /\ j \in DOMAIN strIdToHwId' => strIdToHwId'[j] = HwTagIds[strings[j]]
            /\ strings[j] \in keys => j \in keysToStore'
      BY <3>1
    <3>3. \A j \in DOMAIN strIdToHwId' : j \in DOMAIN strings /\ strIdToHwId'[j] \in Range(HwTagIds)
      BY <3>1 DEF Range
    <3>4. keysToStore' \subseteq Nat
      BY <2>3, <3>1 DEF TablesInv
    <3> QED BY <2>1, <2>2, <2>3, <3>1, <3>2, <3>3, <3>4 DEF TablesInv
  <2> QED BY <2>4, <2>5
<1>2. CASE OneWayTag \/ HighwayTag \/ OtherTag
  <2>1. UNCHANGED <<blocks, keys, b, tables>> /\ block' = block /\ AtWay /\ InBlock'
    BY <1>2, TagStep
  <2>2. InBlock
    BY <2>1 DEF AtWay
  <2> QED BY <2>1, <2>2 DEF TablesInv, tables
<1>3. CASE EndWay
  <2>1. UNCHANGED <<blocks, keys, b, tables>> /\ block' = block /\ AtWay /\ InBlock'
    BY <1>3, WayEnds
  <2>2. InBlock
    BY <2>1 DEF AtWay
  <2> QED BY <2>1, <2>2 DEF TablesInv, tables
<1>4. CASE UNCHANGED vars
  BY <1>4 DEF vars, input, tables, TablesInv, InBlock, block
<1> QED BY <1>1, <1>2, <1>3, <1>4 DEF Next

-----------------------------------------------------------------------------
(* The tags of a way.                                                      *)

LEMMA WayInit == Init => WayInv
BY DEF Init, WayInv, AtWay, InBlock, OneWayStatus

\* A way that has just begun.
LEMMA WayBegins ==
  ASSUME t' = 0, process' = FALSE, ows' = "OW_IMPLICIT", storedKv' = EmptyKv
  PROVE  WayInv'
<1>1. 1..t' = {} /\ DOMAIN storedKv' = {}
  BY DEF EmptyKv
<1>2. StoredTagsAreOfThisWay'
  BY <1>1 DEF StoredTagsAreOfThisWay
<1>3. TagsRead'
  BY <1>1 DEF TagsRead
<1> QED BY <1>2, <1>3 DEF WayInv, OneWayStatus

\* What StoreTag does, and what it leaves alone.
LEMMA Stored ==
  ASSUME PlaceInv, TablesInv, AtWay, StoredTagsAreOfThisWay, t + 1 \in 1..Len(way.tags),
         StoreTag, way' = way, t' = t + 1
  PROVE  /\ StoredTagsAreOfThisWay'
         /\ Tag.key \in keys => Tag.key \in DOMAIN storedKv' /\ storedKv'[Tag.key] = Tag.value
         /\ \A key \in DOMAIN storedKv : key # Tag.key =>
              key \in DOMAIN storedKv' /\ storedKv'[key] = storedKv[key]
<1>0. /\ t \in Nat /\ Tag = way.tags[t + 1] /\ Tag = [key |-> Tag.key, value |-> Tag.value]
      /\ \A k \in 1..t : k \in 1..t'
  <2>1. t \in Nat /\ t + 1 \in DOMAIN way.tags
    BY AtWayFacts
  <2>2. \A m \in DOMAIN way.tags :
          way.tags[m] = [key |-> way.tags[m].key, value |-> way.tags[m].value]
    BY AtWayFacts
  <2>3. way.tags[t + 1] = [key |-> way.tags[t + 1].key, value |-> way.tags[t + 1].value]
    BY <2>1, <2>2
  <2>4. \A k \in 1..t : k \in 1..t'
    BY <2>1
  <2> QED BY <2>1, <2>3, <2>4 DEF Tag
<1>1. CASE keyId(t + 1) \in keysToStore
  <2>1. storedKv' = [k \in DOMAIN storedKv \cup {Tag.key} |->
                       IF k = Tag.key THEN Tag.value ELSE storedKv[k]]
    BY <1>1 DEF StoreTag
  <2>2. /\ DOMAIN storedKv' = DOMAIN storedKv \cup {Tag.key} /\ storedKv'[Tag.key] = Tag.value
        /\ \A key \in DOMAIN storedKv : key # Tag.key => storedKv'[key] = storedKv[key]
    BY <2>1
  <2>3. ASSUME NEW key \in DOMAIN storedKv'
        PROVE  \E k \in 1..t' : way.tags[k] = [key |-> key, value |-> storedKv'[key]]
    <3>1. CASE key = Tag.key
      <4>1. way.tags[t + 1] = [key |-> key, value |-> storedKv'[key]] /\ t + 1 \in 1..t'
        BY <1>0, <2>2, <3>1
      <4> QED BY <4>1
    <3>2. CASE key # Tag.key
      <4>1. key \in DOMAIN storedKv /\ storedKv'[key] = storedKv[key]
        BY <2>2, <2>3, <3>2
      <4>2. PICK k \in 1..t : way.tags[k] = [key |-> key, value |-> storedKv[key]]
        BY <4>1 DEF StoredTagsAreOfThisWay
      <4> QED BY <1>0, <4>1, <4>2
    <3> QED BY <3>1, <3>2
  <2>4. StoredTagsAreOfThisWay'
    BY <2>3 DEF StoredTagsAreOfThisWay
  <2> QED BY <2>2, <2>4
<1>2. CASE keyId(t + 1) \notin keysToStore
  <2>1. storedKv' = storedKv
    BY <1>2 DEF StoreTag
  <2>2. Tag.key \notin keys
    BY <1>0, <1>2, TagHere
  <2>3. StoredTagsAreOfThisWay'
    BY <1>0, <2>1 DEF StoredTagsAreOfThisWay
  <2> QED BY <2>1, <2>2, <2>3
<1> QED BY <1>1, <1>2

\* One more tag is understood.
LEMMA OneMoreTag ==
  ASSUME PlaceInv, TablesInv, WayInv, OneWayTag \/ HighwayTag \/ OtherTag, t' = t + 1, StoreTag,
         way.tags[t + 1].key # "oneway" => ows' = ows,
         way.tags[t + 1].key # "highway" => process' = process /\ hwType' = hwType,
         keys' = keys, NEW tag, tag = way.tags[t + 1], Understood(tag)',
         process' => process \/ way.tags[t + 1].key = "highway"
  PROVE  StoredTagsAreOfThisWay' /\ TagsRead'
<1> DEFINE tags == way.tags
<1>1. /\ AtWay /\ AtWay' /\ way' = way /\ t < Len(tags) /\ t + 1 \in 1..Len(tags) /\ Tag = tags[t + 1]
  BY TagStep
<1>2. t \in Nat /\ Len(tags) \in Nat /\ DOMAIN tags = 1..Len(tags)
      /\ \A j, m \in DOMAIN tags : tags[j].key = tags[m].key => j = m
  BY <1>1, AtWayFacts
<1>3. StoredTagsAreOfThisWay /\ TagsRead
  BY <1>1, <1>2 DEF WayInv, GivenUp
<1>4. /\ StoredTagsAreOfThisWay'
      /\ \A key \in DOMAIN storedKv : key # Tag.key =>
           key \in DOMAIN storedKv' /\ storedKv'[key] = storedKv[key]
  BY <1>1, <1>3, Stored
<1>5. ASSUME NEW k \in 1..t, NEW x, x = tags[k] PROVE Understood(x)'
  <2>1. k # t + 1 /\ k \in DOMAIN tags /\ t + 1 \in DOMAIN tags
    BY <1>1, <1>2
  <2>2. tags[k].key # tags[t + 1].key
    BY <1>2, <2>1
  <2>3. Understood(x)
    BY <1>3, <1>5 DEF TagsRead
  <2>4. x.key = "oneway" => ows' = ows
    BY <1>5, <2>2
  <2>5. x.key = "highway" => process' = process /\ hwType' = hwType
    BY <1>5, <2>2
  <2>6. x.key \in keys => x.key \in DOMAIN storedKv' /\ storedKv'[x.key] = x.value
    BY <1>1, <1>4, <1>5, <2>2, <2>3 DEF Understood
  <2> QED BY <1>1, <2>3, <2>4, <2>5, <2>6 DEF Understood
<1>6. \A k \in 1..(t + 1) : k \in 1..t \/ k = t + 1
  BY <1>2
<1>7. \A k \in 1..t' : Understood(way.tags[k])'
  <2> SUFFICES ASSUME NEW k \in 1..(t + 1) PROVE Understood(way.tags[k])'
    OBVIOUS
  <2>1. PICK x : x = tags[k]
    OBVIOUS
  <2>2. way'.tags[k] = x
    BY <1>1, <2>1
  <2>3. Understood(x)'
    <3>1. CASE k = t + 1
      <4>1. x = tag
        BY <2>1, <3>1
      <4> QED BY <4>1
    <3>2. CASE k \in 1..t
      BY <1>5, <2>1, <3>2
    <3> QED BY <1>6, <3>1, <3>2
  <2> QED BY <2>2, <2>3 DEF Understood
<1>8. process' => \E k \in 1..t' : tags'[k].key = "highway"
  <2> SUFFICES ASSUME process' PROVE \E k \in 1..t' : tags[k].key = "highway"
    BY <1>1
  <2>1. CASE process
    <3>1. PICK k \in 1..t : tags[k].key = "highway"
      BY <1>3, <2>1 DEF TagsRead
    <3> QED BY <1>2, <3>1
  <2>2. CASE tags[t + 1].key = "highway"
    BY <1>2, <2>2
  <2> QED BY <2>1, <2>2
<1>9. (\A k \in 1..t' : tags'[k].key # "oneway") => ows' = "OW_IMPLICIT"
  <2> SUFFICES ASSUME \A k \in 1..t' : tags[k].key # "oneway" PROVE ows' = "OW_IMPLICIT"
    BY <1>1
  <2>1. tags[t + 1].key # "oneway" /\ \A k \in 1..t : tags[k].key # "oneway"
    BY <1>2
  <2> QED BY <1>3, <2>1 DEF TagsRead
<1> QED BY <1>1, <1>4, <1>7, <1>8, <1>9 DEF TagsRead

LEMMA WayStep == PlaceInv /\ TablesInv /\ WayInv /\ [Next]_vars => WayInv'
<1> SUFFICES ASSUME PlaceInv, TablesInv, WayInv, [Next]_vars PROVE WayInv'
  OBVIOUS
<1>1. CASE ParseBlock
  <2>1. t' = 0 /\ process' = FALSE /\ ows' = "OW_IMPLICIT" /\ storedKv' = storedKv /\ ~AtWay
    BY <1>1, NextBlock
  <2>2. storedKv' = EmptyKv
    BY <2>1 DEF WayInv
  <2> QED BY <2>1, <2>2, WayBegins
<1>2. CASE EndWay
  BY <1>2, WayEnds, WayBegins
<1>3. ASSUME OneWayTag \/ HighwayTag \/ OtherTag PROVE WayInv'
  <2>0. PICK tag : tag = way.tags[t + 1]
    OBVIOUS
  <2>1. /\ AtWay /\ AtWay' /\ way' = way /\ keys' = keys
        /\ t < Len(way.tags) /\ t + 1 \in 1..Len(way.tags) /\ Tag = tag
    BY <1>3, <2>0, TagStep
  <2>2. /\ keyId(t + 1) = onewayTagId <=> tag.key = "oneway"
        /\ keyId(t + 1) = highwayTagId <=> tag.key = "highway"
        /\ valueId(t + 1) \in DOMAIN strIdToHwId <=> tag.value \in DOMAIN HwTagIds
        /\ valueId(t + 1) \in DOMAIN strIdToHwId => strIdToHwId[valueId(t + 1)] = HwTagIds[tag.value]
    BY <2>0, <2>1, TagHere
  <2>3. t \in Nat /\ Len(way.tags) \in Nat /\ DOMAIN way.tags = 1..Len(way.tags)
        /\ \A j, m \in DOMAIN way.tags : way.tags[j].key = way.tags[m].key => j = m
    BY <2>1, AtWayFacts
  <2>4. StoredTagsAreOfThisWay /\ TagsRead /\ process \in BOOLEAN /\ ows \in OneWayStatus
    BY <2>1, <2>3 DEF WayInv, GivenUp
  <2>5. CASE OneWayTag
    <3>1. /\ ows' = IF toBool(Tag.value) THEN "OW_YES" ELSE "OW_NO"
          /\ StoreTag /\ t' = t + 1 /\ hwType' = hwType /\ process' = process /\ tag.key = "oneway"
      BY <2>2, <2>5 DEF OneWayTag
    <3>2. /\ tag.key \in keys => tag.key \in DOMAIN storedKv' /\ storedKv'[tag.key] = tag.value
      BY <2>1, <2>4, <3>1, Stored
    <3>3. Understood(tag)'
      BY <2>1, <3>1, <3>2 DEF Understood
    <3>4. StoredTagsAreOfThisWay' /\ TagsRead'
      BY <1>3, <2>0, <2>1, <3>1, <3>3, OneMoreTag
    <3> QED BY <2>1, <2>4, <3>1, <3>4 DEF WayInv, OneWayStatus
  <2>6. CASE HighwayTag
    <3>1. tag.key = "highway" /\ ows' = ows
      BY <2>2, <2>6 DEF HighwayTag
    <3>2. CASE valueId(t + 1) \in DOMAIN strIdToHwId /\ Len(way.refs) > 1
      <4>1. /\ hwType' = HwTagIds[tag.value] /\ process' = TRUE /\ StoreTag /\ t' = t + 1
            /\ tag.value \in DOMAIN HwTagIds
        BY <2>2, <2>6, <3>2 DEF HighwayTag
      <4>2. /\ tag.key \in keys => tag.key \in DOMAIN storedKv' /\ storedKv'[tag.key] = tag.value
        BY <2>1, <2>4, <4>1, Stored
      <4>3. Understood(tag)'
        BY <2>1, <3>1, <3>2, <4>1, <4>2 DEF Understood
      <4>4. StoredTagsAreOfThisWay' /\ TagsRead'
        BY <1>3, <2>0, <2>1, <3>1, <4>1, <4>3, OneMoreTag
      <4> QED BY <2>1, <2>4, <3>1, <4>1, <4>4 DEF WayInv
    <3>3. CASE ~(valueId(t + 1) \in DOMAIN strIdToHwId /\ Len(way.refs) > 1)
      <4>1. t' = Len(way.tags) /\ process' = process /\ storedKv' = storedKv
        BY <2>6, <3>3 DEF HighwayTag
      <4>2. ~process
        <5> SUFFICES ASSUME process PROVE FALSE
          OBVIOUS
        <5>1. PICK k \in 1..t : way.tags[k].key = "highway"
          BY <2>4 DEF TagsRead
        <5>2. k \in DOMAIN way.tags /\ t + 1 \in DOMAIN way.tags /\ k # t + 1
          BY <2>1, <2>3
        <5> QED BY <2>0, <2>3, <3>1, <5>1, <5>2
      <4>3. ValueOf(way, "highway") = tag.value
        BY <2>0, <2>1, <2>3, <3>1, ValueOfTag
      <4>4. ~Accepted(Meaning(way))
        BY <2>2, <3>3, <4>3, MeaningIs
      <4>5. GivenUp'
        BY <2>1, <4>1, <4>2, <4>4 DEF GivenUp, Meaning, ValueOf, Accepted
      <4>6. StoredTagsAreOfThisWay'
        <5>1. \A k \in 1..t : k \in 1..t'
          BY <2>1, <2>3, <4>1
        <5> QED BY <2>1, <2>4, <4>1, <5>1 DEF StoredTagsAreOfThisWay
      <4> QED BY <2>1, <2>4, <3>1, <4>1, <4>5, <4>6 DEF WayInv
    <3> QED BY <3>2, <3>3
  <2>7. CASE OtherTag
    <3>1. StoreTag /\ t' = t + 1 /\ UNCHANGED found /\ tag.key # "oneway" /\ tag.key # "highway"
      BY <2>2, <2>7 DEF OtherTag
    <3>2. ows' = ows /\ hwType' = hwType /\ process' = process
      BY <3>1 DEF found
    <3>3. tag.key \in keys => tag.key \in DOMAIN storedKv' /\ storedKv'[tag.key] = tag.value
      BY <2>1, <2>4, <3>1, Stored
    <3>4. Understood(tag)'
      BY <2>1, <3>1, <3>3 DEF Understood
    <3>5. StoredTagsAreOfThisWay' /\ TagsRead'
      BY <1>3, <2>0, <2>1, <3>1, <3>2, <3>4, OneMoreTag
    <3> QED BY <2>1, <2>4, <3>2, <3>5 DEF WayInv
  <2> QED BY <1>3, <2>5, <2>6, <2>7
<1>4. CASE UNCHANGED vars
  BY <1>4 DEF vars, input, tables, found, WayInv, AtWay, InBlock, block, way, GivenUp, TagsRead, Understood,
              StoredTagsAreOfThisWay
<1> QED BY <1>1, <1>2, <1>3, <1>4 DEF Next

-----------------------------------------------------------------------------
(* The calls.                                                              *)

\* A way whose tags have all been read is accepted if process says so, and
\* then all is known of it that its call needs.
LEMMA AllTagsRead ==
  ASSUME PlaceInv, WayInv, AtWay, t = Len(way.tags)
  PROVE  /\ process <=> Accepted(Meaning(way))
         /\ process => Fits([ows |-> ows, hwType |-> hwType, storedKv |-> storedKv, way |-> way], way)
         /\ StoredOf(storedKv, way)
<1> DEFINE tags == way.tags
<1>1. /\ Len(tags) \in Nat /\ DOMAIN tags = 1..Len(tags) /\ DOMAIN tags = 1..t
      /\ \A m \in DOMAIN tags : tags[m].key # NoTag /\ tags[m].value # NoTag
      /\ \A j, m \in DOMAIN tags : tags[j].key = tags[m].key => j = m
  BY AtWayFacts
<1>2. StoredTagsAreOfThisWay /\ (GivenUp \/ TagsRead) /\ process \in BOOLEAN
  BY DEF WayInv
<1>3. StoredOf(storedKv, way)
  BY <1>1, <1>2 DEF StoredTagsAreOfThisWay, StoredOf
<1>4. \A key : /\ \A k \in DOMAIN tags : tags[k].key = key => ValueOf(way, key) = tags[k].value
               /\ (\A k \in DOMAIN tags : tags[k].key # key) => ValueOf(way, key) = NoTag
  BY <1>1, ValueOfTag
<1>5. CASE GivenUp
  BY <1>3, <1>5 DEF GivenUp
<1>6. CASE TagsRead
  <2>1. \A k \in DOMAIN tags : Understood(tags[k])
    BY <1>1, <1>6 DEF TagsRead
  <2>2. ASSUME process
        PROVE  /\ Accepted(Meaning(way)) /\ hwType = HwType(Meaning(way))
    <3>1. PICK k \in DOMAIN tags : tags[k].key = "highway"
      BY <1>1, <1>6, <2>2 DEF TagsRead
    <3>2. /\ tags[k].value \in DOMAIN HwTagIds /\ Len(way.refs) > 1 /\ hwType = HwTagIds[tags[k].value]
      BY <2>1, <3>1 DEF Understood
    <3>3. ValueOf(way, "highway") = tags[k].value
      BY <1>4, <3>1
    <3> QED BY <3>2, <3>3, MeaningIs
  <2>3. ASSUME Accepted(Meaning(way)) PROVE process
    <3>1. ValueOf(way, "highway") \in DOMAIN HwTagIds
      BY <2>3, MeaningIs
    <3>2. ValueOf(way, "highway") # NoTag
      BY <3>1, ParserAssumption
    <3>3. PICK k \in DOMAIN tags : tags[k].key = "highway"
      BY <1>4, <3>2
    <3> QED BY <2>1, <3>3 DEF Understood
  <2>4. ows = Ows(Meaning(way))
    <3>1. CASE \E k \in DOMAIN tags : tags[k].key = "oneway"
      <4>1. PICK k \in DOMAIN tags : tags[k].key = "oneway"
        BY <3>1
      <4>2. ows = IF toBool(tags[k].value) THEN "OW_YES" ELSE "OW_NO"
        BY <2>1, <4>1 DEF Understood
      <4>3. ValueOf(way, "oneway") = tags[k].value /\ tags[k].value # NoTag
        BY <1>1, <1>4, <4>1
      <4> QED BY <4>2, <4>3, MeaningIs
    <3>2. CASE \A k \in DOMAIN tags : tags[k].key # "oneway"
      <4>1. ows = "OW_IMPLICIT"
        BY <1>1, <1>6, <3>2 DEF TagsRead
      <4>2. ValueOf(way, "oneway") = NoTag
        BY <1>4, <3>2
      <4> QED BY <4>1, <4>2, MeaningIs
    <3> QED BY <3>1, <3>2
  <2>5. ASSUME NEW key \in keys
        PROVE  ValueOf(way, key) = IF key \in DOMAIN storedKv THEN storedKv[key] ELSE NoTag
    <3>1. CASE \E k \in DOMAIN tags : tags[k].key = key
      <4>1. PICK k \in DOMAIN tags : tags[k].key = key
        BY <3>1
      <4>2. key \in DOMAIN storedKv /\ storedKv[key] = tags[k].value
        BY <2>1, <4>1 DEF Understood
      <4> QED BY <1>4, <4>1, <4>2
    <3>2. CASE \A k \in DOMAIN tags : tags[k].key # key
      <4>1. key \notin DOMAIN storedKv
        <5> SUFFICES ASSUME key \in DOMAIN storedKv PROVE FALSE
          OBVIOUS
        <5>1. PICK k \in DOMAIN tags : tags[k] = [key |-> key, value |-> storedKv[key]]
          BY <1>3 DEF StoredOf
        <5>2. tags[k].key = key
          BY <5>1
        <5> QED BY <3>2, <5>2
      <4> QED BY <1>4, <3>2, <4>1
    <3> QED BY <3>1, <3>2
  <2> QED BY <1>2, <1>3, <2>2, <2>3, <2>4, <2>5 DEF Fits
<1> QED BY <1>2, <1>5, <1>6

LEMMA BeforeIs ==
  ASSUME NEW k, NEW n, NEW p
  PROVE  p \in AcceptedBefore(k, n) <=>
           \E j \in 1..k : \E m \in DOMAIN blocks[j].ways :
             p = <<j, m>> /\ (j < k \/ m < n) /\ Accepted(Meaning(blocks[j].ways[m]))
<1>1. ASSUME NEW j \in 1..k, NEW m \in DOMAIN blocks[j].ways, p = <<j, m>>
      PROVE  /\ p \in UNION {{i} \X DOMAIN blocks[i].ways : i \in 1..k}
             /\ p[1] = j /\ p[2] = m /\ WayAt(p) = blocks[j].ways[m]
  BY <1>1 DEF WayAt
<1>2. ASSUME p \in UNION {{i} \X DOMAIN blocks[i].ways : i \in 1..k}
      PROVE  \E j \in 1..k : \E m \in DOMAIN blocks[j].ways : p = <<j, m>>
  <2>1. PICK j \in 1..k : p \in {j} \X DOMAIN blocks[j].ways
    BY <1>2
  <2>2. p[2] \in DOMAIN blocks[j].ways /\ p = <<j, p[2]>>
    BY <2>1
  <2> QED BY <2>2
<1> QED BY <1>1, <1>2 DEF AcceptedBefore

LEMMA OneMoreWay ==
  ASSUME blocks \in Inputs, NEW k \in DOMAIN blocks, NEW n \in DOMAIN blocks[k].ways
  PROVE  /\ <<k, n>> \notin AcceptedBefore(k, n)
         /\ AcceptedBefore(k, n + 1) = IF Accepted(Meaning(blocks[k].ways[n]))
                                         THEN AcceptedBefore(k, n) \cup {<<k, n>>}
                                         ELSE AcceptedBefore(k, n)
<1>1. /\ k \in Nat /\ k \in 1..k /\ n \in Nat /\ \A j \in 1..k : j \in DOMAIN blocks
      /\ \A j \in 1..k : DOMAIN blocks[j].ways \subseteq Nat
  <2>1. k \in 1..Len(blocks) /\ Len(blocks) \in Nat /\ DOMAIN blocks = 1..Len(blocks)
    BY InputType
  <2>2. \A j \in 1..k : j \in DOMAIN blocks
    BY <2>1
  <2>3. \A j \in 1..k : DOMAIN blocks[j].ways = 1..Len(blocks[j].ways) /\ Len(blocks[j].ways) \in Nat
    BY <2>2, InputType
  <2>4. k \in 1..k /\ k \in Nat
    BY <2>1
  <2>5. DOMAIN blocks[k].ways \subseteq Nat
    BY <2>3, <2>4
  <2> QED BY <2>2, <2>3, <2>4, <2>5
<1>2. <<k, n>> \notin AcceptedBefore(k, n)
  <2> SUFFICES ASSUME <<k, n>> \in AcceptedBefore(k, n) PROVE FALSE
    OBVIOUS
  <2>1. PICK j \in 1..k : \E m \in DOMAIN blocks[j].ways : <<k, n>> = <<j, m>> /\ (j < k \/ m < n)
    BY BeforeIs
  <2>2. PICK m \in DOMAIN blocks[j].ways : <<k, n>> = <<j, m>> /\ (j < k \/ m < n)
    BY <2>1
  <2>3. j = k /\ m = n
    BY <2>2
  <2> QED BY <1>1, <2>2, <2>3
<1>3. ASSUME NEW p
      PROVE  p \in AcceptedBefore(k, n + 1) <=>
               p \in AcceptedBefore(k, n) \/ (p = <<k, n>> /\ Accepted(Meaning(blocks[k].ways[n])))
  <2>1. ASSUME p \in AcceptedBefore(k, n + 1), p \notin AcceptedBefore(k, n)
        PROVE  p = <<k, n>> /\ Accepted(Meaning(blocks[k].ways[n]))
    <3>1. PICK j \in 1..k : \E m \in DOMAIN blocks[j].ways :
            p = <<j, m>> /\ (j < k \/ m < n + 1) /\ Accepted(Meaning(blocks[j].ways[m]))
      BY <2>1, BeforeIs
    <3>2. PICK m \in DOMAIN blocks[j].ways :
            p = <<j, m>> /\ (j < k \/ m < n + 1) /\ Accepted(Meaning(blocks[j].ways[m]))
      BY <3>1
    <3>3. ~(j < k \/ m < n)
      BY <2>1, <3>2, BeforeIs
    <3>4. j = k /\ m = n
      BY <1>1, <3>2, <3>3
    <3> QED BY <3>2, <3>4
  <2>2. ASSUME p \in AcceptedBefore(k, n) PROVE p \in AcceptedBefore(k, n + 1)
    <3>1. PICK j \in 1..k : \E m \in DOMAIN blocks[j].ways :
            p = <<j, m>> /\ (j < k \/ m < n) /\ Accepted(Meaning(blocks[j].ways[m]))
      BY <2>2, BeforeIs
    <3>2. PICK m \in DOMAIN blocks[j].ways :
            p = <<j, m>> /\ (j < k \/ m < n) /\ Accepted(Meaning(blocks[j].ways[m]))
      BY <3>1
    <3>3. j < k \/ m < n + 1
      BY <1>1, <3>2
    <3> QED BY <3>2, <3>3, BeforeIs
  <2>3. ASSUME p = <<k, n>>, Accepted(Meaning(blocks[k].ways[n])) PROVE p \in AcceptedBefore(k, n + 1)
    BY <1>1, <2>3, BeforeIs
  <2> QED BY <2>1, <2>2, <2>3
<1> QED BY <1>2, <1>3

\* A block without the string highway has no accepted ways.
LEMMA NoHighway ==
  ASSUME blocks \in Inputs, NEW k \in DOMAIN blocks, NEW n \in DOMAIN blocks[k].ways,
         findString(blocks[k].strings, "highway") = 0
  PROVE  ~Accepted(Meaning(blocks[k].ways[n]))
<1> DEFINE strings == blocks[k].strings
<1>0. PICK v : v = blocks[k].ways[n]
  OBVIOUS
<1>1. strings \in Seq(STRING)
  BY InputType
<1>2. "highway" \notin Range(strings)
  BY <1>1, FindString
<1>3. \A m \in DOMAIN v.tags : v.tags[m].key \in Range(strings)
  BY <1>0, WayType
<1>4. \A j, m \in DOMAIN v.tags : v.tags[j].key = v.tags[m].key => j = m
  BY <1>0, WayType
<1>5. \A m \in DOMAIN v.tags : v.tags[m].key # "highway"
  BY <1>2, <1>3
<1>6. ValueOf(v, "highway") = NoTag
  BY <1>4, <1>5, ValueOfTag
<1> QED BY <1>0, <1>6, MeaningIs, ParserAssumption

\* All ways of a block are done when the next block begins.
LEMMA BlockDone ==
  ASSUME blocks \in Inputs, NEW k \in Nat, k + 1 \in DOMAIN blocks
  PROVE  AcceptedBefore(k + 1, 1) = IF k = 0 THEN {} ELSE AcceptedBefore(k, Len(blocks[k].ways) + 1)
<1>1. \A j \in 1..(k + 1) : /\ j \in DOMAIN blocks /\ Len(blocks[j].ways) \in Nat
                            /\ DOMAIN blocks[j].ways = 1..Len(blocks[j].ways)
  <2>1. DOMAIN blocks = 1..Len(blocks) /\ Len(blocks) \in Nat
    BY InputType
  <2>2. \A j \in 1..(k + 1) : j \in DOMAIN blocks
    BY <2>1
  <2> QED BY <2>2, InputType
<1>2. \A j \in 1..k : j \in 1..(k + 1)
  OBVIOUS
<1>3. ASSUME NEW p \in AcceptedBefore(k + 1, 1)
      PROVE  k # 0 /\ p \in AcceptedBefore(k, Len(blocks[k].ways) + 1)
  <2>1. PICK j \in 1..(k + 1) : \E m \in DOMAIN blocks[j].ways :
          p = <<j, m>> /\ (j < k + 1 \/ m < 1) /\ Accepted(Meaning(blocks[j].ways[m]))
    BY BeforeIs
  <2>2. PICK m \in DOMAIN blocks[j].ways :
          p = <<j, m>> /\ (j < k + 1 \/ m < 1) /\ Accepted(Meaning(blocks[j].ways[m]))
    BY <2>1
  <2>3. m \in 1..Len(blocks[j].ways) /\ Len(blocks[j].ways) \in Nat
    BY <1>1
  <2>4. j \in 1..k /\ k # 0
    BY <2>2, <2>3
  <2>5. j < k \/ m < Len(blocks[k].ways) + 1
    BY <2>3, <2>4
  <2> QED BY <2>2, <2>4, <2>5, BeforeIs
<1>4. ASSUME NEW p \in AcceptedBefore(k, Len(blocks[k].ways) + 1) PROVE p \in AcceptedBefore(k + 1, 1)
  <2>1. PICK j \in 1..k : \E m \in DOMAIN blocks[j].ways :
          p = <<j, m>> /\ Accepted(Meaning(blocks[j].ways[m]))
    BY BeforeIs
  <2>2. PICK m \in DOMAIN blocks[j].ways : p = <<j, m>> /\ Accepted(Meaning(blocks[j].ways[m]))
    BY <2>1
  <2>3. j \in 1..(k + 1) /\ j < k + 1
    OBVIOUS
  <2> QED BY <2>2, <2>3, BeforeIs
<1> QED BY <1>3, <1>4

LEMMA SkippedBlock ==
  ASSUME blocks \in Inputs, NEW k \in DOMAIN blocks, findString(blocks[k].strings, "highway") = 0
  PROVE  AcceptedBefore(k, Len(blocks[k].ways) + 1) = AcceptedBefore(k, 1)
<1>1. /\ k \in Nat /\ Len(blocks[k].ways) \in Nat /\ DOMAIN blocks[k].ways = 1..Len(blocks[k].ways)
  BY InputType
<1>2. ASSUME NEW p, NEW n \in Nat, NEW q \in Nat, q > 0, p \in AcceptedBefore(k, n)
      PROVE  p \in AcceptedBefore(k, q)
  <2>1. PICK j \in 1..k : \E m \in DOMAIN blocks[j].ways :
          p = <<j, m>> /\ Accepted(Meaning(blocks[j].ways[m]))
    BY <1>2, BeforeIs
  <2>2. PICK m \in DOMAIN blocks[j].ways : p = <<j, m>> /\ Accepted(Meaning(blocks[j].ways[m]))
    BY <2>1
  <2>3. j # k
    BY <2>2, NoHighway
  <2>4. j \in Nat /\ j <= k
    BY <1>1
  <2>5. j < k
    BY <1>1, <2>3, <2>4
  <2> QED BY <2>2, <2>5, BeforeIs
<1>3. Len(blocks[k].ways) + 1 \in Nat /\ Len(blocks[k].ways) + 1 > 0
  BY <1>1
<1>4. \A p : p \in AcceptedBefore(k, Len(blocks[k].ways) + 1) <=> p \in AcceptedBefore(k, 1)
  BY <1>2, <1>3
<1> QED BY <1>4

LEMMA CallsInit == Init => CallsInv
<1> SUFFICES ASSUME Init PROVE CallsInv
  OBVIOUS
<1>1. calls = << >> /\ b = 0
  BY DEF Init
<1>2. Done = {}
  BY <1>1 DEF Done
<1>3. IsFiniteSet({}) /\ Cardinality({}) = 0
  BY FS_EmptySet
<1> QED BY <1>1, <1>2, <1>3 DEF CallsInv

\* A call stays the call of its way.
LEMMA CallsKept ==
  ASSUME CallsInv, blocks' = blocks, keys' = keys,
         NEW p \in Done, CallFor(p)' = CallFor(p)
  PROVE  /\ CallNumber(p)' = CallNumber(p)
         /\ Fits(CallFor(p), WayAt(p))' /\ StoredOf(CallFor(p).storedKv, WayAt(p))'
<1>1. AcceptedBefore(p[1], p[2])' = AcceptedBefore(p[1], p[2]) /\ WayAt(p)' = WayAt(p)
  BY DEF AcceptedBefore, WayAt
<1>2. CallNumber(p)' = CallNumber(p)
  BY <1>1 DEF CallNumber
<1>3. PICK c, v : c = CallFor(p) /\ v = WayAt(p)
  OBVIOUS
<1>4. Fits(c, v) /\ StoredOf(c.storedKv, v)
  BY <1>3 DEF CallsInv
<1>5. Fits(c, v)' /\ StoredOf(c.storedKv, v)'
  BY <1>4 DEF Fits, StoredOf
<1> QED BY <1>1, <1>2, <1>3, <1>5 DEF Fits, StoredOf

LEMMA CallsStill ==
  ASSUME CallsInv, blocks' = blocks, keys' = keys, Done' = Done, calls' = calls
  PROVE  CallsInv'
<1>1. ASSUME NEW p \in Done
      PROVE  /\ CallNumber(p)' \in 1..Len(calls')
             /\ Fits(CallFor(p), WayAt(p))' /\ StoredOf(CallFor(p).storedKv, WayAt(p))'
  <2>1. AcceptedBefore(p[1], p[2])' = AcceptedBefore(p[1], p[2])
    BY DEF AcceptedBefore, WayAt
  <2>2. CallFor(p)' = CallFor(p)
    BY <2>1 DEF CallFor, CallNumber
  <2> QED BY <2>2, CallsKept DEF CallsInv
<1> QED BY <1>1 DEF CallsInv

LEMMA CallsStep == PlaceInv /\ TablesInv /\ WayInv /\ CallsInv /\ [Next]_vars => CallsInv'
<1> SUFFICES ASSUME PlaceInv, TablesInv, WayInv, CallsInv, [Next]_vars PROVE CallsInv'
  OBVIOUS
<1>0. blocks \in Inputs /\ b \in 0..Len(blocks)
  BY DEF PlaceInv
<1>1. CASE ParseBlock
  <2>1. /\ b \in Nat /\ b' = b + 1 /\ b + 1 \in DOMAIN blocks /\ blocks' = blocks /\ keys' = keys
        /\ block' = blocks[b + 1] /\ w' = 1 /\ calls' = calls /\ ~AtWay
        /\ highwayTagId' = findString(blocks[b + 1].strings, "highway")
    BY <1>1, NextBlock
  <2>2. PICK k \in Nat : k = b /\ k + 1 \in DOMAIN blocks
    BY <2>1
  <2>3. \A n : AcceptedBefore(k + 1, n)' = AcceptedBefore(k + 1, n)
    BY <2>1 DEF AcceptedBefore, WayAt
  <2>4. Done' = AcceptedBefore(k + 1, 1)
    <3>1. b' # 0 /\ b' = k + 1
      BY <2>1, <2>2
    <3>2. CASE InBlock'
      BY <2>1, <2>3, <3>1, <3>2 DEF Done
    <3>3. CASE ~InBlock'
      <4>1. findString(blocks[k + 1].strings, "highway") = 0
        BY <2>1, <2>2, <3>3 DEF InBlock
      <4>2. AcceptedBefore(k + 1, Len(blocks[k + 1].ways) + 1) = AcceptedBefore(k + 1, 1)
        BY <1>0, <2>2, <4>1, SkippedBlock
      <4> QED BY <2>1, <2>2, <2>3, <3>1, <3>3, <4>2 DEF Done
    <3> QED BY <3>2, <3>3
  <2>5. Done = IF k = 0 THEN {} ELSE AcceptedBefore(k, Len(blocks[k].ways) + 1)
    <3>1. CASE k = 0
      BY <2>2, <3>1 DEF Done
    <3>2. CASE k # 0
      <4>1. b > 0 /\ block = blocks[k]
        BY <2>1, <2>2, <3>2 DEF block
      <4>2. InBlock => w = Len(block.ways) + 1
        <5>1. w \in 1..(Len(block.ways) + 1) /\ Len(block.ways) \in Nat
          BY <4>1, Here DEF PlaceInv
        <5> QED BY <2>1, <5>1 DEF AtWay
      <4> QED BY <2>2, <3>2, <4>1, <4>2 DEF Done
    <3> QED BY <3>1, <3>2
  <2>6. Done' = Done
    BY <1>0, <2>2, <2>4, <2>5, BlockDone
  <2> QED BY <2>1, <2>6, CallsStill
<1>2. CASE OneWayTag \/ HighwayTag \/ OtherTag
  <2>1. UNCHANGED <<blocks, keys, b, w, tables, calls>> /\ block' = block /\ AtWay /\ InBlock'
    BY <1>2, TagStep
  <2>2. Done' = Done
    BY <2>1 DEF Done, AcceptedBefore, WayAt, AtWay
  <2> QED BY <2>1, <2>2, CallsStill
<1>3. CASE EndWay
  <2>1. /\ AtWay /\ t = Len(way.tags) /\ UNCHANGED <<blocks, keys, b>> /\ block' = block
        /\ InBlock' /\ w' = w + 1
    BY <1>3, WayEnds
  <2>2. b > 0 /\ InBlock /\ b \in DOMAIN blocks /\ block = blocks[b] /\ w \in DOMAIN block.ways
        /\ way = block.ways[w]
    BY <2>1, AtWayFacts, Here
  <2>3. PICK k, n : k = b /\ n = w
    OBVIOUS
  <2>4. k \in DOMAIN blocks /\ n \in DOMAIN blocks[k].ways /\ way = blocks[k].ways[n]
    BY <2>2, <2>3
  <2> DEFINE p == <<k, n>>
             c == [ows |-> ows, hwType |-> hwType, storedKv |-> storedKv, way |-> way]
  <2>5. Done = AcceptedBefore(k, n)
    BY <2>2, <2>3 DEF Done
  <2>6. Done' = AcceptedBefore(k, n + 1)
    <3>1. Done' = AcceptedBefore(k, n + 1)'
      BY <2>1, <2>2, <2>3 DEF Done
    <3> QED BY <2>1, <3>1 DEF AcceptedBefore, WayAt
  <2>7. /\ p \notin Done
        /\ Done' = IF Accepted(Meaning(way)) THEN Done \cup {p} ELSE Done
    BY <1>0, <2>4, <2>5, <2>6, OneMoreWay
  <2>8. /\ process <=> Accepted(Meaning(way))
        /\ process => Fits(c, way) /\ StoredOf(storedKv, way)
    BY <2>1, AllTagsRead
  <2>9. CASE ~process
    <3>1. calls' = calls
      BY <1>3, <2>9 DEF EndWay
    <3> QED BY <2>1, <2>7, <2>8, <2>9, <3>1, CallsStill
  <2>10. CASE process
    <3>1. calls' = Append(calls, c)
      BY <1>3, <2>10 DEF EndWay
    <3>2. Done' = Done \cup {p}
      BY <2>7, <2>8, <2>10
    <3>3. /\ calls \in Seq({calls[m] : m \in DOMAIN calls}) /\ IsFiniteSet(Done)
          /\ Len(calls) = Cardinality(Done)
      BY DEF CallsInv
    <3>4. /\ IsFiniteSet(Done') /\ Cardinality(Done') = Len(calls) + 1
      BY <2>7, <3>2, <3>3, FS_AddElement
    <3>5. /\ Len(calls) \in Nat /\ DOMAIN calls = 1..Len(calls)
          /\ Len(calls') = Len(calls) + 1 /\ DOMAIN calls' = 1..(Len(calls) + 1)
          /\ \A m \in 1..Len(calls) : calls'[m] = calls[m]
          /\ calls'[Len(calls) + 1] = c
      <4> DEFINE S == {calls[m] : m \in DOMAIN calls}
      <4>1. calls \in Seq(S \cup {c})
        <5>1. calls \in Seq(S)
          BY <3>3
        <5> HIDE DEF S
        <5>2. Len(calls) \in Nat /\ calls \in [1..Len(calls) -> S]
          BY <5>1
        <5>3. calls \in [1..Len(calls) -> S \cup {c}]
          BY <5>2
        <5> QED BY <5>2, <5>3
      <4> HIDE DEF S, c
      <4> QED BY <3>1, <4>1
    <3>6. calls' \in Seq({calls'[m] : m \in DOMAIN calls'})
      <4> DEFINE S == {calls'[m] : m \in DOMAIN calls'}
      <4>1. \A m \in 1..Len(calls') : calls'[m] \in S
        BY <3>5
      <4>2. calls' = [m \in 1..Len(calls') |-> calls'[m]]
        <5>1. calls' = [m \in DOMAIN calls' |-> calls'[m]]
          <6>1. calls \in Seq({calls[m] : m \in DOMAIN calls} \cup {c})
            <7> DEFINE T == {calls[m] : m \in DOMAIN calls}
            <7>1. calls \in Seq(T)
              BY <3>3
            <7> HIDE DEF T
            <7>2. Len(calls) \in Nat /\ calls \in [1..Len(calls) -> T \cup {c}]
              BY <7>1
            <7>3. calls \in Seq(T \cup {c})
              BY <7>2
            <7> QED BY <7>3 DEF T
          <6> HIDE DEF c
          <6>2. calls' \in Seq({calls[m] : m \in DOMAIN calls} \cup {c})
            BY <3>1, <6>1
          <6> QED BY <6>2
        <5> QED BY <3>5, <5>1
      <4>3. Len(calls') \in Nat
        BY <3>5
      <4> HIDE DEF S
      <4>4. calls' \in [1..Len(calls') -> S]
        BY <4>1, <4>2
      <4>5. calls' \in Seq(S)
        BY <4>3, <4>4
      <4> QED BY <4>5 DEF S
    <3>7. ASSUME NEW q \in Done
          PROVE  /\ CallNumber(q)' \in 1..Len(calls')
                 /\ Fits(CallFor(q), WayAt(q))' /\ StoredOf(CallFor(q).storedKv, WayAt(q))'
      <4>1. CallNumber(q) \in 1..Len(calls)
        BY DEF CallsInv
      <4>2. AcceptedBefore(q[1], q[2])' = AcceptedBefore(q[1], q[2])
        BY <2>1 DEF AcceptedBefore, WayAt
      <4>3. CallNumber(q)' = CallNumber(q)
        BY <4>2 DEF CallNumber
      <4>4. CallFor(q)' = CallFor(q)
        BY <3>5, <4>1, <4>3 DEF CallFor
      <4>5. CallNumber(q)' \in 1..Len(calls')
        BY <3>5, <4>1, <4>3
      <4> QED BY <2>1, <4>4, <4>5, CallsKept
    <3>8. /\ CallNumber(p)' \in 1..Len(calls')
          /\ Fits(CallFor(p), WayAt(p))' /\ StoredOf(CallFor(p).storedKv, WayAt(p))'
      <4>0. p[1] = k /\ p[2] = n
        OBVIOUS
      <4> HIDE DEF p, c
      <4>1. AcceptedBefore(p[1], p[2])' = Done
        BY <2>1, <2>5, <4>0 DEF AcceptedBefore, WayAt
      <4>2. CallNumber(p)' = Len(calls) + 1
        BY <3>3, <4>1 DEF CallNumber
      <4>3. CallFor(p)' = c
        BY <3>5, <4>2 DEF CallFor
      <4>4. WayAt(p)' = way
        BY <2>1, <2>4, <4>0 DEF WayAt
      <4>5. PICK d, v : d = c /\ v = way
        OBVIOUS
      <4>6. Fits(d, v) /\ StoredOf(d.storedKv, v)
        BY <2>8, <2>10, <4>5 DEF c
      <4>7. Fits(d, v)' /\ StoredOf(d.storedKv, v)'
        BY <2>1, <4>6 DEF Fits, StoredOf
      <4>8. CallNumber(p)' \in 1..Len(calls')
        BY <3>5, <4>2
      <4> QED BY <4>3, <4>4, <4>5, <4>7, <4>8 DEF Fits, StoredOf
    <3> HIDE DEF p
    <3> QED BY <3>2, <3>4, <3>5, <3>6, <3>7, <3>8 DEF CallsInv
  <2> QED BY <2>9, <2>10, <2>8
<1>4. CASE UNCHANGED vars
  <2>1. UNCHANGED <<blocks, keys, b, w, highwayTagId, calls>>
    BY <1>4 DEF vars, input, tables
  <2>2. Done' = Done
    BY <2>1 DEF Done, AcceptedBefore, WayAt, InBlock, block
  <2> QED BY <2>1, <2>2, CallsStill
<1> QED BY <1>1, <1>2, <1>3, <1>4 DEF Next

-----------------------------------------------------------------------------
(* The theorems.                                                           *)

ParserInv == PlaceInv /\ TablesInv /\ WayInv /\ CallsInv

\* The inductive invariant: the parser is within the blocks, the indices it
\* compares with are those of the block at hand, it has understood the tags it
\* has read, and it has handed over the ways it is done with.
THEOREM ParserInvariant == Spec => []ParserInv
<1>1. Init => ParserInv
  BY PlaceInit, TablesInit, WayInit, CallsInit DEF ParserInv
<1>2. ParserInv /\ [Next]_vars => ParserInv'
  BY PlaceStep, TablesStep, WayStep, CallsStep DEF ParserInv
<1> QED BY <1>1, <1>2, PTL DEF Spec

LEMMA InvImpliesTypeOK == ParserInv => TypeOK
<1> SUFFICES ASSUME ParserInv PROVE TypeOK
  OBVIOUS
<1>0. PlaceInv /\ TablesInv /\ WayInv
  BY DEF ParserInv
<1>1. b \in 0..Len(blocks) /\ (b > 0 => w \in 1..(Len(block.ways) + 1))
  BY <1>0 DEF PlaceInv
<1>2. ASSUME b > 0 PROVE t \in 0..(IF w <= Len(block.ways) THEN Len(way.tags) ELSE 0)
  <2>1. CASE AtWay
    BY <1>0, <2>1 DEF PlaceInv, AtWay
  <2>2. CASE ~AtWay
    <3>1. t = 0 /\ w \in Nat
      BY <1>0, <1>2, <2>2, Here DEF PlaceInv
    <3>2. ASSUME w <= Len(block.ways) PROVE Len(way.tags) \in Nat
      <4>1. blocks \in Inputs /\ b \in DOMAIN blocks /\ w \in DOMAIN blocks[b].ways
        BY <1>0, <1>2, <3>2, Here DEF PlaceInv
      <4> QED BY <4>1, WayType DEF way, block
    <3> QED BY <3>1, <3>2
  <2> QED BY <2>1, <2>2
<1>3. /\ {highwayTagId, onewayTagId} \subseteq Nat /\ keysToStore \subseteq Nat
      /\ \A i \in DOMAIN strIdToHwId : i \in Nat /\ strIdToHwId[i] \in Range(HwTagIds)
  BY <1>0 DEF TablesInv
<1>4. ows \in OneWayStatus /\ process \in BOOLEAN
  BY <1>0 DEF WayInv
<1>5. ASSUME process PROVE hwType \in Range(HwTagIds)
  <2>1. AtWay /\ TagsRead
    BY <1>0, <1>5 DEF WayInv, GivenUp
  <2>2. PICK k \in 1..t : way.tags[k].key = "highway"
    BY <1>5, <2>1 DEF TagsRead
  <2>3. Understood(way.tags[k])
    BY <2>1 DEF TagsRead
  <2>4. way.tags[k].value \in DOMAIN HwTagIds /\ hwType = HwTagIds[way.tags[k].value]
    BY <2>2, <2>3 DEF Understood
  <2> QED BY <2>4 DEF Range
<1> QED BY <1>1, <1>2, <1>3, <1>4, <1>5 DEF TypeOK

\* Blocks, ways and tags are never read outside what there is, and the type of a
\* way to be processed is a configured one.
THEOREM ParserTypeCorrect == Spec => []TypeOK
BY ParserInvariant, InvImpliesTypeOK, PTL

LEMMA InvImpliesStored == ParserInv => StoredTagsAreOfThisWay
<1> SUFFICES ASSUME ParserInv PROVE StoredTagsAreOfThisWay
  OBVIOUS
<1>1. WayInv
  BY DEF ParserInv
<1>2. CASE AtWay
  BY <1>1, <1>2 DEF WayInv
<1>3. CASE ~AtWay
  <2>1. storedKv = EmptyKv
    BY <1>1, <1>3 DEF WayInv
  <2>2. DOMAIN storedKv = {}
    BY <2>1 DEF EmptyKv
  <2> QED BY <2>2 DEF StoredTagsAreOfThisWay
<1> QED BY <1>2, <1>3

\* Although keysToStore keeps the indices of earlier blocks, what is stored is
\* always of the way at hand, for every input (Processors.h:165).
THEOREM NothingIsHandedOn == Spec => []StoredTagsAreOfThisWay
BY ParserInvariant, InvImpliesStored, PTL

LEMMA InvImpliesCalls == ParserInv => CallsMatchTags
BY DEF ParserInv, CallsInv, CallsMatchTags

\* For every sequence of blocks and whatever keys the processor asks for, it is
\* called for exactly the accepted ways, in their order, with what their tags
\* mean (Processors.h:150-197).
THEOREM CallsAreRight == Spec => []CallsMatchTags
BY ParserInvariant, InvImpliesCalls, PTL

-----------------------------------------------------------------------------
(* What becomes of the maxspeed tags.                                      *)

\* A finished way, and what FinalWayProcessor sees of it.
LEMMA FinishedWay ==
  ASSUME ParserInv, keys = {"maxspeed"}, NEW p \in Done,
         NEW c, c = CallFor(p), NEW v, v = WayAt(p)
  PROVE  /\ c.hwType = HwType(Meaning(v)) /\ HwType(Meaning(v)) \in Range(HwTagIds)
         /\ IF "maxspeed" \in DOMAIN c.storedKv
              THEN /\ c.storedKv["maxspeed"] \in DOMAIN Values /\ c.storedKv["maxspeed"] # NoTag
                   /\ ValueOf(v, "maxspeed") = c.storedKv["maxspeed"]
              ELSE ValueOf(v, "maxspeed") = NoTag
<1>1. Fits(c, v) /\ StoredOf(c.storedKv, v)
  BY DEF ParserInv, CallsInv
<1>2. PICK n : p \in AcceptedBefore(b, n)
  BY DEF Done
<1>3. PICK j \in 1..b : \E m \in DOMAIN blocks[j].ways :
        p = <<j, m>> /\ Accepted(Meaning(blocks[j].ways[m]))
  BY <1>2, BeforeIs
<1>4. PICK m \in DOMAIN blocks[j].ways : p = <<j, m>> /\ Accepted(Meaning(blocks[j].ways[m]))
  BY <1>3
<1>5. v = blocks[j].ways[m]
  BY <1>4 DEF WayAt
<1>6. blocks \in Inputs /\ j \in DOMAIN blocks
  <2>1. blocks \in Inputs /\ b \in 0..Len(blocks)
    BY DEF ParserInv, PlaceInv
  <2>2. Len(blocks) \in Nat /\ DOMAIN blocks = 1..Len(blocks)
    BY <2>1, InputType
  <2> QED BY <2>1, <2>2
<1>7. c.hwType = HwType(Meaning(v)) /\ HwType(Meaning(v)) \in Range(HwTagIds)
  <2>1. ValueOf(v, "highway") \in DOMAIN HwTagIds
    BY <1>4, <1>5, MeaningIs
  <2>2. HwType(Meaning(v)) \in Range(HwTagIds)
    BY <2>1, MeaningIs DEF Range
  <2> QED BY <1>1, <2>2 DEF Fits
<1>8. ValueOf(v, "maxspeed") = IF "maxspeed" \in DOMAIN c.storedKv THEN c.storedKv["maxspeed"] ELSE NoTag
  BY <1>1 DEF Fits
<1>9. ASSUME "maxspeed" \in DOMAIN c.storedKv
      PROVE  c.storedKv["maxspeed"] \in DOMAIN Values /\ c.storedKv["maxspeed"] # NoTag
  <2>1. PICK k \in DOMAIN v.tags : v.tags[k] = [key |-> "maxspeed", value |-> c.storedKv["maxspeed"]]
    BY <1>1, <1>9 DEF StoredOf
  <2>2. v.tags[k].key = "maxspeed" /\ v.tags[k].value = c.storedKv["maxspeed"]
    BY <2>1
  <2>3. v.tags[k].value \in DOMAIN Values
    BY <1>4, <1>5, <1>6, <2>2, EdgeWeightsAssumption
  <2>4. v.tags[k].value # NoTag
    BY <1>4, <1>5, <1>6, WayType
  <2> QED BY <2>2, <2>3, <2>4
<1> QED BY <1>7, <1>8, <1>9

LEMMA InvImpliesSpeeds == ParserInv => SpeedsMatchTags
<1> SUFFICES ASSUME ParserInv, keys = {"maxspeed"}, NEW p \in Done, ~ReadOtherwise(WayAt(p))
             PROVE  MaxSpeed(CallFor(p)) = SpeedFor(WayAt(p))
  BY DEF SpeedsMatchTags
<1>1. PICK c, v : c = CallFor(p) /\ v = WayAt(p)
  OBVIOUS
<1>2. /\ c.hwType = HwType(Meaning(v))
      /\ IF "maxspeed" \in DOMAIN c.storedKv
           THEN /\ c.storedKv["maxspeed"] \in DOMAIN Values /\ c.storedKv["maxspeed"] # NoTag
                /\ TagOf(v) = c.storedKv["maxspeed"]
           ELSE TagOf(v) = NoTag
  BY <1>1, FinishedWay DEF TagOf
<1>3. CASE "maxspeed" \in DOMAIN c.storedKv /\ Values[c.storedKv["maxspeed"]].number >= 0
  <2> DEFINE s == c.storedKv["maxspeed"]
  <2>1. s \in DOMAIN Values /\ TagOf(v) = s /\ s # NoTag /\ Values[s].number >= 0
    BY <1>2, <1>3
  <2>2. MaxSpeed(c) = IF ok(s) THEN parseMaxSpeed(s) ELSE maxSpeedFromType(c.hwType)
    BY <1>3 DEF MaxSpeed
  <2> HIDE DEF s
  <2>3. PICK number, unit, more :
          number = Values[s].number /\ unit = Values[s].unit /\ more = Values[s].more
    OBVIOUS
  <2>4. number \in Nat /\ unit \in {None, "kmh", "mph", "kph"} /\ more \in BOOLEAN
    BY <2>1, <2>3, EdgeWeightsAssumption
  <2>5. /\ unit # "kph" /\ ~(~more /\ unit = None) /\ ~(unit # None /\ more)
    BY <1>1, <2>1, <2>3, <2>4 DEF ReadOtherwise, Unitless, Trailing, IsSpeed
  <2>6. CASE more
    <3>1. unit = None /\ ~ok(s) /\ ~IsSpeed(s)
      BY <2>3, <2>5, <2>6 DEF ok, IsSpeed
    <3>2. SpeedFor(v) = TypeSpeed[HwType(Meaning(v))] \div 10
      BY <2>1, <3>1 DEF SpeedFor
    <3> QED BY <1>1, <1>2, <2>2, <3>1, <3>2 DEF maxSpeedFromType
  <2>7. CASE ~more
    <3>1. unit \in {"kmh", "mph"} /\ ok(s) /\ IsSpeed(s)
      BY <2>1, <2>3, <2>4, <2>5, <2>7 DEF ok, IsSpeed
    <3>2. SpeedFor(v) = InKmh(s)
      BY <2>1, <3>1 DEF SpeedFor
    <3>3. parseMaxSpeed(s) = (number * IF unit = "kmh" THEN 1000000 ELSE 1609344) \div 10000000
      BY <2>3, <2>7, <3>1, SMT DEF parseMaxSpeed, Factor
    <3>4. InKmh(s) = IF unit = "mph" THEN (number * 1609344) \div 10000000 ELSE number \div 10
      BY <2>3 DEF InKmh
    <3>5. (number * 1000000) \div 10000000 = number \div 10
      BY <2>4, SMT
    <3>6. parseMaxSpeed(s) = InKmh(s)
      BY <3>1, <3>3, <3>4, <3>5
    <3> QED BY <1>1, <2>2, <3>1, <3>2, <3>6
  <2> QED BY <2>4, <2>6, <2>7
<1>4. CASE ~("maxspeed" \in DOMAIN c.storedKv /\ Values[c.storedKv["maxspeed"]].number >= 0)
  <2>1. MaxSpeed(c) = TypeSpeed[HwType(Meaning(v))] \div 10
    BY <1>2, <1>4 DEF MaxSpeed, maxSpeedFromType, ok
  <2>2. ~(TagOf(v) # NoTag /\ IsSpeed(TagOf(v)))
    BY <1>2, <1>4 DEF IsSpeed
  <2>3. SpeedFor(v) = TypeSpeed[HwType(Meaning(v))] \div 10
    BY <2>2 DEF SpeedFor
  <2> QED BY <1>1, <2>1, <2>3
<1> QED BY <1>3, <1>4

\* For every input a way whose maxspeed tag is a number of km/h or of mph, with
\* nothing behind it, gets that speed on its edges, and one without a tag, or whose
\* tag has no number, the speed of its own type (Processors.h:336-342).  The numbers
\* of ReadOtherwise are not part of it: the program reads them against its documents.
THEOREM SpeedsAreRight == Spec => []SpeedsMatchTags
BY ParserInvariant, InvImpliesSpeeds, PTL

LEMMA InvImpliesWeights == ParserInv => WeightsAreDefined
<1> SUFFICES ASSUME ParserInv, keys = {"maxspeed"}, NEW p \in Done,
                    NEW c, c = CallFor(p), NEW v, v = WayAt(p), ~MaxSpeedDefined(c)
             PROVE  \/ TagOf(v) # NoTag /\ Values[TagOf(v)].number \in 0..9
                    \/ TypeSpeed[HwType(Meaning(v))] < 10
  BY DEF WeightsAreDefined
<1>1. /\ c.hwType = HwType(Meaning(v)) /\ HwType(Meaning(v)) \in Range(HwTagIds)
      /\ "maxspeed" \in DOMAIN c.storedKv =>
           /\ c.storedKv["maxspeed"] \in DOMAIN Values /\ c.storedKv["maxspeed"] # NoTag
           /\ TagOf(v) = c.storedKv["maxspeed"]
  BY FinishedWay DEF TagOf
<1>2. MaxSpeed(c) = 0
  BY DEF MaxSpeedDefined
<1>3. CASE "maxspeed" \in DOMAIN c.storedKv /\ ok(c.storedKv["maxspeed"])
  <2> DEFINE s == c.storedKv["maxspeed"]
  <2>1. s \in DOMAIN Values /\ TagOf(v) = s /\ s # NoTag /\ ok(s) /\ parseMaxSpeed(s) = 0
    BY <1>1, <1>2, <1>3 DEF MaxSpeed
  <2> HIDE DEF s
  <2>2. PICK number, unit : number = Values[s].number /\ unit = Values[s].unit
    OBVIOUS
  <2>3. number \in Nat /\ unit \in {"kmh", "mph", "kph"}
    BY <2>1, <2>2, EdgeWeightsAssumption DEF ok
  <2>4. parseMaxSpeed(s) =
          (number * IF Values[s].more \/ unit = "kmh" THEN 1000000
                    ELSE IF unit = "mph" THEN 1609344 ELSE 1852000) \div 10000000
    BY <2>2, <2>3, SMT DEF parseMaxSpeed, Factor
  <2>5. PICK factor \in {1000000, 1609344, 1852000} : (number * factor) \div 10000000 = 0
    BY <2>1, <2>4
  <2>6. number < 10
    BY <2>3, <2>5, SMT
  <2> QED BY <2>1, <2>2, <2>3, <2>6
<1>4. CASE ~("maxspeed" \in DOMAIN c.storedKv /\ ok(c.storedKv["maxspeed"]))
  <2>1. TypeSpeed[HwType(Meaning(v))] \div 10 = 0
    BY <1>1, <1>2, <1>4 DEF MaxSpeed, maxSpeedFromType
  <2>2. TypeSpeed[HwType(Meaning(v))] \in Nat
    BY <1>1, EdgeWeightsAssumption
  <2>3. \A n \in Nat : n \div 10 = 0 => n < 10
    OBVIOUS
  <2> QED BY <2>1, <2>2, <2>3
<1> QED BY <1>3, <1>4

\* The weight is undefined only if the tag has a number below 1 or the speed of the
\* type is below 1 km/h (WeightCalculator.cpp:39).
THEOREM WeightsStayDefined == Spec => []WeightsAreDefined
BY ParserInvariant, InvImpliesWeights, PTL

=============================================================================
