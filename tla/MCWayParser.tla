---------------------------- MODULE MCWayParser ----------------------------
(***************************************************************************)
(* Small instances of WayParser and EdgeWeights: a first block with one    *)
(* way, and a second block, with another order of the string table, with   *)
(* two.  The second block may lack some strings.                           *)
(***************************************************************************)
EXTENDS EdgeWeights, TLC

CONSTANT n

MCHighwayValues == {"motorway", "primary", "track"}
MCHwTagIds == [motorway |-> 1, primary |-> 2]

MCTypeSpeed == <<1300, 555>>

\* The parts of the values: a number in tenths, a unit, and whether more follows.
V(number, unit, more) == [number |-> number, unit |-> unit, more |-> more]
MCValues == ("50" :> V(500, None, FALSE)) @@ ("30 mph" :> V(300, "mph", FALSE))
            @@ ("signals" :> V(-1, None, FALSE)) @@ ("0.5 mph" :> V(5, "mph", FALSE))
            @@ ("30 mph;" :> V(300, "mph", TRUE)) @@ ("130 km/h" :> V(1300, "kmh", FALSE))
            @@ ("10 kph" :> V(100, "kph", FALSE)) @@ ("50;60" :> V(500, None, TRUE))

Table1 == <<"highway", "primary", "maxspeed", "oneway", "yes", "50", "name", "track", "motorway",
            "30 mph", "130 km/h">>
Table2 == <<"primary", "track", "name", "highway", "maxspeed", "yes", "30 mph;", "oneway", "-1",
            "0.5 mph", "10 kph">>
Table3 == <<"track", "name", "highway", "maxspeed", "motorway", "primary", "10 kph", "signals",
            "0.5 mph", "50;60">>
Table4 == <<"name", "maxspeed", "10 kph", "primary", "track">>

T(k, v) == [key |-> k, value |-> v]
W(tags, refs) == [tags |-> tags, refs |-> refs]
Short == <<n>>
Long == <<n, n>>

FirstWays == {W(<<T("highway", "primary"), T("maxspeed", "50")>>, Long),
              W(<<T("maxspeed", "30 mph"), T("highway", "primary")>>, Long),
              W(<<T("highway", "motorway"), T("maxspeed", "130 km/h")>>, Long),
              W(<<T("maxspeed", "50"), T("oneway", "yes"), T("highway", "track")>>, Long),
              W(<<T("name", "primary"), T("highway", "motorway")>>, Short)}

TagSet == {T("highway", "primary"), T("highway", "track"), T("oneway", "yes"),
         T("oneway", "-1"), T("name", "primary"), T("maxspeed", "30 mph;"),
         T("maxspeed", "0.5 mph"), T("maxspeed", "10 kph"), T("maxspeed", "signals"),
         T("maxspeed", "50;60")}
TagLists == {s \in UNION {[1..m -> TagSet] : m \in 0..3} :
               \A j, k \in DOMAIN s : s[j].key = s[k].key => j = k}
Usable2(table) == {s \in TagLists : \A k \in DOMAIN s :
                                      {s[k].key, s[k].value} \subseteq Range(table)}

B(table, ways) == [strings |-> table, ways |-> ways]

LastWays == {W(<< >>, Long), W(<<T("name", "primary"), T("maxspeed", "10 kph")>>, Long)}

MCInputs ==
  UNION {{<<B(Table1, <<first>>), B(table, <<W(tags, Long), last>>)>> :
            first \in FirstWays, tags \in Usable2(table), last \in LastWays} :
           table \in {Table2, Table3, Table4}}
    \cup {<<B(Table4, <<last>>), B(Table1, << >>), B(Table1, <<first, first>>)>> :
            first \in FirstWays, last \in LastWays}
    \cup {<< >>}

=============================================================================
