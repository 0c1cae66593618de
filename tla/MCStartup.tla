----------------------------- MODULE MCStartup -----------------------------
(***************************************************************************)
(* Small instances of Startup that vary one part of the input at a time:   *)
(* command lines of up to two groups, well-formed or not, behind a         *)
(* configuration and an output file; configurations of up to two records   *)
(* that end in every possible way; and the references of a small extract.  *)
(***************************************************************************)
EXTENDS Startup

MCNumbers == ("1" :> 1) @@ ("2" :> 2) @@ ("5" :> 5) @@ ("9" :> 9) @@ ("-1" :> -1)

Groups ==
  {<<"-t", "time">>, <<"-t", "fast">>, <<"-g", "plot">>, <<"-g", "fmitext">>, <<"-s">>,
   <<"--no-reverse-edge">>, <<"-cc", "all">>, <<"-cc", "topk", "2">>, <<"-cc", "size", "-1">>,
   <<"-cc", "topk">>, <<"-cc", "some">>, <<"-o", "-s">>, <<"-o", "-cc">>, <<"-c", "a.pbf">>,
   <<"-hs", "auto">>, <<"-hs", "5">>, <<"-hs", "many">>, <<"-hs", "10^20">>, <<"-dm", "9">>,
   <<"-tm", "x">>, <<"-b", "box">>, <<"-b", "ball">>, <<"a.pbf">>, <<"b.pbf">>, <<"none.pbf">>,
   <<"--fast">>, <<"-h">>, <<"-o">>, <<"-hs">>}

Common == << <<"-c", "car.cfg">>, <<"-o", "graph">>, <<"a.pbf">> >>
Input(groups, ls, cut, refs) == [groups |-> groups, lines |-> ls, cut |-> cut, refs |-> refs]
SomeLines == <<"motorway", "1", "9">>

CommandLines ==
  {Input(gs, SomeLines, FALSE, <<1, 2, 2>>) :
     gs \in {Common \o s : s \in SeqOf(Groups, 2)} \cup SeqOf(Groups, 2)}

Records == {<<v, t, s>> : v \in {"motorway", "primary"}, t \in {"1", "2"}, s \in {"5", "fast"}}
Tails   == {<< >>, <<"primary">>, <<"primary", "1">>, <<"">>, <<"", "">>, <<"", "1", "5">>,
            <<"primary", "", "5">>, <<"primary", "1", "">>}

Configurations ==
  {Input(Common, FlattenSeq(rs) \o tail, cut, <<1, 2>>) :
     rs \in SeqOf(Records, 2), tail \in Tails, cut \in BOOLEAN}

Extracts ==
  {Input(Append(Common, <<"-hs", n>>), SomeLines, TRUE, refs) :
     n \in {"auto", "5", "-1", "many"}, refs \in SeqOf({-9, -4, 0, 1, 4, 7, 20}, 3)}

MCInputs == CommandLines \cup Configurations \cup Extracts

=============================================================================
