---------------------------- MODULE MCFmiFiles ----------------------------
(***************************************************************************)
(* Small instances of FmiFiles: up to MaxRecords nodes and edges.          *)
(***************************************************************************)
EXTENDS FmiFiles

CONSTANT MaxRecords

TagLists == UNION {[1..m -> {0, 1}] : m \in 0..MaxRecords}

\* A graph without nodes has no edges.
MCGraphs ==
  {g \in [format : {"text", "binary"}, type : {"standard", "maxspeed"},
          nodeTags : TagLists, edgeTags : TagLists] : Len(g.nodeTags) = 0 => g.edgeTags = << >>}

=============================================================================
