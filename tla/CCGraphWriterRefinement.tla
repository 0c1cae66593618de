---------------------- MODULE CCGraphWriterRefinement ----------------------
(***************************************************************************)
(* CCGraphWriter implements ComponentFiles: a file counts as finished once *)
(* endGraph of its writer has been called, and what it holds is read back  *)
(* by the renumbering that the positions of its nodes give.                *)
(***************************************************************************)
EXTENDS CCGraphWriter

Phase == CASE phase \in {"header", "collect", "unite", "filter"} -> "collecting"
           [] phase \in {"next", "nodes", "edges"}               -> "writing"
           [] phase = "done"                                     -> "done"
           [] phase = "aborted"                                  -> "failed"

KeptComponents ==
  [c \in {write_filter[r] : r \in DOMAIN write_filter} |->
     NodesOf(CHOOSE r \in DOMAIN write_filter : write_filter[r] = c)]

FinishedFiles ==
  [c \in Ended |->
     LET given == {Original(c, e) : e \in ToSet(files[c].edges)}
     IN [nodes |-> Content(c),
         edges |-> [x \in given |->
                      Cardinality({k \in DOMAIN files[c].edges :
                                     Original(c, files[c].edges[k]) = x})]]]

Promise ==
  INSTANCE ComponentFiles
  WITH phase <- Phase, kept <- KeptComponents, open <- DOMAIN files \ Ended,
       files <- FinishedFiles

\* The writer keeps the promise of -cc, whatever union-find makes the
\* representatives, whatever order std::sort leaves and whichever file cannot
\* be opened: every step is one of ComponentFiles or is not seen there, and a
\* finished file is never touched again.  This is what KeepsPromise says without
\* fairness, and what is proved of it.
StepsKeepPromise == Promise!SafeSpec

\* What is more, it comes to an end.
KeepsPromise == Promise!Spec

=============================================================================
