---------------------- MODULE GraphCreatorRefinement ----------------------
(***************************************************************************)
(* The creator implements GraphExtraction: what it has written so far, with *)
(* the node ids of the edge section resolved by position as a reader of the *)
(* graph resolves them, is what the abstract creator has written.          *)
(***************************************************************************)
EXTENDS GraphCreator

Resolved(e) ==
  [from |-> outNodes[e.source + 1].node.osmId,
   to   |-> outNodes[e.target + 1].node.osmId,
   type |-> e.type, ends |-> e.ends]

WrittenBag ==
  [e \in {Resolved(outEdges[n]) : n \in DOMAIN outEdges} |->
     Cardinality({n \in DOMAIN outEdges : Resolved(outEdges[n]) = e})]

WrittenNodes ==
  {[osmId |-> outNodes[i].node.osmId, loc |-> outNodes[i].coordinates] :
     i \in DOMAIN outNodes}

WrittenWays ==
  {i \in CompleteAt(stream, cmd.withBounds) :
     pass = "done" \/ (pass = "ways" /\ i <= pos)}

Phase == CASE pass \in {"nodes", "ways"} -> "writing"
           [] pass = "done"              -> "done"
           [] pass = "aborted"           -> "failed"
           [] OTHER                      -> "reading"

Promise ==
  INSTANCE GraphExtraction
  WITH phase <- Phase, announced <- header, writtenNodes <- WrittenNodes,
       writtenWays <- WrittenWays, writtenEdges <- WrittenBag

\* Every step of the creator is a step of the abstract creator or a stutter: what
\* KeepsPromise says without fairness, and what is proved of it.
StepsKeepPromise == Promise!SafeSpec

\* The creator keeps its promise: the header, every node and every edge of
\* main.cpp:402-444 is one step of the abstract creator, and the passes before
\* and between them change nothing that it can see.  The fairness of the
\* abstract creator is included: the graph is finished.
KeepsPromise == Promise!Spec

=============================================================================
