-------------------------- MODULE MCSubgraphExecutor --------------------------
(***************************************************************************)
(* A small graph for SubgraphExecutor.                                     *)
(***************************************************************************)
EXTENDS SubgraphExecutor

\* data -> range -> op -> out.  range is an HCCL operator that also reads
\* the output of call, a call of a static subgraph, and whose shape
\* inference reads the value of data; op also reads data.
MCOrder == <<"data", "call", "range", "op", "out">>

MCInputs == [data |-> {}, call |-> {}, range |-> {"data", "call"},
             op |-> {"data", "range"}, out |-> {"op"}]

MCConstInputs == [n \in Nodes |-> IF n = "range" THEN {"data"} ELSE {}]

MCNone == [n \in Nodes |-> {}]

MCType == [data |-> "known", call |-> "compute", range |-> "range",
           op |-> "compute", out |-> "known"]

=============================================================================
