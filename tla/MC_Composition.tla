--------------------------- MODULE MC_Composition ---------------------------
(* The driver with two requests per run against one or two replicas.       *)
EXTENDS Composition

CONSTANTS s1, s2, incr, square, composition

MC_OneReplica == {s1}
MC_Replicas == {s1, s2}
MC_Names == {composition}
MC_CompShape == {incr, square}
MC_Shapes == {MC_CompShape}
=============================================================================
