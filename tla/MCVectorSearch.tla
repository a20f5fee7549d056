---------------------------- MODULE MCVectorSearch ----------------------------
(* Small instances of VectorSearch. *)
EXTENDS VectorSearch

CONSTANTS p, q

AllAtP == {[f \in Files |-> p]}
================================================================================
