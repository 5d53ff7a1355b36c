--------------------------- MODULE MCRunPipeline ---------------------------
(* The three built-in tests in their order, two of dltest's four stores, and *)
(* a store whose owner is registered but not selected.                       *)
EXTENDS RunPipelineInvariant

MCOwner == [s \in Stores |-> CASE s = "storage" -> 1
                               [] s = "nccl" -> 2
                               [] s = "absent" -> 4
                               [] OTHER -> 3]
=============================================================================
