----------------------------- MODULE MCPipeline ----------------------------
(* Model of Pipeline for TLC.  The streams are numbered as in the code (the  *)
(* skip phase depends on the number); the batch buffers are interchangeable. *)
EXTENDS PipelineDelivery, TLC

OneStream == {0}

BufSymmetry == Permutations(Bufs)
=============================================================================
