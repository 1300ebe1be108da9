------------------------- MODULE MCCoveragePipeline -------------------------
(***************************************************************************)
(* Model-checking instance of CoveragePipeline: the constants are given   *)
(* in the .cfg files (two pipelines, None a model value).                  *)
(***************************************************************************)
EXTENDS CoveragePipeline

=============================================================================
