----------------------------- MODULE MCFilePipeline -----------------------------
(* Small instances of FilePipeline for TLC.                                *)
EXTENDS FilePipeline, TLC

CONSTANTS f1, f2

MCSize == f1 :> 1 @@ f2 :> 2

=============================================================================
