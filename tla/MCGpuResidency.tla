--------------------------- MODULE MCGpuResidency ---------------------------
(* GpuResidency with the two engines of JobExecutor; memory in GiB, scaled. *)
EXTENDS GpuResidency, TLC

CONSTANTS embedding, reranking

MCModels == {embedding, reranking}
MCVram == embedding :> 15 @@ reranking :> 4

=============================================================================
