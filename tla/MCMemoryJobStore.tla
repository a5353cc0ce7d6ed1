-------------------------- MODULE MCMemoryJobStore --------------------------
(* MemoryJobStore on a small instance. *)
EXTENDS MemoryJobStore, TLC

MCStages == {"resolving_media", "embedding"}

=============================================================================
