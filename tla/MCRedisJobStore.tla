-------------------------- MODULE MCRedisJobStore ---------------------------
(* RedisJobStore on a small instance. *)
EXTENDS RedisJobStore, TLC

\* One stage is enough for an unfinished record to differ from a queued one.
MCStages == {"embedding"}

=============================================================================
