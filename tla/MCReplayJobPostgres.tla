------------------------- MODULE MCReplayJobPostgres --------------------------
(* Small instances of ReplayJobPostgres for TLC. *)
EXTENDS ReplayJobPostgres, MCReplayJob

==============================================================================
