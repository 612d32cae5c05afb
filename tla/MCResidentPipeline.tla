------------------------ MODULE MCResidentPipeline ------------------------
(* Small instances of ResidentPipeline for TLC. *)
EXTENDS ResidentPipeline
=============================================================================
