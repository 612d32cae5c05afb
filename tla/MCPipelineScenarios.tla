--------------------- MODULE MCPipelineScenarios ---------------------------
(***************************************************************************)
(* Three instances of ResidentPipeline in one run, which differ in the     *)
(* work the engine submits and in what may go wrong: the one of the        *)
(* constants, in which ranks refuse, fail and time out work; one in which  *)
(* a connection is lost or a daemon restarts; and one without failures in  *)
(* which ranks in parallel share more work.  `part' says which of them a   *)
(* behaviour belongs to.                                                   *)
(***************************************************************************)
EXTENDS ResidentPipeline

CONSTANTS a, b, MaxSubmissions

VARIABLE part

Breaks ==
  INSTANCE ResidentPipeline WITH
    Faults <- {"DROP", "RESTART", "ABORT_BUSY", "ABORT_ERROR", "BUSY",
               "DECISION"},
    WorkKinds <- {"ROWS"}

Order ==
  INSTANCE ResidentPipeline WITH
    Faults <- {}, Topology <- "FANOUT", WorkKinds <- {"ROWS", "RELEASE"},
    LaneSets <- {{a}, {b}, {a, b}}, Deadlines <- {FALSE}

PartsInit == part \in {"faults", "breaks", "order"} /\ Init

\* The bound on submissions where things go wrong.
Bounded == last_submission_id' \in 1 .. MaxSubmissions \cup {NoId}

PartsNext ==
  /\ \/ part = "faults" /\ Next /\ Bounded
     \/ part = "breaks" /\ Breaks!Next /\ Bounded
     \/ part = "order" /\ Order!Next
  /\ UNCHANGED part

PartsSpec == PartsInit /\ [][PartsNext]_<<vars, part>>
=============================================================================
