--------------------------- MODULE SubmissionPort ---------------------------
(***************************************************************************)
(* What the pipeline promises the batch engine about its submissions: the  *)
(* contract of Submit, of the result and completion functions and of the   *)
(* session fingerprint (spark_model_pipeline_client.h).                    *)
(*                                                                         *)
(* Each accepted submission gets one result and then one completion, and   *)
(* work whose result was a failure never completes well.  When the         *)
(* pipeline fails, everything outstanding is completed as failed in the    *)
(* same step, and the engine sees a new session before it can submit       *)
(* again.                                                                  *)
(***************************************************************************)
EXTENDS Naturals

CONSTANT Tickets   \* the submissions

VARIABLES port,      \* where each submission stands
          up,        \* the pipeline accepts submissions
          epoch      \* the session

portVars == <<port, up, epoch>>

Outstanding(id) == port[id] \in {"SUBMITTED", "ADMITTED", "DOOMED"}

PortInit ==
  /\ port = [id \in Tickets |-> "NEW"]
  /\ up = TRUE
  /\ epoch = 1

Move(id, from, to) ==
  /\ up /\ port[id] = from
  /\ port' = [port EXCEPT ![id] = to]
  /\ UNCHANGED <<up, epoch>>

PortSubmit(id) == Move(id, "NEW", "SUBMITTED")

\* The result.
Admit(id) == Move(id, "SUBMITTED", "ADMITTED")
Doom(id) == Move(id, "SUBMITTED", "DOOMED")

\* The completion; the result may come with it.
Succeed(id) == Move(id, "SUBMITTED", "OK") \/ Move(id, "ADMITTED", "OK")
Fail(id) == Outstanding(id) /\ Move(id, port[id], "FAILED")

\* The step that fails the pipeline ends every submission.
Collapse ==
  /\ up /\ up' = FALSE
  /\ port' = [id \in Tickets |-> IF Outstanding(id) THEN "FAILED" ELSE port[id]]
  /\ UNCHANGED epoch

Reopen ==
  /\ ~up /\ up' = TRUE
  /\ epoch' = epoch + 1
  /\ UNCHANGED port

PortNext ==
  \/ \E id \in Tickets : \/ PortSubmit(id) \/ Admit(id) \/ Doom(id)
                          \/ Succeed(id) \/ Fail(id)
  \/ Collapse
  \/ Reopen

PortSpec == PortInit /\ [][PortNext]_portVars
=============================================================================
