---------------------------- MODULE ResidentLink ----------------------------
(***************************************************************************)
(* The connections between the pipeline client, which runs in the API      *)
(* process, and the resident daemons, one per pipeline rank.               *)
(*                                                                         *)
(* A connection is a stream socket (runtime/model_resident_ipc.c frames    *)
(* the messages on it).  It delivers in order and loses nothing while it   *)
(* is up.  Each side has its own end: `client_end[r]' is the connected     *)
(* flag of the rank's client, `daemon_end[r]' says that the daemon's       *)
(* client.fd is open.  `wire[r]' is FALSE once either side has closed or   *)
(* the network has failed; the side that has not noticed yet may still     *)
(* read what had been delivered, or see the end of the stream at once.     *)
(*                                                                         *)
(* `work[id]' is the content of submission id, fixed when it is sent: its  *)
(* kind, the resident slots of its lanes, whether it carries a deadline,   *)
(* the session it belongs to (its control_generation) and, for a           *)
(* continuation, the lease the client holds on each lane.                  *)
(***************************************************************************)
EXTENDS Naturals, Sequences, FiniteSets

CONSTANTS RankCount,   \* ranks of the pipeline, in stage order
          IdCount,     \* submissions of one behaviour
          Slots,       \* resident sequence slots
          Capacity,    \* max_inflight_submission_count, the same on both sides
          Faults       \* what may go wrong in a behaviour

ASSUME LinkAssumption ==
  /\ RankCount \in Nat \ {0}
  /\ IdCount \in Nat \ {0}
  /\ Capacity \in Nat \ {0}

VARIABLES to_rank, from_rank, wire, client_end, daemon_end, work

linkVars == <<to_rank, from_rank, wire, client_end, daemon_end, work>>

Ranks == 1..RankCount
Ids == 1..IdCount
NoId == 0

\* Work that moves rows through the stages, and work that does not.
Kinds == {"ROWS", "RELEASE", "PUBLISH"}
Statuses == {"OK", "BUSY", "ERROR", "IO_ERROR"}

Work == [kind : Kinds, lanes : SUBSET Slots, deadline : BOOLEAN, session : Nat,
         lease : [Slots -> Ids \union {NoId}]]

NoWork == [kind |-> "ROWS", lanes |-> {}, deadline |-> FALSE,
           session |-> 0, lease |-> [s \in Slots |-> NoId]]

Requests == [kind : {"PREPARE", "CONTINUE", "COMMIT", "ABORT"}, id : Ids]
Replies == [kind : {"RESULT", "COMMIT", "ABORT", "COMPLETION"}, id : Ids,
            status : Statuses]

LinkTypeOK ==
  /\ to_rank \in [Ranks -> Seq(Requests)]
  /\ from_rank \in [Ranks -> Seq(Replies)]
  /\ wire \in [Ranks -> BOOLEAN]
  /\ client_end \in [Ranks -> BOOLEAN]
  /\ daemon_end \in [Ranks -> BOOLEAN]
  /\ work \in [Ids -> Work]

LinkInit ==
  /\ to_rank = [r \in Ranks |-> << >>]
  /\ from_rank = [r \in Ranks |-> << >>]
  /\ wire = [r \in Ranks |-> TRUE]
  /\ client_end = [r \in Ranks |-> TRUE]
  /\ daemon_end = [r \in Ranks |-> TRUE]
  /\ work = [id \in Ids |-> NoWork]

Request(kind, id) == [kind |-> kind, id |-> id]
Reply(kind, id, st) == [kind |-> kind, id |-> id, status |-> st]

\* The queues to the ranks after the client sends one request to the targets.
\* What is written to a connection that is no longer up never arrives.
Broadcast(kind, id, targets) ==
  [r \in Ranks |-> IF r \in targets /\ wire[r]
                   THEN Append(to_rank[r], Request(kind, id))
                   ELSE to_rank[r]]
=============================================================================
