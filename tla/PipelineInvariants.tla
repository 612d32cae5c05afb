------------------------- MODULE PipelineInvariants -------------------------
(***************************************************************************)
(* Inductive invariants of ResidentPipeline.                               *)
(***************************************************************************)
EXTENDS ResidentPipeline

-----------------------------------------------------------------------------
(* Order.                                                                  *)

\* A request that makes a rank open a route.
Opens(m) == m.kind \in {"PREPARE", "CONTINUE"}

\* The states of a route that may still be handed to the adapter.
MayRun == {"RESERVED", "PREPARING", "WAIT_INPUT", "READY_ADAPTER"}

Known(r, id) == Active(r, id) \/ Ran(r, id)

\* Nothing on its way to a rank, or known there, is younger than the last
\* submission of the client.
Numbered ==
  \A r \in Ranks :
    /\ \A i \in DOMAIN to_rank[r] :
         Opens(to_rank[r][i]) => to_rank[r][i].id <= last_submission_id
    /\ \A id \in Ids : Known(r, id) => id <= last_submission_id

\* What is on its way to a rank is in order, and younger than what the rank
\* knows.
StreamOrdered ==
  \A r \in Ranks :
    /\ \A i, j \in DOMAIN to_rank[r] :
         i < j /\ Opens(to_rank[r][i]) /\ Opens(to_rank[r][j]) =>
           to_rank[r][i].id < to_rank[r][j].id
    /\ \A i \in DOMAIN to_rank[r], id \in Ids :
         Opens(to_rank[r][i]) /\ Known(r, id) => id < to_rank[r][i].id

\* What may still run on a rank is younger than all that has run there.
RoutesOrdered ==
  \A r \in Ranks : \A id, old \in Ids :
    routes[r][id].state \in MayRun /\ Ran(r, old) => old < id

\* A route is in the committed FIFO exactly from its commit to its start.
QueuedWhenCommitted ==
  \A r \in Ranks, id \in Ids :
    /\ routes[r][id].state \in {"WAIT_INPUT", "READY_ADAPTER"} => routes[r][id].queued
    /\ routes[r][id].state \in {"RESERVED", "PREPARING"} => ~routes[r][id].queued

OrderInv ==
  /\ Numbered
  /\ StreamOrdered
  /\ RoutesOrdered
  /\ QueuedWhenCommitted
  /\ RunsInOrder

-----------------------------------------------------------------------------
(* Agreement: what messages, routes and transactions say is true.          *)

Elements(s) == {s[i] : i \in DOMAIN s}

\* What every rank has voted for, and what needs no vote.
Voted == {id \in Ids : \A q \in Ranks : id \in history[q].prepared}
Continuations == {id \in Ids : Continued(id)}

\* A commit on its way to a rank follows a unanimous vote.
RequestsSound ==
  \A r \in Ranks : \A m \in Elements(to_rank[r]) :
    /\ m.kind = "COMMIT" => m.id \in Voted
    /\ m.kind = "CONTINUE" => m.id \in Continuations

\* A vote or a success on its way to the client is its rank's own.
RepliesSound ==
  \A r \in Ranks : \A m \in Elements(from_rank[r]) : m.status = "OK" =>
    /\ m.kind = "RESULT" => m.id \in history[r].prepared
    /\ m.kind = "COMPLETION" => m.id \in history[r].done

\* A failed route has a failure to report, and one past its commit may run.
RouteSound(id, route) ==
  /\ route.state = "FAILED" => route.failure # "OK"
  /\ route.state = "PREPARING" => id \in Continuations
  /\ route.state \in {"WAIT_INPUT", "READY_ADAPTER"} =>
       id \in Voted \union Continuations

RoutesSound == \A r \in Ranks, id \in Ids : RouteSound(id, routes[r][id])

\* The votes and successes a transaction counts were given, and without a
\* recorded failure it counts no answer that was not a vote for it.
TransactionSound(id, t) ==
  /\ \A r \in t.prepared_mask : id \in history[r].prepared
  /\ t.status = "OK" => /\ t.result_mask \subseteq t.prepared_mask
                        /\ \A r \in t.completion_mask : id \in history[r].done

TransactionsSound == \A id \in Ids : TransactionSound(id, transactions[id])

\* Only failed work is aborted; an abort of work that is over expects nothing.
AbortsFailed ==
  \A r \in Ranks, id \in Ids : pending[r][id] = "ABORT" =>
    transactions[id].status # "OK" \/ transactions[id].decision_expected_mask = {}

RunsCleared ==
  \A r \in Ranks, id \in Ids : Ran(r, id) => id \in Voted \union Continuations

AgreementInv ==
  /\ RequestsSound
  /\ RepliesSound
  /\ RoutesSound
  /\ TransactionsSound
  /\ AbortsFailed
  /\ RunsCleared
  /\ SuccessIsTotal
=============================================================================
