--------------------------- MODULE PipelineClient ---------------------------
(***************************************************************************)
(* The pipeline client (runtime/model_pipeline_client.c) and the clients   *)
(* of the single ranks it drives (runtime/model_resident_client.c).        *)
(*                                                                         *)
(* A submission is sent to every rank as a PREPARE.  When every rank has   *)
(* answered, the client decides: COMMIT to all of them if all prepared,    *)
(* ABORT to those that prepared otherwise.  The result goes to the batch   *)
(* engine when the ranks have acknowledged the decision, the completion    *)
(* when every rank has completed.  A slot whose last work completed well   *)
(* carries a lease: work that follows it directly is sent as a CONTINUE,   *)
(* which a rank runs without a vote.                                       *)
(*                                                                         *)
(* Any failure of the protocol itself fails the whole pipeline: every      *)
(* connection is closed, every lease dropped, and every transaction that   *)
(* is still active is reported failed.  The pipeline is usable again, as a *)
(* new session, once every rank has been reconnected.                      *)
(***************************************************************************)
EXTENDS ResidentLink

VARIABLES transactions,         \* SparkModelPipelineTransaction by submission
          pending,              \* SparkModelResidentClientPending by rank
          failed_status,
          leases,               \* lease_slots: the submission that set the lease
          last_submission_id,
          session,              \* counts the values of session_fingerprint
          outcome               \* what the engine has been told of a submission

clientVars == <<transactions, pending, failed_status, leases,
                last_submission_id, session, outcome>>

Transaction ==
  [active : BOOLEAN, continued : BOOLEAN, result_reported : BOOLEAN,
   status : Statuses, result_mask : SUBSET Ranks, prepared_mask : SUBSET Ranks,
   decision_kind : {"NONE", "COMMIT", "ABORT"},
   decision_expected_mask : SUBSET Ranks, decision_result_mask : SUBSET Ranks,
   completion_mask : SUBSET Ranks]

NoTransaction ==
  [active |-> FALSE, continued |-> FALSE, result_reported |-> FALSE,
   status |-> "OK", result_mask |-> {}, prepared_mask |-> {},
   decision_kind |-> "NONE", decision_expected_mask |-> {},
   decision_result_mask |-> {}, completion_mask |-> {}]

Pending == {"NONE", "SENT", "PREPARED", "COMMIT", "ABORT", "COMMITTED"}

Outcome == [result : Statuses \union {"NONE"}, completion : Statuses \union {"NONE"}]

Untold == [result |-> "NONE", completion |-> "NONE"]

ClientTypeOK ==
  /\ transactions \in [Ids -> Transaction]
  /\ pending \in [Ranks -> [Ids -> Pending]]
  /\ failed_status \in Statuses
  /\ leases \in [Slots -> Ids \union {NoId}]
  /\ last_submission_id \in Ids \union {NoId}
  /\ session \in Nat
  /\ outcome \in [Ids -> Outcome]

ClientInit ==
  /\ transactions = [id \in Ids |-> NoTransaction]
  /\ pending = [r \in Ranks |-> [id \in Ids |-> "NONE"]]
  /\ failed_status = "OK"
  /\ leases = [s \in Slots |-> NoId]
  /\ last_submission_id = NoId
  /\ session = 1
  /\ outcome = [id \in Ids |-> Untold]

-----------------------------------------------------------------------------
(* Reporting to the engine.                                                *)

\* Mutation: a failed answer is not recorded.
FailureForgotten(t, st) == t

RecordFailure(t, st) == IF t.status = "OK" THEN [t EXCEPT !.status = st] ELSE t

\* ReportResult: the result is due once every rank has answered and, unless
\* the work is a continuation, every rank told the decision has confirmed it.
ResultDue(t) ==
  /\ t.result_mask = Ranks
  /\ \/ t.continued
     \/ /\ t.decision_kind # "NONE"
        /\ t.decision_result_mask = t.decision_expected_mask

ReportResult(t) ==
  IF ResultDue(t) THEN [t EXCEPT !.result_reported = TRUE] ELSE t

\* Mutation: the first rank to complete completes the work.
AnyRankCompletes(t) == t.result_reported /\ t.completion_mask # {}

CompletionDue(t) == t.result_reported /\ t.completion_mask = Ranks

\* What the engine knows of a submission whose transaction was `before' and,
\* after the handler has reported what is due, is `t'.
Told(o, before, t) ==
  [result |-> IF t.result_reported /\ ~before.result_reported
              THEN t.status ELSE o.result,
   completion |-> IF CompletionDue(t) THEN t.status ELSE o.completion]

\* UpdateLeases and DropLeases, when the completion is reported.
LeasesAfter(id, t) ==
  [s \in Slots |->
     IF s \notin work[id].lanes \/ ~CompletionDue(t) THEN leases[s]
     ELSE IF t.status = "OK" /\ work[id].kind # "RELEASE" THEN id ELSE NoId]

\* The end of a handler that leaves transaction id in state t, pipeline well.
Conclude(id, t) ==
  LET now == ReportResult(t)
  IN  /\ transactions' = [transactions EXCEPT
                            ![id] = IF CompletionDue(now) THEN NoTransaction
                                                          ELSE now]
      /\ outcome' = [outcome EXCEPT ![id] = Told(@, transactions[id], now)]
      /\ leases' = LeasesAfter(id, now)
      /\ UNCHANGED <<failed_status, last_submission_id, session>>

\* Mutation: only work without a result is failed with the pipeline.
DrainedUnanswered(txs, told, st) ==
  [id \in Ids |-> IF txs[id].active /\ ~txs[id].result_reported
                  THEN [result |-> st, completion |-> st] ELSE told[id]]

\* FailTransactions, for what the engine has been told so far.
Drained(txs, told, st) ==
  [id \in Ids |->
     IF ~txs[id].active THEN told[id]
     ELSE [result |-> IF txs[id].result_reported THEN told[id].result ELSE st,
           completion |-> st]]

\* SetFailure and the rest of Progress: every connection closed, every lease
\* dropped, every transaction reported failed.  `txs' and `told' are the
\* transactions and the reports at the moment of the failure.
FailPipeline(txs, told, st) ==
  /\ failed_status' = st
  /\ transactions' = [id \in Ids |-> NoTransaction]
  /\ outcome' = Drained(txs, told, st)
  /\ leases' = [s \in Slots |-> NoId]
  /\ pending' = [r \in Ranks |-> [id \in Ids |-> "NONE"]]
  /\ client_end' = [r \in Ranks |-> FALSE]
  /\ wire' = [r \in Ranks |-> FALSE]
  /\ from_rank' = [r \in Ranks |-> << >>]
  /\ UNCHANGED <<to_rank, daemon_end, work, last_submission_id, session>>

\* A handler that leaves transaction id in state t and fails the pipeline.
FailAfter(id, t, st) ==
  LET now == ReportResult(t)
  IN  FailPipeline(
        [transactions EXCEPT ![id] = IF CompletionDue(now) THEN NoTransaction
                                                           ELSE now],
        [outcome EXCEPT ![id] = Told(@, transactions[id], now)], st)

-----------------------------------------------------------------------------
(* Submission.                                                             *)

Busy(s) == \E id \in Ids : transactions[id].active /\ s \in work[id].lanes

\* Preflight: every rank connected, and room for one more submission on each.
Preflight ==
  \A r \in Ranks :
    /\ client_end[r]
    /\ Cardinality({id \in Ids : pending[r][id] # "NONE"}) < Capacity

\* CanContinue; `follows' says that the lane's position and generations are
\* the ones that come after the work that set the lease.
CanContinue(kind, lanes, follows) ==
  /\ kind # "PUBLISH"
  /\ follows
  /\ \A s \in lanes : leases[s] # NoId

\* Submit.  The engine numbers its submissions in increasing order and has
\* at most one submission in flight for a resident slot.
Submit(id, kind, lanes, follows, deadline) ==
  LET continued == CanContinue(kind, lanes, follows)
  IN  /\ failed_status = "OK"
      /\ id = last_submission_id + 1
      /\ lanes # {} /\ \A s \in lanes : ~Busy(s)
      /\ Preflight
      /\ Cardinality({i \in Ids : transactions[i].active}) < Capacity
      /\ last_submission_id' = id
      /\ transactions' = [transactions EXCEPT
                            ![id] = [NoTransaction EXCEPT !.active = TRUE,
                                                          !.continued = continued]]
      /\ pending' = [r \in Ranks |-> [pending[r] EXCEPT ![id] = "SENT"]]
      /\ work' = [work EXCEPT
                    ![id] = [kind |-> kind, lanes |-> lanes,
                             deadline |-> deadline, session |-> session,
                             lease |-> [s \in Slots |->
                                          IF continued /\ s \in lanes
                                          THEN leases[s] ELSE NoId]]]
      /\ to_rank' = Broadcast(IF continued THEN "CONTINUE" ELSE "PREPARE", id,
                              Ranks)
      /\ UNCHANGED <<from_rank, wire, client_end, daemon_end,
                     failed_status, leases, session, outcome>>

-----------------------------------------------------------------------------
(* Messages from a rank.  Each handler takes the first message of the      *)
(* rank's stream; while the pipeline has failed there is nothing to read.  *)

Receives(r, kinds) ==
  /\ failed_status = "OK"
  /\ client_end[r]
  /\ from_rank[r] # << >>
  /\ Head(from_rank[r]).kind \in kinds

\* The state of a rank's pending entry that a message of this kind answers.
Expected(kind) ==
  CASE kind = "RESULT" -> "SENT"
    [] kind = "COMPLETION" -> "COMMITTED"
    [] OTHER -> kind

Answers(r, m) == pending[r][m.id] = Expected(m.kind)

\* A message that answers nothing the rank's client has pending: the stream is
\* rejected, which fails the pipeline.
RejectStream == FailPipeline(transactions, outcome, "ERROR")

Consume(r) == from_rank' = [from_rank EXCEPT ![r] = Tail(@)]

\* Mutation: the ranks that prepared commit although one refused.
DecideCommit(id, t, kind, targets) ==
  /\ to_rank' = Broadcast("COMMIT", id, targets)
  /\ pending' = [q \in Ranks |-> [pending[q] EXCEPT
                                    ![id] = IF q \in targets THEN "COMMIT" ELSE "NONE"]]
  /\ Conclude(id, [t EXCEPT !.decision_kind = "COMMIT",
                            !.decision_expected_mask = targets,
                            !.completion_mask = IF targets = {} THEN Ranks
                                                                ELSE @])

\* ResolveAdmission for a transaction that every rank has now answered.
Decide(id, t, kind, targets) ==
  /\ to_rank' = Broadcast(kind, id, targets)
  /\ pending' = [q \in Ranks |-> [pending[q] EXCEPT
                                    ![id] = IF q \in targets THEN kind
                                                             ELSE "NONE"]]
  /\ Conclude(id, [t EXCEPT !.decision_kind = kind,
                            !.decision_expected_mask = targets,
                            !.completion_mask = IF targets = {} THEN Ranks
                                                                ELSE @])

\* RankResult: a rank's answer to a PREPARE or a CONTINUE.  A continuation
\* that any rank refuses, or that failed on one rank before all have accepted
\* it, fails the pipeline.
RankResult(r) ==
  /\ Receives(r, {"RESULT"})
  /\ LET m == Head(from_rank[r])
         old == transactions[m.id]
         voted == [old EXCEPT !.result_mask = @ \union {r},
                              !.prepared_mask = IF m.status = "OK"
                                                THEN @ \union {r} ELSE @]
         t == IF m.status = "OK" THEN voted ELSE RecordFailure(voted, m.status)
         all == t.result_mask = Ranks
         broken == m.status # "OK" \/ (all /\ t.status # "OK")
     IN  IF ~Answers(r, m) THEN RejectStream ELSE
         \/ /\ old.continued /\ broken
            /\ FailPipeline([transactions EXCEPT ![m.id] = t], outcome,
                            IF m.status # "OK" THEN m.status ELSE t.status)
         \/ /\ old.continued /\ ~broken
            /\ Consume(r)
            /\ pending' = [pending EXCEPT ![r][m.id] = "COMMITTED"]
            /\ Conclude(m.id, t)
            /\ UNCHANGED <<to_rank, wire, client_end, daemon_end, work>>
         \/ /\ ~old.continued /\ ~all
            /\ Consume(r)
            /\ pending' = [pending EXCEPT
                             ![r][m.id] = IF m.status = "OK" THEN "PREPARED"
                                                             ELSE "NONE"]
            /\ Conclude(m.id, t)
            /\ UNCHANGED <<to_rank, wire, client_end, daemon_end, work>>
         \/ /\ ~old.continued /\ all
            /\ Consume(r)
            /\ Decide(m.id, t, IF t.status = "OK" THEN "COMMIT" ELSE "ABORT",
                      t.prepared_mask)
            /\ UNCHANGED <<wire, client_end, daemon_end, work>>
         \/ /\ "QUEUE_FULL" \in Faults
            /\ ~old.continued /\ all /\ t.prepared_mask # {}
            /\ FailPipeline([transactions EXCEPT ![m.id] = t], outcome, "BUSY")

\* RankDecisionResult: a rank's confirmation of COMMIT or ABORT.
RankDecisionResult(r) ==
  /\ Receives(r, {"COMMIT", "ABORT"})
  /\ LET m == Head(from_rank[r])
         old == transactions[m.id]
         decided == [old EXCEPT !.decision_result_mask = @ \union {r}]
         t == IF m.status = "OK" THEN decided
                                 ELSE RecordFailure(decided, m.status)
         all == t.decision_result_mask = t.decision_expected_mask
         ended == IF all /\ m.kind = "ABORT"
                  THEN [t EXCEPT !.completion_mask = Ranks] ELSE t
     IN  IF ~Answers(r, m) THEN RejectStream ELSE
         \/ /\ m.status # "OK"
            /\ FailAfter(m.id, ended, m.status)
         \/ /\ m.status = "OK"
            /\ Consume(r)
            /\ pending' = [pending EXCEPT
                             ![r][m.id] = IF m.kind = "COMMIT"
                                          THEN "COMMITTED" ELSE "NONE"]
            /\ Conclude(m.id, ended)
            /\ UNCHANGED <<to_rank, wire, client_end, daemon_end, work>>

\* RankCompletion: a rank has finished its part of the work.
RankCompletion(r) ==
  /\ Receives(r, {"COMPLETION"})
  /\ LET m == Head(from_rank[r])
         old == transactions[m.id]
         done == [old EXCEPT !.completion_mask = @ \union {r}]
         t == IF m.status = "OK" THEN done ELSE RecordFailure(done, m.status)
     IN  IF ~Answers(r, m) THEN RejectStream ELSE
         /\ Consume(r)
         /\ pending' = [pending EXCEPT ![r][m.id] = "NONE"]
         /\ Conclude(m.id, t)
         /\ UNCHANGED <<to_rank, wire, client_end, daemon_end, work>>

-----------------------------------------------------------------------------
(* Connections.                                                            *)

\* Progress finds the connection to rank r lost.
ConnectionLost(r) ==
  /\ client_end[r] /\ ~wire[r]
  /\ \/ /\ failed_status = "OK"
        /\ FailPipeline(transactions, outcome, "IO_ERROR")
     \/ /\ failed_status # "OK"
        /\ client_end' = [client_end EXCEPT ![r] = FALSE]
        /\ from_rank' = [from_rank EXCEPT ![r] = << >>]
        /\ UNCHANGED <<to_rank, wire, daemon_end, work, clientVars>>

\* The client's half of a reconnection: Progress while the pipeline has
\* failed; when rank r was the last one missing, a new session is published.
Reconnected(r) ==
  LET healed == \A q \in Ranks \ {r} : client_end[q]
  IN  /\ failed_status # "OK"
      /\ ~client_end[r]
      /\ failed_status' = IF healed THEN "OK" ELSE failed_status
      /\ session' = IF healed THEN session + 1 ELSE session
      /\ UNCHANGED <<transactions, pending, leases, last_submission_id, outcome>>
=============================================================================
