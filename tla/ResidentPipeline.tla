-------------------------- MODULE ResidentPipeline --------------------------
(***************************************************************************)
(* The pipeline client, the resident daemons of all ranks and the          *)
(* connections between them, with the failures of the network and of the   *)
(* daemons' processes.                                                     *)
(***************************************************************************)
EXTENDS PipelineClient, ResidentDaemon

CONSTANTS WorkKinds,     \* the kinds of work the engine submits
          LaneSets,      \* the sets of slots it submits work for
          Deadlines,     \* the values of `has a deadline' it submits with
          MaxBreaks      \* bound on network failures and daemon restarts

ASSUME PipelineAssumption ==
  /\ WorkKinds \subseteq Kinds
  /\ LaneSets \subseteq SUBSET Slots
  /\ Deadlines \subseteq BOOLEAN
  /\ MaxBreaks \in Nat

VARIABLE breaks

vars == <<linkVars, clientVars, daemonVars, breaks>>

TypeOK ==
  /\ LinkTypeOK
  /\ ClientTypeOK
  /\ DaemonTypeOK
  /\ breaks \in 0..MaxBreaks

Init ==
  /\ LinkInit
  /\ ClientInit
  /\ DaemonInit
  /\ breaks = 0

-----------------------------------------------------------------------------
\* External: the connection to rank r fails.
Drop(r) ==
  /\ "DROP" \in Faults /\ breaks < MaxBreaks
  /\ wire[r]
  /\ wire' = [wire EXCEPT ![r] = FALSE]
  /\ breaks' = breaks + 1
  /\ UNCHANGED <<to_rank, from_rank, client_end, daemon_end, work,
                 clientVars, daemonVars>>

Restart(r) ==
  /\ "RESTART" \in Faults /\ breaks < MaxBreaks
  /\ RankRestart(r)
  /\ breaks' = breaks + 1
  /\ UNCHANGED clientVars

\* EnsureConnected and the hello exchange: a new connection, nothing on it.
Reconnect(r) ==
  /\ Reconnected(r) /\ ClientAdopted(r)
  /\ client_end' = [client_end EXCEPT ![r] = TRUE]
  /\ daemon_end' = [daemon_end EXCEPT ![r] = TRUE]
  /\ wire' = [wire EXCEPT ![r] = TRUE]
  /\ to_rank' = [to_rank EXCEPT ![r] = << >>]
  /\ from_rank' = [from_rank EXCEPT ![r] = << >>]
  /\ UNCHANGED <<work, breaks>>

EngineStep ==
  \E id \in Ids, kind \in WorkKinds, lanes \in LaneSets,
     follows \in BOOLEAN, deadline \in Deadlines :
    Submit(id, kind, lanes, follows, deadline)

ClientStep(r) ==
  \/ RankResult(r)
  \/ RankDecisionResult(r)
  \/ RankCompletion(r)
  \/ ConnectionLost(r)

MessageStep(r) ==
  \/ ReadPrepare(r)
  \/ ReadContinue(r)
  \/ ReadDecision(r)
  \/ DaemonEof(r)

RouteStep(r, id) ==
  \/ PrepareContinuation(r, id)
  \/ InputArrives(r, id)
  \/ SubmitAdapter(r, id)
  \/ Completion(r, id)
  \/ OutputSent(r, id)
  \/ ExpireTransportRoute(r, id)
  \/ TransportCancelled(r, id)
  \/ FinalizeFailedRoute(r, id)
  \/ AbortPrepared(r, id)

Next ==
  \/ (EngineStep \/ \E r \in Ranks : ClientStep(r)) /\ UNCHANGED <<daemonVars, breaks>>
  \/ \E r \in Ranks : MessageStep(r) /\ UNCHANGED <<clientVars, breaks>>
  \/ \E r \in Ranks, id \in Ids : RouteStep(r, id) /\ UNCHANGED <<clientVars, breaks>>
  \/ \E r \in Ranks : Reconnect(r)
  \/ \E r \in Ranks : Drop(r) \/ Restart(r)

Spec == Init /\ [][Next]_vars

\* The loops of the client and of every daemon come round again and again,
\* each looking at every connection and every route; the engine may stop
\* submitting and nothing obliges the network or a daemon to fail.
Fairness ==
  \A r \in Ranks :
    /\ WF_vars(ClientStep(r) /\ UNCHANGED <<daemonVars, breaks>>)
    /\ WF_vars(MessageStep(r) /\ UNCHANGED <<clientVars, breaks>>)
    /\ WF_vars(Reconnect(r))
    /\ \A id \in Ids : WF_vars(RouteStep(r, id) /\ UNCHANGED <<clientVars, breaks>>)

FairSpec == Spec /\ Fairness

-----------------------------------------------------------------------------
(* Properties.                                                             *)

Continued(id) == \E s \in work[id].lanes : work[id].lease[s] # NoId
Current(id) == failed_status = "OK" /\ work[id].session = session

\* Every rank hands work to its adapter in the order the client submitted it,
\* whatever the order of votes, decisions, continuations and failures: ranks
\* that meet in a collective always meet for the same submission
\* (EnqueueCommitted, EarlierRouteUncommitted and SubmitAdapter).
RunsInOrder ==
  \A r \in Ranks : \A i, j \in DOMAIN history[r].ran :
    i < j => history[r].ran[i] < history[r].ran[j]

\* Work that needs a vote runs on no rank unless every rank has voted for it,
\* also when connections break between the decision and its delivery
\* (ResolveAdmission, ProcessDecision, AbortPreparedRoutes).
UnanimousRun ==
  \A r \in Ranks, id \in Ids :
    Ran(r, id) /\ ~Continued(id) => \A q \in Ranks : id \in history[q].prepared

\* The engine is told that work succeeded only if every rank has run it to a
\* successful end (RankCompletion, ReportCompletion).
SuccessIsTotal ==
  \A id \in Ids : outcome[id].completion = "OK" =>
    \A r \in Ranks : id \in history[r].done

\* Within a session, when the engine is told that work is over, however it
\* ended, no rank is running it or can still start it
\* (RankCompletion, RankDecisionResult, ReportCompletion).
EndedEverywhere ==
  \A id \in Ids : Current(id) /\ outcome[id].completion # "NONE" =>
    \A r \in Ranks : routes[r][id].state \in
                       {"IDLE", "FAILED", "CANCEL_INPUT", "CANCEL_OUTPUT"}

\* A rank never serves a new session with routes of the old one: a route the
\* client has abandoned keeps the rank out of the pipeline until it is gone
\* (ProgressReset).
SessionIsolation ==
  \A r \in Ranks, id \in Ids :
    Active(r, id) /\ daemon_end[r] => ~routes[r][id].abandoned /\ work[id].session >= session

\* What the pipeline owes the engine is delivered: every submission it accepts
\* is completed, whatever breaks on the way (RankCompletion, FailTransactions).
SubmissionsEnd ==
  \A id \in Ids : transactions[id].active ~> ~transactions[id].active

\* A pipeline that has failed is usable again once things stop breaking: every
\* rank sheds its old routes and takes the client back (Progress of the
\* client, AbortPreparedRoutes, ExpireTransportRoute, ProgressReset).
Heals == failed_status # "OK" ~> failed_status = "OK"

\* The pipeline as its user sees it.
Port ==
  INSTANCE SubmissionPort WITH
    Tickets <- Ids,
    up <- failed_status = "OK",
    epoch <- session,
    port <- [id \in Ids |->
               IF id > last_submission_id THEN "NEW"
               ELSE IF outcome[id].completion # "NONE"
                    THEN IF outcome[id].completion = "OK" THEN "OK" ELSE "FAILED"
               ELSE CASE outcome[id].result = "NONE" -> "SUBMITTED"
                      [] outcome[id].result = "OK" -> "ADMITTED"
                      [] OTHER -> "DOOMED"]

\* The pipeline keeps the contract of SubmissionPort: results and completions
\* once each and in order, no success after a failed result, and a failure of
\* the pipeline that ends everything outstanding before the next session
\* (ReportResult, ReportCompletion, FailTransactions, PublishSession).
PortRefined == Port!PortSpec

-----------------------------------------------------------------------------
(* What the documents say and the code does not keep.                      *)

\* BUSY is backpressure: a rank is not asked to continue work without having
\* a route for it, which it can answer only by dropping the session
\* (ReserveRoute in ProcessContinuation).
ContinuationHasRoute ==
  \A r \in Ranks : wire[r] /\ daemon_end[r] /\ to_rank[r] # << >> =>
    (Head(to_rank[r]).kind = "CONTINUE" => ~Full(r))
=============================================================================
