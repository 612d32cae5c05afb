------------------------- MODULE PipelineTypeProofs -------------------------
(***************************************************************************)
(* The type invariant of ResidentPipeline, for every number of ranks,      *)
(* submissions and slots, every capacity and every set of faults.          *)
(***************************************************************************)
EXTENDS PipelineInvariants, TLAPS

LEMMA NoTransactionType == NoTransaction \in Transaction
  BY DEF NoTransaction, Transaction, Statuses

LEMMA NoRouteType == NoRoute \in Route
  BY DEF NoRoute, Route, RouteStates, Statuses

LEMMA ReplyType ==
  ASSUME NEW kind \in {"RESULT", "COMMIT", "ABORT", "COMPLETION"},
         NEW id \in Ids, NEW st \in Statuses
  PROVE  Reply(kind, id, st) \in Replies
  BY DEF Reply, Replies

LEMMA InitType == Init => TypeOK
<1> SUFFICES ASSUME Init PROVE TypeOK
  OBVIOUS
<1>1. LinkTypeOK
  <2>1. NoWork \in Work
    BY DEF NoWork, Work, Kinds, NoId
  <2> QED
    BY <2>1 DEF Init, LinkInit, LinkTypeOK
<1>2. ClientTypeOK
  <2>1. Untold \in Outcome
    BY DEF Untold, Outcome
  <2> QED
    BY <2>1, NoTransactionType DEF Init, ClientInit, ClientTypeOK, Pending, Statuses, NoId
<1>3. DaemonTypeOK
  <2>1. [prepared |-> {}, ran |-> << >>, done |-> {}] \in History
    BY DEF History
  <2> QED
    BY <2>1, NoRouteType DEF Init, DaemonInit, DaemonTypeOK, NoId
<1> QED
  BY <1>1, <1>2, <1>3, PipelineAssumption DEF Init, TypeOK

-----------------------------------------------------------------------------
(* The client.                                                             *)

LEMMA BroadcastType ==
  ASSUME LinkTypeOK, NEW kind \in {"PREPARE", "CONTINUE", "COMMIT", "ABORT"},
         NEW id \in Ids, NEW targets
  PROVE  Broadcast(kind, id, targets) \in [Ranks -> Seq(Requests)]
<1>1. Request(kind, id) \in Requests
  BY DEF Request, Requests
<1>2. \A r \in Ranks : Append(to_rank[r], Request(kind, id)) \in Seq(Requests)
  BY <1>1 DEF LinkTypeOK
<1> QED
  BY <1>2 DEF Broadcast, LinkTypeOK

\* What a step of the client owes its own variables.
ClientStepTyped ==
  /\ transactions' \in [Ids -> Transaction]
  /\ outcome' \in [Ids -> Outcome]
  /\ leases' \in [Slots -> Ids \union {NoId}]
  /\ failed_status' \in Statuses
  /\ last_submission_id' \in Ids \union {NoId}
  /\ session' \in Nat

LEMMA RecordFailureType ==
  ASSUME NEW t \in Transaction, NEW st \in Statuses
  PROVE  RecordFailure(t, st) \in Transaction
  BY DEF RecordFailure, Transaction

LEMMA ReportResultType ==
  ASSUME NEW t \in Transaction
  PROVE  ReportResult(t) \in Transaction
  BY Zenon DEF ReportResult, Transaction

LEMMA ToldType ==
  ASSUME NEW o \in Outcome, NEW before, NEW t \in Transaction
  PROVE  Told(o, before, t) \in Outcome
  BY DEF Told, Outcome, Transaction

LEMMA ConcludeType ==
  ASSUME ClientTypeOK, NEW id \in Ids, NEW t \in Transaction, Conclude(id, t)
  PROVE  ClientStepTyped
<1> DEFINE now == ReportResult(t)
<1>1. now \in Transaction
  BY ReportResultType
<1> HIDE DEF now
<1>2. transactions' = [transactions EXCEPT
                         ![id] = IF CompletionDue(now) THEN NoTransaction ELSE now]
  BY DEF Conclude, now
<1>3. outcome' = [outcome EXCEPT ![id] = Told(@, transactions[id], now)]
  BY DEF Conclude, now
<1>4. leases' = LeasesAfter(id, now)
  BY DEF Conclude, now
<1>5. transactions' \in [Ids -> Transaction]
  BY <1>1, <1>2, NoTransactionType DEF ClientTypeOK
<1>6. Told(outcome[id], transactions[id], now) \in Outcome
  BY <1>1, ToldType DEF ClientTypeOK
<1>7. outcome' \in [Ids -> Outcome]
  BY <1>3, <1>6 DEF ClientTypeOK
<1>8. leases' \in [Slots -> Ids \union {NoId}]
  BY <1>4 DEF LeasesAfter, ClientTypeOK
<1> QED
  BY <1>5, <1>7, <1>8 DEF Conclude, ClientTypeOK, ClientStepTyped

LEMMA FailPipelineType ==
  ASSUME LinkTypeOK, ClientTypeOK, NEW txs \in [Ids -> Transaction],
         NEW told \in [Ids -> Outcome], NEW st \in Statuses,
         FailPipeline(txs, told, st)
  PROVE  LinkTypeOK' /\ ClientTypeOK'
<1>1. outcome' \in [Ids -> Outcome]
  BY DEF FailPipeline, Drained, Outcome
<1>2. /\ transactions' \in [Ids -> Transaction]
      /\ pending' \in [Ranks -> [Ids -> Pending]]
      /\ leases' \in [Slots -> Ids \union {NoId}]
  BY NoTransactionType DEF FailPipeline, Pending
<1>3. ClientTypeOK'
  BY <1>1, <1>2 DEF FailPipeline, ClientTypeOK
<1>4. LinkTypeOK'
  BY DEF FailPipeline, LinkTypeOK
<1> QED
  BY <1>3, <1>4

LEMMA FailAfterType ==
  ASSUME LinkTypeOK, ClientTypeOK, NEW id \in Ids, NEW t \in Transaction,
         NEW st \in Statuses, FailAfter(id, t, st)
  PROVE  LinkTypeOK' /\ ClientTypeOK'
<1> DEFINE now == ReportResult(t)
           txs == [transactions EXCEPT ![id] = IF CompletionDue(now)
                                               THEN NoTransaction ELSE now]
           told == [outcome EXCEPT ![id] = Told(@, transactions[id], now)]
<1>1. now \in Transaction
  BY ReportResultType
<1>2. FailPipeline(txs, told, st)
  BY DEF FailAfter
<1> HIDE DEF now
<1>3. txs \in [Ids -> Transaction]
  BY <1>1, NoTransactionType DEF ClientTypeOK
<1>4. Told(outcome[id], transactions[id], now) \in Outcome
  BY <1>1, ToldType DEF ClientTypeOK
<1>5. told \in [Ids -> Outcome]
  BY <1>4 DEF ClientTypeOK
<1> HIDE DEF txs, told
<1> QED
  BY <1>2, <1>3, <1>5, FailPipelineType

LEMMA SubmitType ==
  ASSUME LinkTypeOK, ClientTypeOK, NEW id \in Ids, NEW kind \in WorkKinds,
         NEW lanes \in LaneSets, NEW follows \in BOOLEAN,
         NEW deadline \in Deadlines, Submit(id, kind, lanes, follows, deadline)
  PROVE  LinkTypeOK' /\ ClientTypeOK'
<1> DEFINE continued == CanContinue(kind, lanes, follows)
           t == [NoTransaction EXCEPT !.active = TRUE, !.continued = continued]
           w == [kind |-> kind, lanes |-> lanes, deadline |-> deadline,
                 session |-> session,
                 lease |-> [s \in Slots |-> IF continued /\ s \in lanes
                                            THEN leases[s] ELSE NoId]]
<1>1. continued \in BOOLEAN
  BY DEF CanContinue
<1>2. t \in Transaction
  BY ZenonT(60), <1>1 DEF NoTransaction, Transaction, Statuses
<1>3. w \in Work
  BY PipelineAssumption DEF Work, ClientTypeOK
<1>4. /\ transactions' = [transactions EXCEPT ![id] = t]
      /\ work' = [work EXCEPT ![id] = w]
      /\ to_rank' = Broadcast(IF continued THEN "CONTINUE" ELSE "PREPARE", id, Ranks)
  BY DEF Submit
<1> HIDE DEF continued, t, w
<1>5. to_rank' \in [Ranks -> Seq(Requests)]
  BY <1>4, BroadcastType
<1>6. LinkTypeOK'
  BY <1>3, <1>4, <1>5 DEF Submit, LinkTypeOK
<1>7. pending' \in [Ranks -> [Ids -> Pending]]
  BY DEF Submit, ClientTypeOK, Pending
<1>8. transactions' \in [Ids -> Transaction]
  BY <1>2, <1>4 DEF ClientTypeOK
<1>9. ClientTypeOK'
  BY <1>7, <1>8 DEF Submit, ClientTypeOK
<1> QED
  BY <1>6, <1>9

\* The first message of a rank's stream, and the stream without it.
LEMMA ReceivedType ==
  ASSUME LinkTypeOK, NEW r \in Ranks, from_rank[r] # << >>
  PROVE  /\ Head(from_rank[r]) \in Replies
         /\ [from_rank EXCEPT ![r] = Tail(@)] \in [Ranks -> Seq(Replies)]
  BY DEF LinkTypeOK

LEMMA DecideType ==
  ASSUME LinkTypeOK, ClientTypeOK, NEW id \in Ids, NEW t \in Transaction,
         NEW kind \in {"COMMIT", "ABORT"}, NEW targets \in SUBSET Ranks,
         Decide(id, t, kind, targets)
  PROVE  /\ to_rank' \in [Ranks -> Seq(Requests)]
         /\ ClientTypeOK'
<1> DEFINE decided == [t EXCEPT !.decision_kind = kind,
                                !.decision_expected_mask = targets,
                                !.completion_mask = IF targets = {} THEN Ranks ELSE @]
<1>1. decided \in Transaction
  BY Zenon DEF Transaction
<1>2. Conclude(id, decided)
  BY DEF Decide
<1> HIDE DEF decided
<1>3. ClientStepTyped
  BY <1>1, <1>2, ConcludeType
<1>4. pending' \in [Ranks -> [Ids -> Pending]]
  BY DEF Decide, ClientTypeOK, Pending
<1>5. to_rank' \in [Ranks -> Seq(Requests)]
  BY BroadcastType DEF Decide
<1> QED
  BY <1>3, <1>4, <1>5 DEF ClientStepTyped, ClientTypeOK

LEMMA RejectStreamType ==
  ASSUME LinkTypeOK, ClientTypeOK, RejectStream
  PROVE  LinkTypeOK' /\ ClientTypeOK'
  BY FailPipelineType DEF RejectStream, ClientTypeOK, Statuses

LEMMA RankResultType ==
  ASSUME LinkTypeOK, ClientTypeOK, NEW r \in Ranks, RankResult(r)
  PROVE  LinkTypeOK' /\ ClientTypeOK'
<1> DEFINE m == Head(from_rank[r])
           old == transactions[m.id]
           voted == [old EXCEPT !.result_mask = @ \union {r},
                                !.prepared_mask = IF m.status = "OK"
                                                  THEN @ \union {r} ELSE @]
           t == IF m.status = "OK" THEN voted ELSE RecordFailure(voted, m.status)
           all == t.result_mask = Ranks
           broken == m.status # "OK" \/ (all /\ t.status # "OK")
<1>1. /\ m \in Replies
      /\ [from_rank EXCEPT ![r] = Tail(@)] \in [Ranks -> Seq(Replies)]
  BY Zenon, ReceivedType DEF RankResult, Receives
<1>2. m.id \in Ids /\ m.status \in Statuses
  BY <1>1 DEF Replies
<1>3. old \in Transaction
  BY SMTT(60), <1>2 DEF ClientTypeOK
<1>4. voted \in Transaction
  BY Zenon, <1>3 DEF Transaction
<1>5. t \in Transaction
  BY Zenon, <1>2, <1>4, RecordFailureType
<1>6. \/ RejectStream
      \/ FailPipeline([transactions EXCEPT ![m.id] = t], outcome,
                      IF m.status # "OK" THEN m.status ELSE t.status)
      \/ /\ Consume(r)
         /\ pending' = [pending EXCEPT ![r][m.id] = "COMMITTED"]
         /\ Conclude(m.id, t)
         /\ UNCHANGED <<to_rank, wire, client_end, daemon_end, work>>
      \/ /\ Consume(r)
         /\ pending' = [pending EXCEPT ![r][m.id] = IF m.status = "OK" THEN "PREPARED"
                                                                       ELSE "NONE"]
         /\ Conclude(m.id, t)
         /\ UNCHANGED <<to_rank, wire, client_end, daemon_end, work>>
      \/ /\ Consume(r)
         /\ Decide(m.id, t, IF t.status = "OK" THEN "COMMIT" ELSE "ABORT",
                   t.prepared_mask)
         /\ UNCHANGED <<wire, client_end, daemon_end, work>>
      \/ FailPipeline([transactions EXCEPT ![m.id] = t], outcome, "BUSY")
  BY Zenon DEF RankResult
<1> HIDE DEF m, old, voted, t
<1>7. CASE RejectStream
  BY <1>7, RejectStreamType
<1>8. [transactions EXCEPT ![m.id] = t] \in [Ids -> Transaction]
  BY <1>2, <1>5 DEF ClientTypeOK
<1>9. t.status \in Statuses /\ t.prepared_mask \in SUBSET Ranks
  BY <1>5 DEF Transaction
<1>10. ASSUME NEW st \in Statuses,
              FailPipeline([transactions EXCEPT ![m.id] = t], outcome, st)
       PROVE  LinkTypeOK' /\ ClientTypeOK'
  BY Zenon, <1>8, <1>10, FailPipelineType DEF ClientTypeOK
<1>11. CASE FailPipeline([transactions EXCEPT ![m.id] = t], outcome,
                         IF m.status # "OK" THEN m.status ELSE t.status)
  BY <1>2, <1>9, <1>10, <1>11
<1>12. CASE FailPipeline([transactions EXCEPT ![m.id] = t], outcome, "BUSY")
  BY <1>10, <1>12 DEF Statuses
<1>13. ASSUME NEW p \in Pending, Consume(r), Conclude(m.id, t),
              pending' = [pending EXCEPT ![r][m.id] = p],
              UNCHANGED <<to_rank, wire, client_end, daemon_end, work>>
       PROVE  LinkTypeOK' /\ ClientTypeOK'
  <2>1. ClientStepTyped
    BY <1>2, <1>5, <1>13, ConcludeType
  <2>2. pending' \in [Ranks -> [Ids -> Pending]]
    BY <1>2, <1>13 DEF ClientTypeOK
  <2>3. LinkTypeOK'
    BY <1>1, <1>13 DEF Consume, LinkTypeOK
  <2> QED
    BY <2>1, <2>2, <2>3 DEF ClientStepTyped, ClientTypeOK
<1>14. CASE /\ Consume(r)
            /\ Decide(m.id, t, IF t.status = "OK" THEN "COMMIT" ELSE "ABORT",
                      t.prepared_mask)
            /\ UNCHANGED <<wire, client_end, daemon_end, work>>
  <2>1. to_rank' \in [Ranks -> Seq(Requests)] /\ ClientTypeOK'
    BY <1>2, <1>5, <1>9, <1>14, DecideType
  <2> QED
    BY ZenonT(60), <1>1, <1>14, <2>1 DEF Consume, LinkTypeOK
<1> QED
  BY SMTT(60), <1>6, <1>7, <1>11, <1>12, <1>13, <1>14 DEF Pending

LEMMA RankDecisionResultType ==
  ASSUME LinkTypeOK, ClientTypeOK, NEW r \in Ranks, RankDecisionResult(r)
  PROVE  LinkTypeOK' /\ ClientTypeOK'
<1> DEFINE m == Head(from_rank[r])
           old == transactions[m.id]
           decided == [old EXCEPT !.decision_result_mask = @ \union {r}]
           t == IF m.status = "OK" THEN decided ELSE RecordFailure(decided, m.status)
           all == t.decision_result_mask = t.decision_expected_mask
           ended == IF all /\ m.kind = "ABORT"
                    THEN [t EXCEPT !.completion_mask = Ranks] ELSE t
<1>1. /\ m \in Replies
      /\ [from_rank EXCEPT ![r] = Tail(@)] \in [Ranks -> Seq(Replies)]
  BY Zenon, ReceivedType DEF RankDecisionResult, Receives
<1>2. m.id \in Ids /\ m.status \in Statuses
  BY <1>1 DEF Replies
<1>3. old \in Transaction
  BY <1>2 DEF ClientTypeOK
<1>4. decided \in Transaction
  BY Zenon, <1>3 DEF Transaction
<1>5. t \in Transaction
  BY <1>2, <1>4, RecordFailureType
<1>6. ended \in Transaction
  <2> HIDE DEF t
  <2> QED
    BY <1>5 DEF Transaction
<1>7. \/ RejectStream
      \/ FailAfter(m.id, ended, m.status)
      \/ /\ Consume(r)
         /\ pending' = [pending EXCEPT ![r][m.id] = IF m.kind = "COMMIT"
                                                    THEN "COMMITTED" ELSE "NONE"]
         /\ Conclude(m.id, ended)
         /\ UNCHANGED <<to_rank, wire, client_end, daemon_end, work>>
  BY Zenon DEF RankDecisionResult
<1> HIDE DEF m, old, decided, t, ended
<1>8. CASE RejectStream
  BY <1>8, RejectStreamType
<1>9. CASE FailAfter(m.id, ended, m.status)
  BY <1>2, <1>6, <1>9, FailAfterType
<1>10. CASE /\ Consume(r)
            /\ pending' = [pending EXCEPT ![r][m.id] = IF m.kind = "COMMIT"
                                                       THEN "COMMITTED" ELSE "NONE"]
            /\ Conclude(m.id, ended)
            /\ UNCHANGED <<to_rank, wire, client_end, daemon_end, work>>
  <2>1. ClientStepTyped
    BY <1>2, <1>6, <1>10, ConcludeType
  <2>2. pending' \in [Ranks -> [Ids -> Pending]]
    BY <1>2, <1>10 DEF ClientTypeOK, Pending
  <2>3. LinkTypeOK'
    BY <1>1, <1>10 DEF Consume, LinkTypeOK
  <2> QED
    BY <2>1, <2>2, <2>3 DEF ClientStepTyped, ClientTypeOK
<1> QED
  BY <1>7, <1>8, <1>9, <1>10

LEMMA RankCompletionType ==
  ASSUME LinkTypeOK, ClientTypeOK, NEW r \in Ranks, RankCompletion(r)
  PROVE  LinkTypeOK' /\ ClientTypeOK'
<1> DEFINE m == Head(from_rank[r])
           old == transactions[m.id]
           done == [old EXCEPT !.completion_mask = @ \union {r}]
           t == IF m.status = "OK" THEN done ELSE RecordFailure(done, m.status)
<1>1. /\ m \in Replies
      /\ [from_rank EXCEPT ![r] = Tail(@)] \in [Ranks -> Seq(Replies)]
  BY SMTT(60), ReceivedType DEF RankCompletion, Receives
<1>2. m.id \in Ids /\ m.status \in Statuses
  BY <1>1 DEF Replies
<1>3. old \in Transaction
  BY <1>2 DEF ClientTypeOK
<1>4. done \in Transaction
  BY Zenon, <1>3 DEF Transaction
<1>5. t \in Transaction
  BY <1>2, <1>4, RecordFailureType
<1>6. \/ RejectStream
      \/ /\ Consume(r)
         /\ pending' = [pending EXCEPT ![r][m.id] = "NONE"]
         /\ Conclude(m.id, t)
         /\ UNCHANGED <<to_rank, wire, client_end, daemon_end, work>>
  BY Zenon DEF RankCompletion
<1> HIDE DEF m, old, done, t
<1>7. CASE RejectStream
  BY <1>7, RejectStreamType
<1>8. CASE /\ Consume(r)
           /\ pending' = [pending EXCEPT ![r][m.id] = "NONE"]
           /\ Conclude(m.id, t)
           /\ UNCHANGED <<to_rank, wire, client_end, daemon_end, work>>
  <2>1. ClientStepTyped
    BY <1>2, <1>5, <1>8, ConcludeType
  <2>2. pending' \in [Ranks -> [Ids -> Pending]]
    BY <1>2, <1>8 DEF ClientTypeOK, Pending
  <2>3. LinkTypeOK'
    BY <1>1, <1>8 DEF Consume, LinkTypeOK
  <2> QED
    BY <2>1, <2>2, <2>3 DEF ClientStepTyped, ClientTypeOK
<1> QED
  BY <1>6, <1>7, <1>8

LEMMA ConnectionLostType ==
  ASSUME LinkTypeOK, ClientTypeOK, NEW r \in Ranks, ConnectionLost(r)
  PROVE  LinkTypeOK' /\ ClientTypeOK'
<1>1. CASE FailPipeline(transactions, outcome, "IO_ERROR")
  BY <1>1, FailPipelineType DEF ClientTypeOK, Statuses
<1>2. CASE /\ client_end' = [client_end EXCEPT ![r] = FALSE]
           /\ from_rank' = [from_rank EXCEPT ![r] = << >>]
           /\ UNCHANGED <<to_rank, wire, daemon_end, work, clientVars>>
  <2>1. LinkTypeOK'
    BY <1>2 DEF LinkTypeOK
  <2>2. ClientTypeOK'
    BY <1>2 DEF clientVars, ClientTypeOK
  <2> QED
    BY <2>1, <2>2
<1> QED
  BY <1>1, <1>2 DEF ConnectionLost

-----------------------------------------------------------------------------
(* The daemon.                                                             *)

LEMMA SetRouteType ==
  ASSUME DaemonTypeOK, NEW r \in Ranks, NEW id \in Ids, NEW route \in Route,
         SetRoute(r, id, route)
  PROVE  routes' \in [Ranks -> [Ids -> Route]]
  BY DEF SetRoute, DaemonTypeOK

LEMMA ClaimType ==
  ASSUME DaemonTypeOK, NEW r \in Ranks, NEW id \in Ids
  PROVE  /\ ClaimResidentSlots(r, id) =>
              owner' \in [Ranks -> [Slots -> Ids \union {NoId}]]
         /\ ReleaseResidentSlots(r, id) =>
              owner' \in [Ranks -> [Slots -> Ids \union {NoId}]]
<1>1. \A s \in Slots : owner[r][s] \in Ids \union {NoId}
  BY DEF DaemonTypeOK
<1>2. ASSUME ClaimResidentSlots(r, id)
      PROVE  owner' \in [Ranks -> [Slots -> Ids \union {NoId}]]
  BY <1>1, <1>2 DEF ClaimResidentSlots, DaemonTypeOK
<1>3. ASSUME ReleaseResidentSlots(r, id)
      PROVE  owner' \in [Ranks -> [Slots -> Ids \union {NoId}]]
  BY <1>1, <1>3 DEF ReleaseResidentSlots, DaemonTypeOK
<1> QED
  BY <1>2, <1>3

LEMMA LeaseType ==
  ASSUME DaemonTypeOK, NEW r \in Ranks, NEW id \in Ids,
         NEW value \in Ids \union {NoId}, SetLeases(r, id, value)
  PROVE  lease' \in [Ranks -> [Slots -> Ids \union {NoId}]]
  BY DEF SetLeases, DaemonTypeOK

LEMMA DropClaimsType ==
  ASSUME DaemonTypeOK, NEW r \in Ranks, NEW id \in Ids, DropClaims(r, id)
  PROVE  /\ owner' \in [Ranks -> [Slots -> Ids \union {NoId}]]
         /\ lease' \in [Ranks -> [Slots -> Ids \union {NoId}]]
  BY ClaimType, LeaseType DEF DropClaims

LEMMA CompleteSlotsType ==
  ASSUME DaemonTypeOK, NEW r \in Ranks, NEW id \in Ids, NEW st,
         CompleteResidentSlots(r, id, st)
  PROVE  /\ owner' \in [Ranks -> [Slots -> Ids \union {NoId}]]
         /\ lease' \in [Ranks -> [Slots -> Ids \union {NoId}]]
  BY ClaimType, LeaseType DEF CompleteResidentSlots

LEMMA SendType ==
  ASSUME LinkTypeOK, NEW r \in Ranks,
         NEW kind \in {"RESULT", "COMMIT", "ABORT", "COMPLETION"},
         NEW id \in Ids, NEW st \in Statuses, NEW quiet
  PROVE  /\ Send(r, kind, id, st) => from_rank' \in [Ranks -> Seq(Replies)]
         /\ SendUnless(quiet, r, kind, id, st) =>
              from_rank' \in [Ranks -> Seq(Replies)]
<1>1. Append(from_rank[r], Reply(kind, id, st)) \in Seq(Replies)
  BY ReplyType DEF LinkTypeOK
<1>2. ASSUME Send(r, kind, id, st)
      PROVE  from_rank' \in [Ranks -> Seq(Replies)]
  BY <1>1, <1>2 DEF Send, LinkTypeOK
<1>3. ASSUME SendUnless(quiet, r, kind, id, st)
      PROVE  from_rank' \in [Ranks -> Seq(Replies)]
  BY <1>2, <1>3 DEF SendUnless, LinkTypeOK
<1> QED
  BY <1>2, <1>3

LEMMA NoteType ==
  ASSUME DaemonTypeOK, NEW r \in Ranks, NEW id \in Ids
  PROVE  /\ NotePrepared(r, id) => history' \in [Ranks -> History]
         /\ NoteDone(r, id) => history' \in [Ranks -> History]
<1>1. history[r] \in History
  BY DEF DaemonTypeOK
<1>2. /\ [history[r] EXCEPT !.prepared = @ \union {id}] \in History
      /\ [history[r] EXCEPT !.done = @ \union {id}] \in History
  BY <1>1 DEF History
<1> QED
  BY Zenon, <1>2 DEF NotePrepared, NoteDone, DaemonTypeOK

LEMMA CloseEndType ==
  ASSUME LinkTypeOK, NEW r \in Ranks, CloseEnd(r),
         UNCHANGED <<client_end, work>>, from_rank' \in [Ranks -> Seq(Replies)]
  PROVE  LinkTypeOK'
<1>1. to_rank' \in [Ranks -> Seq(Requests)]
  BY DEF CloseEnd, LinkTypeOK
<1>2. wire' \in [Ranks -> BOOLEAN] /\ daemon_end' \in [Ranks -> BOOLEAN]
  BY DEF CloseEnd, LinkTypeOK
<1> QED
  BY <1>1, <1>2 DEF LinkTypeOK

LEMMA AbandonType ==
  ASSUME DaemonTypeOK, NEW r \in Ranks, NEW id \in Ids
  PROVE  Abandon(r, id) \in Route
<1>1. routes[r][id] \in Route
  BY DEF DaemonTypeOK
<1>2. [routes[r][id] EXCEPT !.abandoned = TRUE] \in Route
  BY Zenon, <1>1 DEF Route
<1> QED
  BY <1>2, NoRouteType DEF Abandon

LEMMA FateType ==
  ASSUME NEW route \in Route, NEW fate \in {"IDLE", "RESERVED", "FAILED"}
  PROVE  Fate(route, fate) \in Route
<1>1. CASE fate = "IDLE"
  BY <1>1, NoRouteType DEF Fate
<1>2. CASE fate = "RESERVED"
  BY Zenon, <1>2 DEF Fate, Route
<1>3. CASE fate = "FAILED"
  BY Zenon, <1>3 DEF Fate, Route, RouteStates, Statuses
<1> QED
  BY <1>1, <1>2, <1>3

\* From the variables a step of the daemon assigns to the two type invariants.
LEMMA DaemonAssembled ==
  ASSUME LinkTypeOK, DaemonTypeOK,
         UNCHANGED <<wire, client_end, daemon_end, work>>,
         to_rank' \in [Ranks -> Seq(Requests)],
         from_rank' \in [Ranks -> Seq(Replies)],
         routes' \in [Ranks -> [Ids -> Route]],
         owner' \in [Ranks -> [Slots -> Ids \union {NoId}]],
         lease' \in [Ranks -> [Slots -> Ids \union {NoId}]],
         sent' \subseteq Ranks \X Ids,
         history' \in [Ranks -> History]
  PROVE  LinkTypeOK' /\ DaemonTypeOK'
  BY DEF LinkTypeOK, DaemonTypeOK

LEMMA ReadType ==
  ASSUME LinkTypeOK, NEW r \in Ranks, to_rank[r] # << >>
  PROVE  /\ Head(to_rank[r]) \in Requests
         /\ Head(to_rank[r]).id \in Ids
         /\ Consumed(r) => to_rank' \in [Ranks -> Seq(Requests)]
<1>1. Head(to_rank[r]) \in Requests /\ Tail(to_rank[r]) \in Seq(Requests)
  BY DEF LinkTypeOK
<1>2. Head(to_rank[r]).id \in Ids
  BY <1>1 DEF Requests
<1>3. Consumed(r) => to_rank' \in [Ranks -> Seq(Requests)]
  BY <1>1 DEF Consumed, LinkTypeOK
<1> QED
  BY <1>1, <1>2, <1>3

LEMMA CloseClientType ==
  ASSUME LinkTypeOK, DaemonTypeOK, NEW r \in Ranks, CloseClient(r)
  PROVE  LinkTypeOK' /\ DaemonTypeOK'
<1>1. LinkTypeOK'
  BY CloseEndType DEF CloseClient, LinkTypeOK
<1>2. lease' \in [Ranks -> [Slots -> Ids \union {NoId}]]
  BY DEF CloseClient, DaemonTypeOK
<1>3. PICK fate \in [Reserved(r) -> AbortFates] :
        /\ routes' = [routes EXCEPT ![r] = [id \in Ids |->
                        IF id \in Reserved(r) THEN Fate(routes[r][id], fate[id])
                                              ELSE Abandon(r, id)]]
        /\ owner' = [owner EXCEPT ![r] = [s \in Slots |->
                        IF \E id \in Reserved(r) : owner[r][s] = id /\ fate[id] = "IDLE"
                        THEN NoId ELSE owner[r][s]]]
  BY Zenon DEF CloseClient
<1>4. ASSUME NEW id \in Ids
      PROVE  (IF id \in Reserved(r) THEN Fate(routes[r][id], fate[id])
                                    ELSE Abandon(r, id)) \in Route
  <2>1. CASE id \in Reserved(r)
    <3>1. fate[id] \in {"IDLE", "RESERVED", "FAILED"}
      BY <2>1 DEF AbortFates
    <3>2. routes[r][id] \in Route
      BY DEF DaemonTypeOK
    <3> QED
      BY <2>1, <3>1, <3>2, FateType
  <2>2. CASE id \notin Reserved(r)
    BY <2>2, AbandonType
  <2> QED
    BY <2>1, <2>2
<1>5. routes' \in [Ranks -> [Ids -> Route]]
  BY <1>3, <1>4 DEF DaemonTypeOK
<1>6. owner' \in [Ranks -> [Slots -> Ids \union {NoId}]]
  <2>1. \A s \in Slots : owner[r][s] \in Ids \union {NoId}
    BY DEF DaemonTypeOK
  <2>2. [s \in Slots |->
           IF \E id \in Reserved(r) : owner[r][s] = id /\ fate[id] = "IDLE"
           THEN NoId ELSE owner[r][s]] \in [Slots -> Ids \union {NoId}]
    BY <2>1
  <2> QED
    BY <1>3, <2>2 DEF DaemonTypeOK
<1> QED
  BY SMTT(60), <1>1, <1>2, <1>5, <1>6 DEF CloseClient, DaemonTypeOK

LEMMA ReadPrepareType ==
  ASSUME LinkTypeOK, DaemonTypeOK, NEW r \in Ranks, ReadPrepare(r)
  PROVE  LinkTypeOK' /\ DaemonTypeOK'
<1> DEFINE id == Head(to_rank[r]).id
           reserved == [NoRoute EXCEPT !.state = "RESERVED", !.answered = TRUE,
                                       !.cached = TRUE]
           failed == [NoRoute EXCEPT !.state = "FAILED", !.delivered = TRUE,
                                     !.cached = TRUE, !.failure = "BUSY"]
<1>1. id \in Ids /\ to_rank' \in [Ranks -> Seq(Requests)]
  BY ReadType DEF ReadPrepare, Reads
<1>2. reserved \in Route /\ failed \in Route
  BY Zenon DEF NoRoute, Route, RouteStates, Statuses
<1>3. /\ UNCHANGED <<wire, client_end, daemon_end, work, lease, sent>>
      /\ \/ /\ SetRoute(r, id, reserved)
            /\ ClaimResidentSlots(r, id)
            /\ Send(r, "RESULT", id, "OK")
            /\ NotePrepared(r, id)
         \/ /\ \E st \in {"BUSY", "ERROR"} : Send(r, "RESULT", id, st)
            /\ UNCHANGED <<routes, owner, history>>
         \/ /\ SetRoute(r, id, failed)
            /\ Send(r, "RESULT", id, "BUSY")
            /\ UNCHANGED <<owner, history>>
  BY DEF ReadPrepare
<1> HIDE DEF id, reserved, failed
<1>4. from_rank' \in [Ranks -> Seq(Replies)]
  BY ZenonT(60), <1>1, <1>3, SendType DEF Statuses
<1>5. routes' \in [Ranks -> [Ids -> Route]]
  BY <1>1, <1>2, <1>3, SetRouteType DEF DaemonTypeOK
<1>6. owner' \in [Ranks -> [Slots -> Ids \union {NoId}]]
  BY SMTT(60), <1>1, <1>3, ClaimType DEF DaemonTypeOK
<1>7. history' \in [Ranks -> History]
  BY <1>1, <1>3, NoteType DEF DaemonTypeOK
<1>8. /\ lease' \in [Ranks -> [Slots -> Ids \union {NoId}]]
      /\ sent' \subseteq Ranks \X Ids
  BY <1>3 DEF DaemonTypeOK
<1> QED
  BY <1>1, <1>3, <1>4, <1>5, <1>6, <1>7, <1>8, DaemonAssembled

LEMMA ReadContinueType ==
  ASSUME LinkTypeOK, DaemonTypeOK, NEW r \in Ranks, ReadContinue(r)
  PROVE  LinkTypeOK' /\ DaemonTypeOK'
<1> DEFINE id == Head(to_rank[r]).id
           preparing == [NoRoute EXCEPT !.state = "PREPARING"]
<1>1. id \in Ids /\ (Consumed(r) => to_rank' \in [Ranks -> Seq(Requests)])
  BY ReadType DEF ReadContinue, Reads
<1>2. preparing \in Route
  BY Zenon DEF NoRoute, Route, RouteStates, Statuses
<1>3. \/ /\ Consumed(r)
         /\ SetRoute(r, id, preparing)
         /\ ClaimResidentSlots(r, id)
         /\ UNCHANGED <<from_rank, wire, client_end, daemon_end, work,
                        lease, sent, history>>
      \/ CloseClient(r)
  BY DEF ReadContinue
<1> HIDE DEF id, preparing
<1>4. CASE CloseClient(r)
  BY <1>4, CloseClientType
<1>5. CASE /\ Consumed(r)
           /\ SetRoute(r, id, preparing)
           /\ ClaimResidentSlots(r, id)
           /\ UNCHANGED <<from_rank, wire, client_end, daemon_end, work,
                          lease, sent, history>>
  <2>1. routes' \in [Ranks -> [Ids -> Route]]
    BY <1>1, <1>2, <1>5, SetRouteType
  <2>2. owner' \in [Ranks -> [Slots -> Ids \union {NoId}]]
    BY <1>1, <1>5, ClaimType
  <2> QED
    BY SMTT(60), <1>1, <1>5, <2>1, <2>2, DaemonAssembled DEF LinkTypeOK, DaemonTypeOK
<1> QED
  BY <1>3, <1>4, <1>5

LEMMA ReadDecisionType ==
  ASSUME LinkTypeOK, DaemonTypeOK, NEW r \in Ranks, ReadDecision(r)
  PROVE  LinkTypeOK' /\ DaemonTypeOK'
<1> DEFINE m == Head(to_rank[r])
           ready == [routes[r][m.id] EXCEPT !.state = ReadyState(r, m.id),
                                            !.queued = TRUE, !.cached = FALSE]
           failed == [routes[r][m.id] EXCEPT !.state = "FAILED", !.delivered = TRUE,
                                             !.failure = "ERROR"]
<1>1. /\ m \in Requests /\ m.id \in Ids
      /\ to_rank' \in [Ranks -> Seq(Requests)]
      /\ m.kind \in {"COMMIT", "ABORT"}
  BY SMTT(60), ReadType DEF ReadDecision, Reads
<1>2. routes[r][m.id] \in Route
  BY SMTT(60), <1>1 DEF DaemonTypeOK
<1>3. ready \in Route /\ failed \in Route
  BY Zenon, <1>2 DEF Route, RouteStates, Statuses, ReadyState
<1>4. /\ UNCHANGED <<wire, client_end, daemon_end, work, lease, sent, history>>
      /\ \E st \in Statuses : Send(r, m.kind, m.id, st)
      /\ \/ UNCHANGED routes
         \/ SetRoute(r, m.id, ready)
         \/ SetRoute(r, m.id, NoRoute)
         \/ SetRoute(r, m.id, failed)
      /\ UNCHANGED owner \/ ReleaseResidentSlots(r, m.id)
  BY DEF ReadDecision, Statuses
<1> HIDE DEF m, ready, failed
<1>5. from_rank' \in [Ranks -> Seq(Replies)]
  BY Zenon, <1>1, <1>4, SendType
<1>6. routes' \in [Ranks -> [Ids -> Route]]
  BY <1>1, <1>3, <1>4, SetRouteType, NoRouteType DEF DaemonTypeOK
<1>7. owner' \in [Ranks -> [Slots -> Ids \union {NoId}]]
  BY <1>1, <1>4, ClaimType DEF DaemonTypeOK
<1>8. /\ lease' \in [Ranks -> [Slots -> Ids \union {NoId}]]
      /\ sent' \subseteq Ranks \X Ids
      /\ history' \in [Ranks -> History]
  BY <1>4 DEF DaemonTypeOK
<1> QED
  BY SMTT(60), <1>1, <1>4, <1>5, <1>6, <1>7, <1>8, DaemonAssembled

LEMMA RouteAtType ==
  ASSUME DaemonTypeOK, NEW r \in Ranks, NEW id \in Ids
  PROVE  routes[r][id] \in Route
  BY DEF DaemonTypeOK

LEMMA FinishRouteType ==
  ASSUME LinkTypeOK, DaemonTypeOK, NEW r \in Ranks, NEW id \in Ids,
         NEW st \in Statuses, NEW ran_status, FinishRoute(r, id, st, ran_status)
  PROVE  /\ from_rank' \in [Ranks -> Seq(Replies)]
         /\ routes' \in [Ranks -> [Ids -> Route]]
         /\ owner' \in [Ranks -> [Slots -> Ids \union {NoId}]]
         /\ lease' \in [Ranks -> [Slots -> Ids \union {NoId}]]
  BY SendType, SetRouteType, NoRouteType, CompleteSlotsType DEF FinishRoute

LEMMA FailRouteType ==
  ASSUME DaemonTypeOK, NEW r \in Ranks, NEW id \in Ids, NEW cached \in BOOLEAN,
         FailRoute(r, id, cached)
  PROVE  routes' \in [Ranks -> [Ids -> Route]]
<1> DEFINE failed == [routes[r][id] EXCEPT !.state = "FAILED", !.failure = "ERROR",
                                           !.cached = cached]
<1>1. failed \in Route
  BY ZenonT(60), RouteAtType DEF Route, RouteStates, Statuses
<1>2. SetRoute(r, id, failed)
  BY DEF FailRoute
<1> HIDE DEF failed
<1> QED
  BY <1>1, <1>2, SetRouteType

LEMMA PrepareContinuationType ==
  ASSUME LinkTypeOK, DaemonTypeOK, NEW r \in Ranks, NEW id \in Ids,
         PrepareContinuation(r, id)
  PROVE  LinkTypeOK' /\ DaemonTypeOK'
<1> DEFINE ready == [routes[r][id] EXCEPT !.state = ReadyState(r, id),
                                          !.queued = TRUE, !.answered = TRUE]
<1>1. ready \in Route
  BY ZenonT(60), RouteAtType DEF Route, RouteStates, ReadyState
<1>2. /\ UNCHANGED <<to_rank, wire, client_end, daemon_end, work, owner, lease, sent>>
      /\ \/ /\ SetRoute(r, id, ready)
            /\ Send(r, "RESULT", id, "OK")
            /\ NotePrepared(r, id)
         \/ FailRoute(r, id, FALSE) /\ UNCHANGED <<from_rank, history>>
         \/ FailRoute(r, id, TRUE) /\ UNCHANGED <<from_rank, history>>
  BY Zenon DEF PrepareContinuation
<1> HIDE DEF ready
<1>3. routes' \in [Ranks -> [Ids -> Route]]
  BY Zenon, <1>1, <1>2, SetRouteType, FailRouteType
<1>4. from_rank' \in [Ranks -> Seq(Replies)]
  BY Zenon, <1>2, SendType DEF Statuses, LinkTypeOK
<1>5. history' \in [Ranks -> History]
  BY Zenon, <1>2, NoteType DEF DaemonTypeOK
<1> QED
  BY <1>2, <1>3, <1>4, <1>5, DaemonAssembled DEF LinkTypeOK, DaemonTypeOK

LEMMA InputArrivesType ==
  ASSUME LinkTypeOK, DaemonTypeOK, NEW r \in Ranks, NEW id \in Ids,
         InputArrives(r, id)
  PROVE  LinkTypeOK' /\ DaemonTypeOK'
<1> DEFINE ready == [routes[r][id] EXCEPT !.state = "READY_ADAPTER"]
<1>1. ready \in Route
  BY RouteAtType DEF Route, RouteStates
<1>2. /\ UNCHANGED <<to_rank, wire, client_end, daemon_end, work, lease, sent, history>>
      /\ \/ SetRoute(r, id, ready) /\ UNCHANGED <<from_rank, owner>>
         \/ /\ SetRoute(r, id, NoRoute)
            /\ ReleaseResidentSlots(r, id)
            /\ SendUnless(routes[r][id].abandoned, r, "COMPLETION", id, "IO_ERROR")
  BY DEF InputArrives
<1> HIDE DEF ready
<1>3. routes' \in [Ranks -> [Ids -> Route]]
  BY <1>1, <1>2, SetRouteType, NoRouteType
<1>4. from_rank' \in [Ranks -> Seq(Replies)]
  BY <1>2, SendType DEF Statuses, LinkTypeOK
<1>5. owner' \in [Ranks -> [Slots -> Ids \union {NoId}]]
  BY <1>2, ClaimType DEF DaemonTypeOK
<1> QED
  BY ZenonT(60), <1>2, <1>3, <1>4, <1>5, DaemonAssembled DEF LinkTypeOK, DaemonTypeOK

LEMMA SubmitAdapterType ==
  ASSUME LinkTypeOK, DaemonTypeOK, NEW r \in Ranks, NEW id \in Ids,
         SubmitAdapter(r, id)
  PROVE  LinkTypeOK' /\ DaemonTypeOK'
<1> DEFINE running == [routes[r][id] EXCEPT !.state = "WAIT_ADAPTER",
                                            !.queued = FALSE]
<1>1. running \in Route
  BY ZenonT(60), RouteAtType DEF Route, RouteStates
<1>2. UNCHANGED <<to_rank, wire, client_end, daemon_end, work, sent>>
  BY DEF SubmitAdapter
<1>3. CASE /\ SetRoute(r, id, running)
           /\ history' = [history EXCEPT ![r].ran = Append(@, id)]
           /\ UNCHANGED <<from_rank, owner, lease>>
  <2> HIDE DEF running
  <2>1. routes' \in [Ranks -> [Ids -> Route]]
    BY <1>1, <1>3, SetRouteType
  <2>2. [history[r] EXCEPT !.ran = Append(@, id)] \in History
    <3>1. history[r] \in History
      BY DEF DaemonTypeOK
    <3>2. Append(history[r].ran, id) \in Seq(Ids)
      BY <3>1 DEF History
    <3> QED
      BY Zenon, <3>1, <3>2 DEF History
  <2>3. history' \in [Ranks -> History]
    BY SMTT(60), <1>3, <2>2 DEF DaemonTypeOK
  <2> QED
    BY <1>2, <1>3, <2>1, <2>3, DaemonAssembled DEF LinkTypeOK, DaemonTypeOK
<1>4. CASE FinishRoute(r, id, "ERROR", "ERROR") /\ UNCHANGED history
  <2>1. "ERROR" \in Statuses
    BY DEF Statuses
  <2> QED
    BY SMTT(60), <1>2, <1>4, <2>1, FinishRouteType, DaemonAssembled DEF LinkTypeOK, DaemonTypeOK
<1> QED
  BY <1>3, <1>4 DEF SubmitAdapter

LEMMA CompletionType ==
  ASSUME LinkTypeOK, DaemonTypeOK, NEW r \in Ranks, NEW id \in Ids,
         Completion(r, id)
  PROVE  LinkTypeOK' /\ DaemonTypeOK'
<1> DEFINE output == [routes[r][id] EXCEPT !.state = "WAIT_OUTPUT"]
<1>1. output \in Route
  BY RouteAtType DEF Route, RouteStates
<1>2. /\ UNCHANGED <<to_rank, wire, client_end, daemon_end, work, sent>>
      /\ \/ /\ SetRoute(r, id, output)
            /\ UNCHANGED <<from_rank, owner, lease, history>>
         \/ /\ FinishRoute(r, id, "OK", "OK")
            /\ NoteDone(r, id)
         \/ /\ FinishRoute(r, id, "ERROR", "ERROR")
            /\ UNCHANGED history
         \/ /\ FailRoute(r, id, FALSE)
            /\ UNCHANGED <<from_rank, owner, lease, history>>
  BY Zenon DEF Completion
<1> HIDE DEF output
<1>3. "OK" \in Statuses /\ "ERROR" \in Statuses
  BY DEF Statuses
<1>4. history' \in [Ranks -> History]
  BY Zenon, <1>2, NoteType DEF DaemonTypeOK
<1>5. routes' \in [Ranks -> [Ids -> Route]]
  BY Zenon, <1>1, <1>2, <1>3, SetRouteType, FailRouteType, FinishRouteType
<1>6. /\ from_rank' \in [Ranks -> Seq(Replies)]
      /\ owner' \in [Ranks -> [Slots -> Ids \union {NoId}]]
      /\ lease' \in [Ranks -> [Slots -> Ids \union {NoId}]]
  BY Zenon, <1>2, <1>3, FinishRouteType DEF LinkTypeOK, DaemonTypeOK
<1> QED
  BY SMTT(60), <1>2, <1>4, <1>5, <1>6, DaemonAssembled DEF LinkTypeOK, DaemonTypeOK

LEMMA OutputSentType ==
  ASSUME LinkTypeOK, DaemonTypeOK, NEW r \in Ranks, NEW id \in Ids,
         OutputSent(r, id)
  PROVE  LinkTypeOK' /\ DaemonTypeOK'
<1>1. "OK" \in Statuses /\ "IO_ERROR" \in Statuses
  BY DEF Statuses
<1>2. sent' \subseteq Ranks \X Ids
  BY DEF OutputSent, DaemonTypeOK
<1>3. /\ UNCHANGED <<to_rank, wire, client_end, daemon_end, work>>
      /\ \/ FinishRoute(r, id, "OK", "OK") /\ NoteDone(r, id)
         \/ FinishRoute(r, id, "IO_ERROR", "OK") /\ UNCHANGED history
  BY DEF OutputSent
<1>4. history' \in [Ranks -> History]
  BY SMTT(60), <1>3, NoteType DEF DaemonTypeOK
<1> QED
  BY <1>1, <1>2, <1>3, <1>4, FinishRouteType, DaemonAssembled DEF LinkTypeOK

LEMMA ExpireTransportRouteType ==
  ASSUME LinkTypeOK, DaemonTypeOK, NEW r \in Ranks, NEW id \in Ids,
         ExpireTransportRoute(r, id)
  PROVE  LinkTypeOK' /\ DaemonTypeOK'
<1> DEFINE cancelled == [routes[r][id] EXCEPT
                           !.state = IF InState(r, id, "WAIT_INPUT")
                                     THEN "CANCEL_INPUT" ELSE "CANCEL_OUTPUT",
                           !.delivered = TRUE]
<1>1. cancelled \in Route
  BY ZenonT(60), RouteAtType DEF Route, RouteStates
<1>2. /\ SetRoute(r, id, cancelled)
      /\ SendUnless(routes[r][id].abandoned, r, "COMPLETION", id, "IO_ERROR")
      /\ UNCHANGED <<to_rank, wire, client_end, daemon_end, work,
                     owner, lease, sent, history>>
  BY DEF ExpireTransportRoute
<1> HIDE DEF cancelled
<1>3. routes' \in [Ranks -> [Ids -> Route]]
  BY <1>1, <1>2, SetRouteType
<1>4. from_rank' \in [Ranks -> Seq(Replies)]
  BY <1>2, SendType DEF Statuses
<1> QED
  BY SMTT(60), <1>2, <1>3, <1>4, DaemonAssembled DEF LinkTypeOK, DaemonTypeOK

LEMMA TransportCancelledType ==
  ASSUME LinkTypeOK, DaemonTypeOK, NEW r \in Ranks, NEW id \in Ids,
         TransportCancelled(r, id)
  PROVE  LinkTypeOK' /\ DaemonTypeOK'
<1> DEFINE failed == [routes[r][id] EXCEPT !.state = "FAILED", !.failure = "IO_ERROR"]
<1>1. failed \in Route
  BY ZenonT(60), RouteAtType DEF Route, RouteStates, Statuses
<1>2. /\ UNCHANGED <<linkVars, history>>
      /\ \/ SetRoute(r, id, failed) /\ UNCHANGED <<owner, lease, sent>>
         \/ /\ SetRoute(r, id, NoRoute)
            /\ CompleteResidentSlots(r, id, "OK")
            /\ sent' \in {sent, sent \union {<<r, id>>}}
  BY DEF TransportCancelled
<1> HIDE DEF failed
<1>3. routes' \in [Ranks -> [Ids -> Route]]
  BY <1>1, <1>2, SetRouteType, NoRouteType
<1>4. /\ owner' \in [Ranks -> [Slots -> Ids \union {NoId}]]
      /\ lease' \in [Ranks -> [Slots -> Ids \union {NoId}]]
  BY <1>2, CompleteSlotsType DEF DaemonTypeOK
<1>5. sent' \subseteq Ranks \X Ids
  BY <1>2 DEF DaemonTypeOK
<1>6. LinkTypeOK'
  BY <1>2 DEF linkVars, LinkTypeOK
<1> QED
  BY <1>2, <1>3, <1>4, <1>5, <1>6 DEF DaemonTypeOK

LEMMA FinalizeFailedRouteType ==
  ASSUME LinkTypeOK, DaemonTypeOK, NEW r \in Ranks, NEW id \in Ids,
         FinalizeFailedRoute(r, id)
  PROVE  LinkTypeOK' /\ DaemonTypeOK'
<1>1. UNCHANGED <<client_end, work, sent, history>>
  BY SMTT(60) DEF FinalizeFailedRoute
<1>2. CASE /\ SetRoute(r, id, NoRoute)
           /\ DropClaims(r, id)
           /\ SendUnless(routes[r][id].delivered \/ routes[r][id].abandoned, r,
                         IF routes[r][id].answered THEN "COMPLETION" ELSE "RESULT",
                         id, routes[r][id].failure)
           /\ UNCHANGED <<to_rank, wire, daemon_end>>
  <2>1. routes[r][id].failure \in Statuses
    BY SMTT(60), RouteAtType DEF Route
  <2>2. from_rank' \in [Ranks -> Seq(Replies)]
    BY SMTT(60), <1>2, <2>1, SendType
  <2>3. routes' \in [Ranks -> [Ids -> Route]]
    BY SMTT(60), <1>2, SetRouteType, NoRouteType
  <2>4. /\ owner' \in [Ranks -> [Slots -> Ids \union {NoId}]]
        /\ lease' \in [Ranks -> [Slots -> Ids \union {NoId}]]
    BY SMTT(60), <1>2, DropClaimsType
  <2> QED
    BY SMTT(60), <1>1, <1>2, <2>2, <2>3, <2>4, DaemonAssembled DEF LinkTypeOK, DaemonTypeOK
<1>3. CASE /\ CloseEnd(r)
           /\ routes' = [routes EXCEPT ![r] = [i \in Ids |->
                           IF i = id THEN NoRoute ELSE Abandon(r, i)]]
           /\ ReleaseResidentSlots(r, id)
           /\ lease' = [lease EXCEPT ![r] = [s \in Slots |-> NoId]]
           /\ UNCHANGED from_rank
  <2>1. LinkTypeOK'
    BY <1>1, <1>3, CloseEndType DEF LinkTypeOK
  <2>2. \A i \in Ids : (IF i = id THEN NoRoute ELSE Abandon(r, i)) \in Route
    BY SMTT(60), NoRouteType, AbandonType
  <2>3. routes' \in [Ranks -> [Ids -> Route]]
    BY SMTT(60), <1>3, <2>2 DEF DaemonTypeOK
  <2>4. owner' \in [Ranks -> [Slots -> Ids \union {NoId}]]
    BY SMTT(60), <1>3, ClaimType
  <2>5. lease' \in [Ranks -> [Slots -> Ids \union {NoId}]]
    BY SMTT(60), <1>3 DEF DaemonTypeOK
  <2> QED
    BY SMTT(60), <1>1, <2>1, <2>3, <2>4, <2>5 DEF DaemonTypeOK
<1> QED
  BY SMTT(60), <1>2, <1>3 DEF FinalizeFailedRoute

LEMMA AbortPreparedType ==
  ASSUME LinkTypeOK, DaemonTypeOK, NEW r \in Ranks, NEW id \in Ids,
         AbortPrepared(r, id)
  PROVE  LinkTypeOK' /\ DaemonTypeOK'
<1>1. LinkTypeOK'
  BY DEF AbortPrepared, linkVars, LinkTypeOK
<1>2. Fate(routes[r][id], "FAILED") \in Route
  BY SMTT(60), RouteAtType, FateType
<1>3. routes' \in [Ranks -> [Ids -> Route]]
  BY SMTT(60), <1>2, SetRouteType, NoRouteType DEF AbortPrepared
<1>4. owner' \in [Ranks -> [Slots -> Ids \union {NoId}]]
  BY SMTT(60), ClaimType DEF AbortPrepared, DaemonTypeOK
<1> QED
  BY SMTT(60), <1>1, <1>3, <1>4 DEF AbortPrepared, DaemonTypeOK

LEMMA RankRestartType ==
  ASSUME LinkTypeOK, DaemonTypeOK, NEW r \in Ranks, RankRestart(r)
  PROVE  LinkTypeOK' /\ DaemonTypeOK'
<1>1. LinkTypeOK'
  BY CloseEndType DEF RankRestart, LinkTypeOK
<1>2. routes' \in [Ranks -> [Ids -> Route]]
  BY SMTT(60), NoRouteType DEF RankRestart, DaemonTypeOK
<1>3. /\ owner' \in [Ranks -> [Slots -> Ids \union {NoId}]]
      /\ lease' \in [Ranks -> [Slots -> Ids \union {NoId}]]
  BY DEF RankRestart, DaemonTypeOK
<1> QED
  BY SMTT(60), <1>1, <1>2, <1>3 DEF RankRestart, DaemonTypeOK

LEMMA ReconnectType ==
  ASSUME TypeOK, NEW r \in Ranks, Reconnect(r)
  PROVE  TypeOK'
<1>1. LinkTypeOK'
  <2>1. /\ to_rank' \in [Ranks -> Seq(Requests)]
        /\ from_rank' \in [Ranks -> Seq(Replies)]
    BY SMTT(60) DEF TypeOK, Reconnect, LinkTypeOK
  <2> QED
    BY <2>1 DEF TypeOK, Reconnect, LinkTypeOK
<1>2. ClientTypeOK'
  BY SMTT(60) DEF TypeOK, Reconnect, Reconnected, ClientTypeOK, Statuses
<1>3. DaemonTypeOK'
  <2>1. /\ owner' \in [Ranks -> [Slots -> Ids \union {NoId}]]
        /\ lease' \in [Ranks -> [Slots -> Ids \union {NoId}]]
    BY SMTT(60) DEF TypeOK, Reconnect, ClientAdopted, DaemonTypeOK
  <2> QED
    BY SMTT(60), <2>1 DEF TypeOK, Reconnect, ClientAdopted, DaemonTypeOK
<1> QED
  BY SMTT(60), <1>1, <1>2, <1>3 DEF TypeOK, Reconnect

-----------------------------------------------------------------------------
LEMMA NextType == TypeOK /\ [Next]_vars => TypeOK'
<1> SUFFICES ASSUME TypeOK, [Next]_vars PROVE TypeOK'
  OBVIOUS
<1>0. LinkTypeOK /\ ClientTypeOK /\ DaemonTypeOK /\ breaks \in 0..MaxBreaks
  BY SMTT(60) DEF TypeOK
<1>1. CASE EngineStep /\ UNCHANGED <<daemonVars, breaks>>
  <2>1. LinkTypeOK' /\ ClientTypeOK'
    BY SMTT(60), <1>0, <1>1, SubmitType DEF EngineStep
  <2> QED
    BY SMTT(60), <1>0, <1>1, <2>1 DEF TypeOK, daemonVars, DaemonTypeOK
<1>2. ASSUME NEW r \in Ranks, ClientStep(r), UNCHANGED <<daemonVars, breaks>>
      PROVE  TypeOK'
  <2>1. LinkTypeOK' /\ ClientTypeOK'
    BY SMTT(60), <1>0, <1>2, RankResultType, RankDecisionResultType, RankCompletionType,
       ConnectionLostType DEF ClientStep
  <2> QED
    BY <1>0, <1>2, <2>1 DEF TypeOK, daemonVars, DaemonTypeOK
<1>3. ASSUME NEW r \in Ranks, MessageStep(r), UNCHANGED <<clientVars, breaks>>
      PROVE  TypeOK'
  <2>1. LinkTypeOK' /\ DaemonTypeOK'
    BY SMTT(60), <1>0, <1>3, ReadPrepareType, ReadContinueType, ReadDecisionType,
       CloseClientType DEF MessageStep, DaemonEof
  <2> QED
    BY SMTT(60), <1>0, <1>3, <2>1 DEF TypeOK, clientVars, ClientTypeOK
<1>4. ASSUME NEW r \in Ranks, NEW id \in Ids, RouteStep(r, id),
             UNCHANGED <<clientVars, breaks>>
      PROVE  TypeOK'
  <2>1. LinkTypeOK' /\ DaemonTypeOK'
    BY SMTT(60), <1>0, <1>4, PrepareContinuationType, InputArrivesType, SubmitAdapterType,
       CompletionType, OutputSentType, ExpireTransportRouteType,
       TransportCancelledType, FinalizeFailedRouteType, AbortPreparedType
       DEF RouteStep
  <2> QED
    BY SMTT(60), <1>0, <1>4, <2>1 DEF TypeOK, clientVars, ClientTypeOK
<1>5. ASSUME NEW r \in Ranks, Reconnect(r)
      PROVE  TypeOK'
  BY SMTT(60), <1>5, ReconnectType
<1>6. ASSUME NEW r \in Ranks, Drop(r)
      PROVE  TypeOK'
  <2>1. LinkTypeOK'
    BY SMTT(60), <1>0, <1>6 DEF Drop, LinkTypeOK
  <2>2. ClientTypeOK' /\ DaemonTypeOK'
    BY SMTT(60), <1>0, <1>6 DEF Drop, clientVars, daemonVars, ClientTypeOK, DaemonTypeOK
  <2> QED
    BY SMTT(60), <1>0, <1>6, <2>1, <2>2, PipelineAssumption DEF TypeOK, Drop
<1>7. ASSUME NEW r \in Ranks, Restart(r)
      PROVE  TypeOK'
  <2>1. LinkTypeOK' /\ DaemonTypeOK'
    BY SMTT(60), <1>0, <1>7, RankRestartType DEF Restart
  <2>2. ClientTypeOK'
    BY SMTT(60), <1>0, <1>7 DEF Restart, clientVars, ClientTypeOK
  <2> QED
    BY <1>0, <1>7, <2>1, <2>2, PipelineAssumption DEF TypeOK, Restart
<1>8. CASE UNCHANGED vars
  BY <1>0, <1>8 DEF TypeOK, vars, linkVars, clientVars, daemonVars,
                    LinkTypeOK, ClientTypeOK, DaemonTypeOK
<1> QED
  BY SMTT(60), <1>1, <1>2, <1>3, <1>4, <1>5, <1>6, <1>7, <1>8 DEF Next

\* Whatever ranks, connections and adapters do, every variable of the client
\* and of the daemons keeps its type; the masks of a transaction name only
\* ranks of the pipeline.
THEOREM PipelineTypeCorrect == Spec => []TypeOK
<1> QED
  BY InitType, NextType, PTL DEF Spec
=============================================================================
