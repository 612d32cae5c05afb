------------------------ MODULE PipelineClientProofs ------------------------
(***************************************************************************)
(* The client's half of AgreementInv: what its handlers count, send and    *)
(* report is true of what the ranks have voted for and done.               *)
(***************************************************************************)
EXTENDS PipelineOrderProofs

LEMMA ElementsAppend ==
  ASSUME NEW S, NEW s \in Seq(S), NEW m \in S
  PROVE  Elements(Append(s, m)) \subseteq Elements(s) \union {m}
<1> SUFFICES ASSUME NEW i \in DOMAIN Append(s, m)
             PROVE  Append(s, m)[i] \in Elements(s) \union {m}
  BY DEF Elements
<1>1. i \in 1..(Len(s) + 1)
  OBVIOUS
<1>2. CASE i = Len(s) + 1
  BY <1>2
<1>3. CASE i # Len(s) + 1
  BY <1>1, <1>3 DEF Elements
<1> QED
  BY <1>2, <1>3

LEMMA ElementsTail ==
  ASSUME NEW S, NEW s \in Seq(S), s # << >>
  PROVE  Elements(Tail(s)) \subseteq Elements(s) /\ Head(s) \in Elements(s)
<1>1. Elements(Tail(s)) \subseteq Elements(s)
  BY TailIndex DEF Elements
<1>2. 1 \in DOMAIN s /\ Head(s) = s[1]
  OBVIOUS
<1> QED
  BY <1>1, <1>2 DEF Elements

LEMMA ElementsEmpty == Elements(<< >>) = {}
  BY DEF Elements

-----------------------------------------------------------------------------
(* The client's own handlers.  No rank does anything meanwhile.            *)

\* What a handler of the client owes.
ClientSound ==
  /\ RequestsSound'
  /\ RepliesSound'
  /\ TransactionsSound'
  /\ AbortsFailed'
  /\ SuccessIsTotal'

LEMMA NoTransactionSound ==
  ASSUME NEW id
  PROVE  TransactionSound(id, NoTransaction)
  BY DEF TransactionSound, NoTransaction

LEMMA RecordFailureSound ==
  ASSUME NEW id, NEW t \in Transaction, NEW st \in Statuses, st # "OK",
         \A r \in t.prepared_mask : id \in history[r].prepared
  PROVE  /\ TransactionSound(id, RecordFailure(t, st))
         /\ RecordFailure(t, st).status # "OK"
         /\ RecordFailure(t, st).decision_expected_mask = t.decision_expected_mask
<1>1. /\ RecordFailure(t, st).status # "OK"
      /\ RecordFailure(t, st).prepared_mask = t.prepared_mask
      /\ RecordFailure(t, st).decision_expected_mask = t.decision_expected_mask
  BY DEF RecordFailure, Transaction
<1> QED
  BY <1>1 DEF TransactionSound

\* Reporting changes neither masks nor status.
LEMMA ReportResultSound ==
  ASSUME NEW id, NEW t \in Transaction, TransactionSound(id, t)
  PROVE  /\ TransactionSound(id, ReportResult(t))
         /\ ReportResult(t).status = t.status
         /\ ReportResult(t).decision_expected_mask = t.decision_expected_mask
         /\ ReportResult(t).completion_mask = t.completion_mask
<1>1. /\ ReportResult(t).status = t.status
      /\ ReportResult(t).decision_expected_mask = t.decision_expected_mask
      /\ ReportResult(t).completion_mask = t.completion_mask
      /\ ReportResult(t).prepared_mask = t.prepared_mask
      /\ ReportResult(t).result_mask = t.result_mask
  BY DEF ReportResult, Transaction
<1> QED
  BY <1>1 DEF TransactionSound

\* A completion reported as successful is one of every rank.
LEMMA ToldSound ==
  ASSUME NEW id \in Ids, NEW o \in Outcome, NEW before, NEW t \in Transaction,
         TransactionSound(id, t),
         o.completion = "OK" => \A r \in Ranks : id \in history[r].done,
         Told(o, before, t).completion = "OK"
  PROVE  \A r \in Ranks : id \in history[r].done
<1>1. Told(o, before, t).completion = IF CompletionDue(t) THEN t.status ELSE o.completion
  BY DEF Told
<1>2. CASE CompletionDue(t)
  BY SMTT(60), <1>1, <1>2 DEF CompletionDue, TransactionSound
<1>3. CASE ~CompletionDue(t)
  BY SMTT(60), <1>1, <1>3
<1> QED
  BY <1>2, <1>3

LEMMA ConcludeSound ==
  ASSUME ClientTypeOK, AgreementInv, UNCHANGED daemonVars,
         NEW id \in Ids, NEW t \in Transaction, TransactionSound(id, t),
         Conclude(id, t),
         \A r \in Ranks : pending'[r][id] = "ABORT" =>
           t.status # "OK" \/ t.decision_expected_mask = {},
         \A r \in Ranks, i \in Ids : i # id => pending'[r][i] = pending[r][i]
  PROVE  TransactionsSound' /\ AbortsFailed' /\ SuccessIsTotal'
<1> DEFINE now == ReportResult(t)
<1>1. /\ now \in Transaction /\ TransactionSound(id, now)
      /\ now.status = t.status
      /\ now.decision_expected_mask = t.decision_expected_mask
  BY ReportResultSound, ReportResultType
<1>2. /\ transactions' = [transactions EXCEPT
                            ![id] = IF CompletionDue(now) THEN NoTransaction ELSE now]
      /\ outcome' = [outcome EXCEPT ![id] = Told(@, transactions[id], now)]
  BY DEF Conclude
<1> HIDE DEF now
<1>3. UNCHANGED history
  BY DEF daemonVars
<1>4. /\ transactions'[id] \in {NoTransaction, now}
      /\ \A i \in Ids : i # id => transactions'[i] = transactions[i]
      /\ outcome'[id] = Told(outcome[id], transactions[id], now)
      /\ \A i \in Ids : i # id => outcome'[i] = outcome[i]
  BY <1>2 DEF ClientTypeOK
<1>5. TransactionsSound'
  <2>1. \A i \in Ids : TransactionSound(i, transactions'[i])
    BY SMTT(60), <1>1, <1>4, NoTransactionSound DEF AgreementInv, TransactionsSound
  <2> QED
    BY SMTT(60), <1>3, <2>1 DEF TransactionsSound, TransactionSound
<1>6. AbortsFailed'
  <2> SUFFICES ASSUME NEW r \in Ranks, NEW i \in Ids, pending'[r][i] = "ABORT"
               PROVE  \/ transactions'[i].status # "OK"
                      \/ transactions'[i].decision_expected_mask = {}
    BY DEF AbortsFailed
  <2>1. CASE i # id
    BY SMTT(60), <1>4, <2>1 DEF AgreementInv, AbortsFailed
  <2>2. CASE i = id
    BY SMTT(60), <1>1, <1>4, <2>2 DEF NoTransaction
  <2> QED
    BY <2>1, <2>2
<1>7. SuccessIsTotal'
  <2>1. ASSUME NEW i \in Ids, outcome'[i].completion = "OK"
        PROVE  \A r \in Ranks : i \in history[r].done
    <3>1. CASE i # id
      BY SMTT(60), <1>4, <2>1, <3>1 DEF AgreementInv, SuccessIsTotal
    <3>2. CASE i = id
      <4>1. outcome[id] \in Outcome
        BY SMTT(60) DEF ClientTypeOK
      <4>2. outcome[id].completion = "OK" => \A r \in Ranks : id \in history[r].done
        BY SMTT(60) DEF AgreementInv, SuccessIsTotal
      <4>3. Told(outcome[id], transactions[id], now).completion = "OK"
        BY SMTT(60), <1>4, <2>1, <3>2
      <4> QED
        BY SMTT(60), <1>1, <3>2, <4>1, <4>2, <4>3, ToldSound
    <3> QED
      BY SMTT(60), <3>1, <3>2
  <2> QED
    BY SMTT(60), <1>3, <2>1 DEF SuccessIsTotal
<1> QED
  BY <1>5, <1>6, <1>7

LEMMA FailPipelineSound ==
  ASSUME AgreementInv, UNCHANGED daemonVars, NEW txs, NEW told,
         NEW st \in Statuses, st # "OK", FailPipeline(txs, told, st),
         \A id \in Ids : told[id].completion = "OK" =>
           \A r \in Ranks : id \in history[r].done
  PROVE  ClientSound
<1>1. UNCHANGED <<history, to_rank, work>>
  BY SMTT(60) DEF daemonVars, FailPipeline
<1>2. RequestsSound'
  BY SMTT(60), <1>1 DEF AgreementInv, RequestsSound, Voted, Continuations, Continued
<1>3. RepliesSound'
  BY SMTT(60), ElementsEmpty DEF FailPipeline, RepliesSound
<1>4. TransactionsSound'
  <2>1. \A id \in Ids : transactions'[id] = NoTransaction
    BY DEF FailPipeline
  <2> QED
    BY <2>1 DEF TransactionsSound, TransactionSound, NoTransaction
<1>5. AbortsFailed'
  BY DEF FailPipeline, AbortsFailed
<1>6. SuccessIsTotal'
  <2>1. \A id \in Ids : outcome'[id].completion \in {told[id].completion, st}
    BY DEF FailPipeline, Drained
  <2> QED
    BY SMTT(60), <1>1, <2>1 DEF SuccessIsTotal
<1> QED
  BY SMTT(60), <1>2, <1>3, <1>4, <1>5, <1>6 DEF ClientSound

\* Streams that lose a reply, or get a decision that follows a unanimous vote.
LEMMA ConsumedSound ==
  ASSUME LinkTypeOK, AgreementInv, UNCHANGED daemonVars, NEW r \in Ranks,
         from_rank[r] # << >>, Consume(r)
  PROVE  RepliesSound'
<1>1. \A q \in Ranks : Elements(from_rank'[q]) \subseteq Elements(from_rank[q])
  <2>1. from_rank[r] \in Seq(Replies)
    BY DEF LinkTypeOK
  <2>2. Elements(Tail(from_rank[r])) \subseteq Elements(from_rank[r])
    BY SMTT(60), <2>1, ElementsTail
  <2>3. from_rank'[r] = Tail(from_rank[r])
    BY DEF Consume, LinkTypeOK
  <2>4. \A q \in Ranks : q # r => from_rank'[q] = from_rank[q]
    BY SMTT(60) DEF Consume, LinkTypeOK
  <2> QED
    BY SMTT(60), <2>2, <2>3, <2>4
<1> QED
  BY <1>1 DEF AgreementInv, RepliesSound, daemonVars

LEMMA HeadSound ==
  ASSUME LinkTypeOK, AgreementInv, NEW r \in Ranks, from_rank[r] # << >>
  PROVE  LET m == Head(from_rank[r])
         IN  /\ m.id \in Ids /\ m.status \in Statuses
             /\ m.status = "OK" /\ m.kind = "RESULT" => m.id \in history[r].prepared
             /\ m.status = "OK" /\ m.kind = "COMPLETION" => m.id \in history[r].done
<1>1. Head(from_rank[r]) \in Replies
  BY ReceivedType
<1>2. Head(from_rank[r]) \in Elements(from_rank[r])
  <2>1. from_rank[r] \in Seq(Replies)
    BY SMTT(60) DEF LinkTypeOK
  <2> QED
    BY SMTT(60), <2>1, ElementsTail
<1> QED
  BY SMTT(60), <1>1, <1>2 DEF AgreementInv, RepliesSound, Replies

LEMMA SameRequestsSound ==
  ASSUME AgreementInv, UNCHANGED daemonVars, UNCHANGED <<to_rank, work>>
  PROVE  RequestsSound'
  BY DEF AgreementInv, RequestsSound, Voted, Continuations, Continued, daemonVars

LEMMA DecisionSound ==
  ASSUME LinkTypeOK, AgreementInv, UNCHANGED daemonVars, UNCHANGED work,
         NEW id \in Ids, NEW kind \in {"COMMIT", "ABORT"}, NEW targets,
         to_rank' = Broadcast(kind, id, targets),
         kind = "COMMIT" => id \in Voted
  PROVE  RequestsSound'
<1>1. Voted' = Voted /\ Continuations' = Continuations
  BY DEF Voted, Continuations, Continued, daemonVars
<1> DEFINE m == Request(kind, id)
<1>2. m \in Requests /\ m.kind = kind /\ m.id = id
  BY SMTT(60) DEF Request, Requests
<1> HIDE DEF m
<1>3. ASSUME NEW r \in Ranks
      PROVE  Elements(to_rank'[r]) \subseteq Elements(to_rank[r]) \union {m}
  <2>1. to_rank[r] \in Seq(Requests)
    BY DEF LinkTypeOK
  <2>2. to_rank'[r] = to_rank[r] \/ to_rank'[r] = Append(to_rank[r], m)
    BY BroadcastStream DEF m
  <2> QED
    BY ZenonT(60), <1>2, <2>1, <2>2, ElementsAppend
<1> QED
  BY SMTT(60), <1>1, <1>2, <1>3 DEF AgreementInv, RequestsSound

LEMMA RejectSound ==
  ASSUME AgreementInv, UNCHANGED daemonVars, RejectStream
  PROVE  ClientSound
  BY FailPipelineSound DEF RejectStream, Statuses, AgreementInv, SuccessIsTotal

LEMMA DecideSound ==
  ASSUME LinkTypeOK, ClientTypeOK, AgreementInv, UNCHANGED daemonVars, UNCHANGED work,
         NEW r \in Ranks, from_rank[r] # << >>, Consume(r),
         NEW id \in Ids, NEW t \in Transaction, TransactionSound(id, t),
         t.result_mask = Ranks,
         Decide(id, t, IF t.status = "OK" THEN "COMMIT" ELSE "ABORT", t.prepared_mask)
  PROVE  ClientSound
<1> DEFINE kind == IF t.status = "OK" THEN "COMMIT" ELSE "ABORT"
           targets == t.prepared_mask
           decided == [t EXCEPT !.decision_kind = kind,
                                !.decision_expected_mask = targets,
                                !.completion_mask = IF targets = {} THEN Ranks ELSE @]
<1>0. kind \in {"COMMIT", "ABORT"} /\ (kind = "ABORT" <=> t.status # "OK")
  BY SMTT(60)
<1>1. t.status = "OK" => targets = Ranks /\ id \in Voted
  BY Zenon DEF TransactionSound, Transaction, Voted
<1>2. Ranks # {}
  <2>1. 1 \in Ranks
    BY LinkAssumption DEF Ranks
  <2> QED
    BY <2>1
<1>3. /\ Conclude(id, decided)
      /\ to_rank' = Broadcast(kind, id, targets)
      /\ pending' = [q \in Ranks |-> [pending[q] EXCEPT
                       ![id] = IF q \in targets THEN kind ELSE "NONE"]]
  BY DEF Decide
<1>4. /\ decided \in Transaction
      /\ decided.status = t.status /\ decided.prepared_mask = t.prepared_mask
      /\ decided.result_mask = t.result_mask
      /\ decided.completion_mask = IF targets = {} THEN Ranks ELSE t.completion_mask
  BY ZenonT(60) DEF Transaction
<1>5. TransactionSound(id, decided)
  <2> HIDE DEF decided
  <2> QED
    BY <1>1, <1>2, <1>4 DEF TransactionSound
<1> HIDE DEF decided, kind
<1>6. RequestsSound'
  BY SMTT(60), <1>0, <1>1, <1>3, DecisionSound
<1>7. \A q \in Ranks, i \in Ids : i # id => pending'[q][i] = pending[q][i]
  BY SMTT(60), <1>3 DEF ClientTypeOK
<1>8. \A q \in Ranks : pending'[q][id] = "ABORT" => decided.status # "OK"
  <2>1. \A q \in Ranks : pending'[q][id] = IF q \in targets THEN kind ELSE "NONE"
    BY SMTT(60), <1>3 DEF ClientTypeOK
  <2> QED
    BY SMTT(60), <1>0, <1>4, <2>1
<1>9. TransactionsSound' /\ AbortsFailed' /\ SuccessIsTotal'
  BY SMTT(60), <1>3, <1>4, <1>5, <1>7, <1>8, ConcludeSound
<1> QED
  BY SMTT(60), <1>6, <1>9, ConsumedSound DEF ClientSound

LEMMA RankResultSound ==
  ASSUME LinkTypeOK, ClientTypeOK, AgreementInv, UNCHANGED daemonVars,
         NEW r \in Ranks, RankResult(r)
  PROVE  ClientSound
<1> DEFINE m == Head(from_rank[r])
           old == transactions[m.id]
           voted == [old EXCEPT !.result_mask = @ \union {r},
                                !.prepared_mask = IF m.status = "OK"
                                                  THEN @ \union {r} ELSE @]
           t == IF m.status = "OK" THEN voted ELSE RecordFailure(voted, m.status)
<1>1. /\ from_rank[r] # << >> /\ m.kind = "RESULT"
      /\ m.id \in Ids /\ m.status \in Statuses
      /\ m.status = "OK" => m.id \in history[r].prepared
  BY Zenon, HeadSound DEF RankResult, Receives
<1>2. old \in Transaction /\ TransactionSound(m.id, old)
  BY SMTT(60), <1>1 DEF ClientTypeOK, AgreementInv, TransactionsSound
<1>3. /\ voted \in Transaction
      /\ voted.status = old.status
      /\ voted.result_mask = old.result_mask \union {r}
      /\ voted.prepared_mask = IF m.status = "OK" THEN old.prepared_mask \union {r}
                                                  ELSE old.prepared_mask
      /\ voted.completion_mask = old.completion_mask
      /\ voted.decision_expected_mask = old.decision_expected_mask
  BY Zenon, <1>2 DEF Transaction
<1>4. \/ RejectStream
      \/ /\ m.status # "OK" \/ t.status # "OK"
         /\ FailPipeline([transactions EXCEPT ![m.id] = t], outcome,
                         IF m.status # "OK" THEN m.status ELSE t.status)
      \/ /\ Consume(r)
         /\ \E p \in {"COMMITTED", "PREPARED", "NONE"} :
              pending' = [pending EXCEPT ![r][m.id] = p]
         /\ Conclude(m.id, t)
         /\ UNCHANGED <<to_rank, wire, client_end, daemon_end, work>>
      \/ /\ t.result_mask = Ranks
         /\ Consume(r)
         /\ Decide(m.id, t, IF t.status = "OK" THEN "COMMIT" ELSE "ABORT",
                   t.prepared_mask)
         /\ UNCHANGED <<wire, client_end, daemon_end, work>>
      \/ FailPipeline([transactions EXCEPT ![m.id] = t], outcome, "BUSY")
  BY Zenon DEF RankResult
<1>5. /\ t \in Transaction /\ TransactionSound(m.id, t)
      /\ t.status = "OK" => old.status = "OK"
      /\ t.decision_expected_mask = old.decision_expected_mask
  <2>1. CASE m.status = "OK"
    <3>1. TransactionSound(m.id, voted)
      <4> HIDE DEF voted
      <4> QED
        BY ZenonT(60), <1>1, <1>2, <1>3, <2>1 DEF TransactionSound
    <3> QED
      BY SMTT(60), <1>3, <2>1, <3>1
  <2>2. CASE m.status # "OK"
    <3> HIDE DEF voted
    <3>1. voted.prepared_mask = old.prepared_mask
      BY Zenon, <1>3, <2>2
    <3>2. \A q \in old.prepared_mask : m.id \in history[q].prepared
      BY Zenon, <1>2 DEF TransactionSound
    <3>3. \A q \in voted.prepared_mask : m.id \in history[q].prepared
      BY Zenon, <3>1, <3>2
    <3>4. voted \in Transaction /\ m.status \in Statuses
      BY Zenon, <1>1, <1>3
    <3>5. t = RecordFailure(voted, m.status)
      BY Zenon, <2>2
    <3>6. RecordFailure(voted, m.status) \in Transaction
      BY Zenon, <3>4, RecordFailureType
    <3>7. /\ TransactionSound(m.id, RecordFailure(voted, m.status))
          /\ RecordFailure(voted, m.status).status # "OK"
          /\ RecordFailure(voted, m.status).decision_expected_mask
               = voted.decision_expected_mask
      BY Zenon, <2>2, <3>3, <3>4, RecordFailureSound
    <3> HIDE DEF m, old, t
    <3> QED
      BY Zenon, <1>3, <3>5, <3>6, <3>7
  <2> QED
    BY ZenonT(60), <2>1, <2>2
<1> HIDE DEF m, old, voted, t
<1>6. \A id \in Ids : outcome[id].completion = "OK" =>
        \A q \in Ranks : id \in history[q].done
  BY DEF AgreementInv, SuccessIsTotal
<1>7. CASE RejectStream
  BY SMTT(60), <1>7, RejectSound
<1>8. ASSUME NEW st \in Statuses, st # "OK",
             FailPipeline([transactions EXCEPT ![m.id] = t], outcome, st)
      PROVE  ClientSound
  BY SMTT(60), <1>6, <1>8, FailPipelineSound
<1>9. t.status \in Statuses /\ "BUSY" \in Statuses
  BY <1>5 DEF Transaction, Statuses
<1>10. ASSUME Consume(r), NEW p \in {"COMMITTED", "PREPARED", "NONE"},
              pending' = [pending EXCEPT ![r][m.id] = p], Conclude(m.id, t),
              UNCHANGED <<to_rank, wire, client_end, daemon_end, work>>
       PROVE  ClientSound
  <2>1. /\ pending'[r][m.id] = p
        /\ \A q \in Ranks, i \in Ids : ~(q = r /\ i = m.id) => pending'[q][i] = pending[q][i]
    BY SMTT(60), <1>1, <1>10 DEF ClientTypeOK
  <2>2. \A q \in Ranks : pending'[q][m.id] = "ABORT" =>
          t.status # "OK" \/ t.decision_expected_mask = {}
    BY SMTT(60), <1>1, <1>5, <2>1 DEF AgreementInv, AbortsFailed, old
  <2>3. TransactionsSound' /\ AbortsFailed' /\ SuccessIsTotal'
    BY SMTT(60), <1>1, <1>5, <1>10, <2>1, <2>2, ConcludeSound
  <2> QED
    BY SMTT(60), <1>1, <1>10, <2>3, ConsumedSound, SameRequestsSound DEF ClientSound
<1>11. CASE /\ t.result_mask = Ranks
            /\ Consume(r)
            /\ Decide(m.id, t, IF t.status = "OK" THEN "COMMIT" ELSE "ABORT",
                      t.prepared_mask)
            /\ UNCHANGED <<wire, client_end, daemon_end, work>>
  BY SMTT(60), <1>1, <1>5, <1>11, DecideSound
<1> QED
  BY ZenonT(60), <1>1, <1>4, <1>7, <1>8, <1>9, <1>10, <1>11

LEMMA RankDecisionResultSound ==
  ASSUME LinkTypeOK, ClientTypeOK, AgreementInv, UNCHANGED daemonVars,
         NEW r \in Ranks, RankDecisionResult(r)
  PROVE  ClientSound
<1> DEFINE m == Head(from_rank[r])
           old == transactions[m.id]
           decided == [old EXCEPT !.decision_result_mask = @ \union {r}]
           t == IF m.status = "OK" THEN decided ELSE RecordFailure(decided, m.status)
           all == t.decision_result_mask = t.decision_expected_mask
           ended == IF all /\ m.kind = "ABORT"
                    THEN [t EXCEPT !.completion_mask = Ranks] ELSE t
<1>1. /\ from_rank[r] # << >>
      /\ m.id \in Ids /\ m.status \in Statuses /\ m.kind \in {"COMMIT", "ABORT"}
  BY ZenonT(60), HeadSound DEF RankDecisionResult, Receives
<1>2. old \in Transaction /\ TransactionSound(m.id, old)
  BY SMTT(60), <1>1 DEF ClientTypeOK, AgreementInv, TransactionsSound
<1>3. /\ decided \in Transaction /\ TransactionSound(m.id, decided)
      /\ decided.status = old.status
      /\ decided.prepared_mask = old.prepared_mask
      /\ decided.decision_expected_mask = old.decision_expected_mask
      /\ r \in decided.decision_result_mask
  BY Zenon, <1>2 DEF Transaction, TransactionSound
<1>4. \/ RejectStream
      \/ m.status # "OK" /\ FailAfter(m.id, ended, m.status)
      \/ /\ m.status = "OK"
         /\ pending[r][m.id] = m.kind
         /\ Consume(r)
         /\ \E p \in {"COMMITTED", "NONE"} : pending' = [pending EXCEPT ![r][m.id] = p]
         /\ Conclude(m.id, ended)
         /\ UNCHANGED <<to_rank, wire, client_end, daemon_end, work>>
  <2>1. Expected(m.kind) = m.kind
    BY <1>1 DEF Expected
  <2>2. Answers(r, m) => pending[r][m.id] = m.kind
    BY SMTT(60), <2>1 DEF Answers
  <2> QED
    BY <2>2, Zenon DEF RankDecisionResult
<1>5. CASE RejectStream
  BY <1>5, RejectSound
<1>6. CASE m.status # "OK" /\ FailAfter(m.id, ended, m.status)
  <2> DEFINE now == ReportResult(ended)
             told == [outcome EXCEPT ![m.id] = Told(@, transactions[m.id], now)]
  <2>1. t \in Transaction /\ t.status # "OK"
    <3> HIDE DEF decided
    <3> QED
      BY ZenonT(60), <1>1, <1>2, <1>3, <1>6, RecordFailureSound, RecordFailureType DEF TransactionSound
  <2>2. ended.status # "OK" /\ ended \in Transaction
    <3> HIDE DEF t
    <3> QED
      BY <2>1 DEF Transaction
  <2> HIDE DEF ended
  <2>3. now.status # "OK"
    BY SMTT(60), <2>2 DEF ReportResult, Transaction
  <2>4. \E txs : FailPipeline(txs, told, m.status)
    BY SMTT(60), <1>6 DEF FailAfter
  <2>5. ASSUME NEW id \in Ids, told[id].completion = "OK"
        PROVE  \A q \in Ranks : id \in history[q].done
    <3> HIDE DEF now
    <3>1. told[id].completion = "OK" => outcome[id].completion = "OK"
      BY SMTT(60), <1>1, <2>3 DEF Told, ClientTypeOK
    <3> QED
      BY SMTT(60), <2>5, <3>1 DEF AgreementInv, SuccessIsTotal
  <2> HIDE DEF told
  <2> QED
    BY SMTT(60), <1>1, <1>6, <2>4, <2>5, FailPipelineSound
<1>7. CASE /\ m.status = "OK"
           /\ pending[r][m.id] = m.kind
           /\ Consume(r)
           /\ \E p \in {"COMMITTED", "NONE"} : pending' = [pending EXCEPT ![r][m.id] = p]
           /\ Conclude(m.id, ended)
           /\ UNCHANGED <<to_rank, wire, client_end, daemon_end, work>>
  <2>1. all /\ m.kind = "ABORT" => old.status # "OK"
    <3>1. t = decided
      BY ZenonT(60), <1>7
    <3> HIDE DEF t, decided
    <3>2. all => old.decision_expected_mask # {}
      BY SMTT(60), <1>3, <3>1
    <3>3. m.kind = "ABORT" => old.status # "OK" \/ old.decision_expected_mask = {}
      BY SMTT(60), <1>1, <1>7 DEF AgreementInv, AbortsFailed
    <3> QED
      BY SMTT(60), <3>2, <3>3
  <2>2. /\ ended \in Transaction /\ TransactionSound(m.id, ended)
        /\ ended.status = old.status
        /\ ended.decision_expected_mask = old.decision_expected_mask
    <3>1. CASE all /\ m.kind = "ABORT"
      <4>1. ended = [decided EXCEPT !.completion_mask = Ranks]
        BY SMTT(60), <1>7, <3>1
      <4> HIDE DEF decided, t, ended
      <4>2. /\ ended \in Transaction /\ ended.status = decided.status
            /\ ended.prepared_mask = decided.prepared_mask
            /\ ended.decision_expected_mask = decided.decision_expected_mask
        BY SMTT(60), <1>3, <4>1 DEF Transaction
      <4> QED
        BY ZenonT(60), <1>3, <2>1, <3>1, <4>2 DEF TransactionSound
    <3>2. CASE ~(all /\ m.kind = "ABORT")
      <4>1. ended = decided
        BY ZenonT(60), <1>7, <3>2
      <4> HIDE DEF decided, ended
      <4> QED
        BY SMTT(60), <1>3, <4>1
    <3> QED
      BY ZenonT(60), <3>1, <3>2
  <2> HIDE DEF m, old, decided, t, ended
  <2>3. PICK p \in {"COMMITTED", "NONE"} : pending' = [pending EXCEPT ![r][m.id] = p]
    BY ZenonT(60), <1>7
  <2>4. /\ pending'[r][m.id] = p
        /\ \A q \in Ranks, i \in Ids : ~(q = r /\ i = m.id) => pending'[q][i] = pending[q][i]
    BY <1>1, <2>3 DEF ClientTypeOK
  <2>5. \A q \in Ranks : pending'[q][m.id] = "ABORT" =>
          ended.status # "OK" \/ ended.decision_expected_mask = {}
    BY <1>1, <2>2, <2>4 DEF AgreementInv, AbortsFailed, old
  <2>6. TransactionsSound' /\ AbortsFailed' /\ SuccessIsTotal'
    BY SMTT(60), <1>1, <1>7, <2>2, <2>4, <2>5, ConcludeSound
  <2> QED
    BY SMTT(60), <1>1, <1>7, <2>6, ConsumedSound, SameRequestsSound DEF ClientSound
<1> QED
  BY ZenonT(60), <1>4, <1>5, <1>6, <1>7

LEMMA RankCompletionSound ==
  ASSUME LinkTypeOK, ClientTypeOK, AgreementInv, UNCHANGED daemonVars,
         NEW r \in Ranks, RankCompletion(r)
  PROVE  ClientSound
<1> DEFINE m == Head(from_rank[r])
           old == transactions[m.id]
           done == [old EXCEPT !.completion_mask = @ \union {r}]
           t == IF m.status = "OK" THEN done ELSE RecordFailure(done, m.status)
<1>1. /\ from_rank[r] # << >> /\ m.kind = "COMPLETION"
      /\ m.id \in Ids /\ m.status \in Statuses
      /\ m.status = "OK" => m.id \in history[r].done
  BY SMTT(60), HeadSound DEF RankCompletion, Receives
<1>2. old \in Transaction /\ TransactionSound(m.id, old)
  BY SMTT(60), <1>1 DEF ClientTypeOK, AgreementInv, TransactionsSound
<1>3. /\ done \in Transaction
      /\ done.status = old.status
      /\ done.prepared_mask = old.prepared_mask
      /\ done.result_mask = old.result_mask
      /\ done.completion_mask = old.completion_mask \union {r}
      /\ done.decision_expected_mask = old.decision_expected_mask
  BY Zenon, <1>2 DEF Transaction
<1>4. \/ RejectStream
      \/ /\ Consume(r)
         /\ pending' = [pending EXCEPT ![r][m.id] = "NONE"]
         /\ Conclude(m.id, t)
         /\ UNCHANGED <<to_rank, wire, client_end, daemon_end, work>>
  BY Zenon DEF RankCompletion
<1>5. /\ t \in Transaction /\ TransactionSound(m.id, t)
      /\ t.status = "OK" => old.status = "OK"
      /\ t.decision_expected_mask = old.decision_expected_mask
  <2> HIDE DEF done
  <2>1. CASE m.status = "OK"
    BY ZenonT(60), <1>1, <1>2, <1>3, <2>1 DEF TransactionSound
  <2>2. CASE m.status # "OK"
    <3>1. \A q \in done.prepared_mask : m.id \in history[q].prepared
      BY ZenonT(60), <1>2, <1>3 DEF TransactionSound
    <3> QED
      BY ZenonT(60), <1>1, <1>3, <2>2, <3>1, RecordFailureSound, RecordFailureType
  <2> QED
    BY SMTT(60), <2>1, <2>2
<1> HIDE DEF m, old, done, t
<1>6. CASE RejectStream
  BY <1>6, RejectSound
<1>7. CASE /\ Consume(r)
           /\ pending' = [pending EXCEPT ![r][m.id] = "NONE"]
           /\ Conclude(m.id, t)
           /\ UNCHANGED <<to_rank, wire, client_end, daemon_end, work>>
  <2>1. /\ pending'[r][m.id] = "NONE"
        /\ \A q \in Ranks, i \in Ids : ~(q = r /\ i = m.id) => pending'[q][i] = pending[q][i]
    BY SMTT(60), <1>1, <1>7 DEF ClientTypeOK
  <2>2. \A q \in Ranks : pending'[q][m.id] = "ABORT" =>
          t.status # "OK" \/ t.decision_expected_mask = {}
    BY SMTT(60), <1>1, <1>5, <2>1 DEF AgreementInv, AbortsFailed, old
  <2>3. TransactionsSound' /\ AbortsFailed' /\ SuccessIsTotal'
    BY SMTT(60), <1>1, <1>5, <1>7, <2>1, <2>2, ConcludeSound
  <2> QED
    BY SMTT(60), <1>1, <1>7, <2>3, ConsumedSound, SameRequestsSound DEF ClientSound
<1> QED
  BY SMTT(60), <1>4, <1>6, <1>7

LEMMA ConnectionLostSound ==
  ASSUME LinkTypeOK, AgreementInv, UNCHANGED daemonVars,
         NEW r \in Ranks, ConnectionLost(r)
  PROVE  ClientSound
<1>1. CASE FailPipeline(transactions, outcome, "IO_ERROR")
  BY <1>1, FailPipelineSound DEF AgreementInv, SuccessIsTotal, Statuses
<1>2. CASE /\ from_rank' = [from_rank EXCEPT ![r] = << >>]
           /\ UNCHANGED <<to_rank, wire, daemon_end, work, clientVars>>
  <2>1. \A q \in Ranks : from_rank'[q] \in {<< >>, from_rank[q]}
    BY SMTT(60), <1>2 DEF LinkTypeOK
  <2>2. RepliesSound'
    BY SMTT(60), <2>1, ElementsEmpty DEF AgreementInv, RepliesSound, daemonVars
  <2>3. TransactionsSound' /\ AbortsFailed' /\ SuccessIsTotal'
    BY Zenon, <1>2 DEF clientVars, daemonVars, AgreementInv, TransactionsSound,
                TransactionSound, AbortsFailed, SuccessIsTotal
  <2> QED
    BY SMTT(60), <1>2, <2>2, <2>3, SameRequestsSound DEF ClientSound
<1> QED
  BY SMTT(60), <1>1, <1>2 DEF ConnectionLost

\* A handler of the client leaves routes and runs alone.
LEMMA ClientStepAgrees ==
  ASSUME AgreementInv, UNCHANGED daemonVars, UNCHANGED work, ClientSound
  PROVE  AgreementInv'
<1>1. RoutesSound' /\ RunsCleared'
  BY DEF AgreementInv, RoutesSound, RouteSound, RunsCleared, Ran, Voted,
         Continuations, Continued, daemonVars
<1> QED
  BY SMTT(60), <1>1 DEF AgreementInv, ClientSound

\* New work: nothing is known of its submission anywhere.
LEMMA EngineAgrees ==
  ASSUME TypeOK, OrderInv, AgreementInv, EngineStep, UNCHANGED daemonVars
  PROVE  AgreementInv'
<1>0. LinkTypeOK /\ ClientTypeOK /\ DaemonTypeOK /\ UNCHANGED history
  BY DEF TypeOK, daemonVars
<1>1. PICK new \in Ids, kind \in WorkKinds, lanes \in LaneSets,
           follows \in BOOLEAN, deadline \in Deadlines :
        Submit(new, kind, lanes, follows, deadline)
  BY DEF EngineStep
<1> DEFINE continued == CanContinue(kind, lanes, follows)
           w == [kind |-> kind, lanes |-> lanes, deadline |-> deadline,
                 session |-> session,
                 lease |-> [s \in Slots |-> IF continued /\ s \in lanes
                                            THEN leases[s] ELSE NoId]]
           m == Request(IF continued THEN "CONTINUE" ELSE "PREPARE", new)
           t == [NoTransaction EXCEPT !.active = TRUE, !.continued = continued]
<1>2. /\ work' = [work EXCEPT ![new] = w]
      /\ transactions' = [transactions EXCEPT ![new] = t]
      /\ pending' = [r \in Ranks |-> [pending[r] EXCEPT ![new] = "SENT"]]
      /\ to_rank' = Broadcast(IF continued THEN "CONTINUE" ELSE "PREPARE", new, Ranks)
      /\ new = last_submission_id + 1
      /\ lanes # {}
      /\ UNCHANGED <<from_rank, outcome>>
  BY <1>1 DEF Submit
<1>3. TransactionSound(new, t)
  BY DEF TransactionSound, NoTransaction
<1>4. continued => new \in Continuations'
  <2> SUFFICES ASSUME continued PROVE new \in Continuations'
    OBVIOUS
  <2>1. PICK s \in lanes : TRUE
    BY <1>2
  <2>2. s \in Slots /\ leases[s] # NoId
    BY SMTT(60), PipelineAssumption DEF CanContinue
  <2>3. w.lanes = lanes /\ w.lease[s] = leases[s]
    BY <2>2
  <2>4. work'[new] = w
    BY SMTT(60), <1>0, <1>2 DEF LinkTypeOK
  <2> HIDE DEF w
  <2>5. \E x \in work'[new].lanes : work'[new].lease[x] # NoId
    BY SMTT(60), <2>2, <2>3, <2>4
  <2> QED
    BY <2>5 DEF Continuations, Continued
<1>5. /\ m \in Requests /\ m.id = new
      /\ m.kind = "CONTINUE" => new \in Continuations'
      /\ m.kind # "COMMIT"
  BY SMTT(60), <1>4 DEF Request, Requests
<1> HIDE DEF continued, w, t
<1>6. Voted' = Voted /\ (\A id \in Ids : id # new /\ id \in Continuations => id \in Continuations')
  BY SMTT(60), <1>0, <1>2 DEF Voted, Continuations, Continued, LinkTypeOK
<1>7. /\ \A r \in Ranks : ~Known(r, new)
      /\ \A r \in Ranks : \A i \in DOMAIN to_rank[r] :
           Opens(to_rank[r][i]) => to_rank[r][i].id # new
  <2>1. last_submission_id \in Nat /\ ~(new <= last_submission_id)
    BY SMTT(60), <1>0, <1>2 DEF ClientTypeOK, Ids, NoId
  <2> QED
    BY SMTT(60), <2>1 DEF OrderInv, Numbered
<1>8. RequestsSound'
  <2> SUFFICES ASSUME NEW r \in Ranks, NEW x \in Elements(to_rank'[r])
               PROVE  /\ x.kind = "COMMIT" => x.id \in Voted'
                      /\ x.kind = "CONTINUE" => x.id \in Continuations'
    BY DEF RequestsSound, Elements
  <2>1. to_rank[r] \in Seq(Requests)
    BY SMTT(60), <1>0 DEF LinkTypeOK
  <2>2. to_rank'[r] = to_rank[r] \/ to_rank'[r] = Append(to_rank[r], m)
    BY SMTT(60), <1>2, BroadcastStream DEF m
  <2>3. x \in Elements(to_rank[r]) \/ x = m
    <3> HIDE DEF m
    <3> QED
      BY ZenonT(60), <1>5, <2>1, <2>2, ElementsAppend
  <2>4. CASE x \in Elements(to_rank[r])
    <3>1. PICK i \in DOMAIN to_rank[r] : x = to_rank[r][i]
      BY <2>4 DEF Elements
    <3>2. x.id \in Ids
      BY SMTT(60), <1>0, <3>1, RequestId
    <3>3. x.kind = "CONTINUE" => x.id # new
      BY SMTT(60), <1>7, <3>1 DEF Opens
    <3> QED
      BY <1>6, <2>4, <3>2, <3>3 DEF AgreementInv, RequestsSound
  <2>5. CASE x = m
    BY SMTT(60), <1>5, <2>5
  <2> QED
    BY SMTT(60), <2>3, <2>4, <2>5
<1>9. RepliesSound' /\ SuccessIsTotal'
  BY SMTT(60), <1>0, <1>2 DEF AgreementInv, RepliesSound, SuccessIsTotal
<1>10. TransactionsSound'
  <2>1. \A id \in Ids : transactions'[id] \in {transactions[id], t}
                        /\ (transactions'[id] = t /\ id # new => t = transactions[id])
    BY SMTT(60), <1>0, <1>2 DEF ClientTypeOK
  <2>2. \A id \in Ids : TransactionSound(id, transactions'[id])
    BY SMTT(60), <1>3, <2>1 DEF AgreementInv, TransactionsSound
  <2> QED
    BY SMTT(60), <1>0, <2>2 DEF TransactionsSound, TransactionSound
<1>11. AbortsFailed'
  <2>1. \A r \in Ranks, id \in Ids : pending'[r][id] = IF id = new THEN "SENT" ELSE pending[r][id]
    BY SMTT(60), <1>0, <1>2 DEF ClientTypeOK
  <2>2. \A id \in Ids : id # new => transactions'[id] = transactions[id]
    BY SMTT(60), <1>0, <1>2 DEF ClientTypeOK
  <2> QED
    BY SMTT(60), <2>1, <2>2 DEF AgreementInv, AbortsFailed
<1>12. RoutesSound'
  <2>1. \A r \in Ranks, id \in Ids : routes[r][id].state # "IDLE" => id # new
    BY <1>7 DEF Known, Active
  <2>2. UNCHANGED routes
    BY DEF daemonVars
  <2> QED
    BY SMTT(60), <1>6, <2>1, <2>2 DEF AgreementInv, RoutesSound, RouteSound
<1>13. RunsCleared'
  <2>1. \A r \in Ranks, id \in Ids : Ran(r, id)' => Ran(r, id) /\ id # new
    BY <1>0, <1>7 DEF Known, Ran
  <2> QED
    BY SMTT(60), <1>6, <2>1 DEF AgreementInv, RunsCleared
<1> QED
  BY SMTT(60), <1>8, <1>9, <1>10, <1>11, <1>12, <1>13 DEF AgreementInv
=============================================================================
