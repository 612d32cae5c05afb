------------------------ MODULE PipelineOrderProofs ------------------------
(***************************************************************************)
(* Every rank runs work in the order of submission.  A step either leaves  *)
(* the order alone (QuietStep), sends a new request (Submit), opens a      *)
(* route (ReadPrepare, ReadContinue) or starts one (SubmitAdapter).        *)
(***************************************************************************)
EXTENDS PipelineTypeProofs

\* The stream to rank r gets no new request that opens a route.
QuietStream(r) ==
  \/ to_rank'[r] = to_rank[r]
  \/ to_rank[r] # << >> /\ to_rank'[r] = Tail(to_rank[r])
  \/ to_rank'[r] = << >>
  \/ \E m \in Requests : ~Opens(m) /\ to_rank'[r] = Append(to_rank[r], m)

\* A route is not opened by the change, nor brought back once it cannot run.
QuietChange(old, new) ==
  /\ new.state # "IDLE" => old.state # "IDLE"
  /\ new.state \in MayRun => old.state \in MayRun
  /\ new.state \in {"WAIT_INPUT", "READY_ADAPTER"} => new.queued
  /\ new.state \in {"RESERVED", "PREPARING"} => ~new.queued

QuietRoute(r, id) == QuietChange(routes[r][id], routes'[r][id])

\* The requests of a quiet stream were there before, perhaps one place later.
LEMMA QuietStreamShifted ==
  ASSUME LinkTypeOK, NEW r \in Ranks, QuietStream(r)
  PROVE  \E d \in {0, 1} : \A i \in DOMAIN to_rank'[r] : Opens(to_rank'[r][i]) =>
           i + d \in DOMAIN to_rank[r] /\ to_rank'[r][i] = to_rank[r][i + d]
<1>0. to_rank[r] \in Seq(Requests)
  BY DEF LinkTypeOK
<1>1. CASE to_rank'[r] = to_rank[r]
  <2>1. \A i \in DOMAIN to_rank'[r] : i + 0 = i
    BY <1>0, <1>1
  <2> QED
    BY <1>1, <2>1
<1>2. CASE to_rank[r] # << >> /\ to_rank'[r] = Tail(to_rank[r])
  <2>1. \A i \in DOMAIN Tail(to_rank[r]) :
          i + 1 \in DOMAIN to_rank[r] /\ Tail(to_rank[r])[i] = to_rank[r][i + 1]
    BY <1>0, <1>2
  <2> QED
    BY <1>2, <2>1
<1>3. CASE to_rank'[r] = << >>
  BY <1>3
<1>4. CASE \E m \in Requests : ~Opens(m) /\ to_rank'[r] = Append(to_rank[r], m)
  <2>1. PICK m \in Requests : ~Opens(m) /\ to_rank'[r] = Append(to_rank[r], m)
    BY <1>4
  <2>2. ASSUME NEW i \in DOMAIN to_rank'[r], Opens(to_rank'[r][i])
        PROVE  i + 0 \in DOMAIN to_rank[r] /\ to_rank'[r][i] = to_rank[r][i + 0]
    <3>1. i \in 1..(Len(to_rank[r]) + 1)
      BY <1>0, <2>1
    <3>2. i # Len(to_rank[r]) + 1
      BY <1>0, <2>1, <2>2
    <3> QED
      BY <1>0, <2>1, <3>1, <3>2
  <2> QED
    BY <2>2
<1> QED
  BY <1>1, <1>2, <1>3, <1>4 DEF QuietStream

LEMMA RanUnchanged ==
  ASSUME NEW r \in Ranks, history'[r].ran = history[r].ran, NEW id
  PROVE  Ran(r, id)' <=> Ran(r, id)
  BY DEF Ran

LEMMA QuietStepKeepsOrder ==
  ASSUME LinkTypeOK, LinkTypeOK', OrderInv,
         last_submission_id' = last_submission_id,
         \A r \in Ranks : QuietStream(r) /\ history'[r].ran = history[r].ran,
         \A r \in Ranks, id \in Ids : QuietRoute(r, id)
  PROVE  OrderInv'
<1> USE DEF OrderInv
<1>1. \A r \in Ranks, id \in Ids : Known(r, id)' => Known(r, id)
  BY RanUnchanged DEF Known, Active, QuietRoute, QuietChange
<1>2. Numbered'
  <2>1. ASSUME NEW r \in Ranks, NEW i \in DOMAIN to_rank'[r], Opens(to_rank'[r][i])
        PROVE  to_rank'[r][i].id <= last_submission_id
    BY <2>1, QuietStreamShifted DEF Numbered
  <2> QED
    BY <1>1, <2>1 DEF Numbered, Opens
<1>3. StreamOrdered'
  <2> SUFFICES ASSUME NEW r \in Ranks
               PROVE  /\ \A i, j \in DOMAIN to_rank'[r] :
                           i < j /\ Opens(to_rank'[r][i]) /\ Opens(to_rank'[r][j]) =>
                             to_rank'[r][i].id < to_rank'[r][j].id
                      /\ \A i \in DOMAIN to_rank'[r], id \in Ids :
                           Opens(to_rank'[r][i]) /\ Known(r, id)' => id < to_rank'[r][i].id
    BY DEF StreamOrdered, Opens
  <2>1. PICK d \in {0, 1} : \A i \in DOMAIN to_rank'[r] : Opens(to_rank'[r][i]) =>
          i + d \in DOMAIN to_rank[r] /\ to_rank'[r][i] = to_rank[r][i + d]
    BY QuietStreamShifted
  <2>2. ASSUME NEW i \in DOMAIN to_rank'[r], NEW j \in DOMAIN to_rank'[r], i < j,
               Opens(to_rank'[r][i]), Opens(to_rank'[r][j])
        PROVE  to_rank'[r][i].id < to_rank'[r][j].id
    <3>1. DOMAIN to_rank'[r] \subseteq Nat
      BY DEF LinkTypeOK
    <3>2. i + d < j + d
      BY SMTT(60), <2>2, <3>1
    <3> QED
      BY <2>1, <2>2, <3>2 DEF StreamOrdered
  <2>3. ASSUME NEW i \in DOMAIN to_rank'[r], NEW id \in Ids,
               Opens(to_rank'[r][i]), Known(r, id)'
        PROVE  id < to_rank'[r][i].id
    BY SMTT(60), <1>1, <2>1, <2>3 DEF StreamOrdered
  <2> QED
    BY <2>2, <2>3
<1>4. RoutesOrdered'
  BY RanUnchanged DEF RoutesOrdered, QuietRoute, QuietChange
<1>5. QueuedWhenCommitted'
  BY DEF QueuedWhenCommitted, QuietRoute, QuietChange
<1>6. RunsInOrder'
  BY DEF RunsInOrder
<1> QED
  BY SMTT(60), <1>2, <1>3, <1>4, <1>5, <1>6

-----------------------------------------------------------------------------
LEMMA RequestId ==
  ASSUME LinkTypeOK, NEW r \in Ranks, NEW i \in DOMAIN to_rank[r]
  PROVE  to_rank[r][i].id \in Ids /\ to_rank[r][i].id \in Nat
<1>1. to_rank[r] \in Seq(Requests)
  BY DEF LinkTypeOK
<1>2. to_rank[r][i] \in Requests
  BY <1>1
<1> QED
  BY <1>2 DEF Requests, Ids

LEMMA TailIndex ==
  ASSUME NEW S, NEW s \in Seq(S), s # << >>, NEW i \in DOMAIN Tail(s)
  PROVE  i \in Nat /\ i + 1 \in DOMAIN s /\ 1 < i + 1 /\ Tail(s)[i] = s[i + 1]
<1>1. Len(s) \in Nat /\ Len(s) > 0 /\ DOMAIN s = 1..Len(s)
  OBVIOUS
<1>2. Tail(s) \in Seq(S) /\ Len(Tail(s)) = Len(s) - 1
  BY <1>1
<1>3. i \in 1..(Len(s) - 1)
  BY <1>1, <1>2
<1> QED
  BY <1>1, <1>3

\* A new submission is younger than everything.
LEMMA SubmitKeepsOrder ==
  ASSUME LinkTypeOK, LinkTypeOK', ClientTypeOK, OrderInv, UNCHANGED daemonVars,
         NEW id \in Ids, NEW m \in Requests, m.id = id,
         id = last_submission_id + 1, last_submission_id' = id,
         \A r \in Ranks : \/ to_rank'[r] = to_rank[r]
                          \/ to_rank'[r] = Append(to_rank[r], m)
  PROVE  OrderInv'
<1> USE DEF OrderInv
<1>0. last_submission_id \in Nat
  BY DEF ClientTypeOK, Ids, NoId
<1>1. \A r \in Ranks, i \in Ids : Known(r, i)' <=> Known(r, i)
  BY DEF daemonVars, Known, Active, Ran
<1>2. ASSUME NEW r \in Ranks, NEW i \in DOMAIN to_rank'[r]
      PROVE  \/ i \in DOMAIN to_rank[r] /\ to_rank'[r][i] = to_rank[r][i]
             \/ /\ to_rank'[r][i] = m
                /\ \A j \in DOMAIN to_rank'[r] : j <= i
  <2>1. to_rank[r] \in Seq(Requests)
    BY DEF LinkTypeOK
  <2>2. CASE to_rank'[r] = Append(to_rank[r], m)
    <3>1. DOMAIN to_rank'[r] = 1..(Len(to_rank[r]) + 1)
      BY <2>1, <2>2
    <3>2. CASE i = Len(to_rank[r]) + 1
      BY <2>1, <2>2, <3>1, <3>2
    <3>3. CASE i # Len(to_rank[r]) + 1
      BY <2>1, <2>2, <3>1, <3>3
    <3> QED
      BY <3>2, <3>3
  <2> QED
    BY <2>2
<1>3. Numbered'
  <2>1. ASSUME NEW r \in Ranks, NEW i \in DOMAIN to_rank'[r], Opens(to_rank'[r][i])
        PROVE  to_rank'[r][i].id <= last_submission_id'
    <3>1. to_rank'[r][i].id \in Nat
      <4>1. CASE to_rank'[r][i] = m
        BY <4>1 DEF Ids
      <4> QED
        BY <1>2, <4>1, RequestId
    <3> QED
      BY <1>0, <1>2, <2>1, <3>1 DEF Numbered
  <2>2. ASSUME NEW r \in Ranks, NEW i \in Ids, Known(r, i)'
        PROVE  i <= last_submission_id'
    BY <1>0, <1>1, <2>2 DEF Numbered, Ids
  <2> QED
    BY <2>1, <2>2 DEF Numbered, Opens
<1>4. StreamOrdered'
  <2> SUFFICES ASSUME NEW r \in Ranks
               PROVE  /\ \A i, j \in DOMAIN to_rank'[r] :
                           i < j /\ Opens(to_rank'[r][i]) /\ Opens(to_rank'[r][j]) =>
                             to_rank'[r][i].id < to_rank'[r][j].id
                      /\ \A i \in DOMAIN to_rank'[r], k \in Ids :
                           Opens(to_rank'[r][i]) /\ Known(r, k)' => k < to_rank'[r][i].id
    BY DEF StreamOrdered, Opens
  <2>0. DOMAIN to_rank'[r] \subseteq Nat
    BY DEF LinkTypeOK
  <2>1. ASSUME NEW i \in DOMAIN to_rank'[r], NEW j \in DOMAIN to_rank'[r], i < j,
               Opens(to_rank'[r][i]), Opens(to_rank'[r][j])
        PROVE  to_rank'[r][i].id < to_rank'[r][j].id
    <3>1. i \in DOMAIN to_rank[r] /\ to_rank'[r][i] = to_rank[r][i]
      BY SMTT(60), <1>2, <2>0, <2>1
    <3>2. CASE j \in DOMAIN to_rank[r] /\ to_rank'[r][j] = to_rank[r][j]
      BY <2>1, <3>1, <3>2 DEF StreamOrdered
    <3>3. CASE to_rank'[r][j] = m
      <4>1. to_rank[r][i].id <= last_submission_id /\ to_rank[r][i].id \in Nat
        BY SMTT(60), <2>1, <3>1, RequestId DEF Numbered
      <4> QED
        BY SMTT(60), <1>0, <3>1, <3>3, <4>1
    <3> QED
      BY <1>2, <3>2, <3>3
  <2>2. ASSUME NEW i \in DOMAIN to_rank'[r], NEW k \in Ids,
               Opens(to_rank'[r][i]), Known(r, k)'
        PROVE  k < to_rank'[r][i].id
    <3>1. CASE i \in DOMAIN to_rank[r] /\ to_rank'[r][i] = to_rank[r][i]
      BY <1>1, <2>2, <3>1 DEF StreamOrdered
    <3>2. CASE to_rank'[r][i] = m
      BY SMTT(60), <1>0, <1>1, <2>2, <3>2 DEF Numbered, Ids
    <3> QED
      BY SMTT(60), <1>2, <3>1, <3>2
  <2> QED
    BY SMTT(60), <2>1, <2>2
<1>5. RoutesOrdered' /\ QueuedWhenCommitted' /\ RunsInOrder'
  BY DEF daemonVars, RoutesOrdered, QueuedWhenCommitted, RunsInOrder, Ran
<1> QED
  BY <1>3, <1>4, <1>5

-----------------------------------------------------------------------------
\* A rank opens a route for the first request of its stream, which is younger
\* than what it knows and older than the rest of the stream.
LEMMA OpeningKeepsOrder ==
  ASSUME LinkTypeOK, LinkTypeOK', DaemonTypeOK, OrderInv,
         last_submission_id' = last_submission_id,
         NEW q \in Ranks, to_rank[q] # << >>, Opens(Head(to_rank[q])),
         to_rank' = [to_rank EXCEPT ![q] = Tail(@)],
         NEW route, ~route.queued,
         route.state \in {"RESERVED", "PREPARING", "FAILED"},
         routes' = [routes EXCEPT ![q][Head(to_rank[q]).id] = route],
         \A r \in Ranks : history'[r].ran = history[r].ran
  PROVE  OrderInv'
<1> USE DEF OrderInv
<1> DEFINE id == Head(to_rank[q]).id
<1>1. /\ to_rank[q] \in Seq(Requests) /\ id \in Ids
      /\ 1 \in DOMAIN to_rank[q] /\ Head(to_rank[q]) = to_rank[q][1]
  <2>1. to_rank[q] \in Seq(Requests)
    BY DEF LinkTypeOK
  <2>2. 1 \in DOMAIN to_rank[q] /\ Head(to_rank[q]) = to_rank[q][1]
    BY <2>1
  <2>3. Head(to_rank[q]) \in Requests
    BY <2>1
  <2> QED
    BY <2>1, <2>2, <2>3 DEF Requests
<1>2. id <= last_submission_id
  BY <1>1 DEF Numbered
<1>3. \A k \in Ids : Known(q, k) => k < id
  BY SMTT(60), <1>1 DEF StreamOrdered
<1> HIDE DEF id
<1>4. /\ routes'[q][id] = route
      /\ \A r \in Ranks, k \in Ids :
           ~(r = q /\ k = id) => routes'[r][k] = routes[r][k]
  BY SMTT(60), <1>1 DEF DaemonTypeOK, id
<1>5. \A r \in Ranks, k \in Ids :
        Known(r, k)' => Known(r, k) \/ (r = q /\ k = id)
  BY <1>4, RanUnchanged DEF Known, Active
<1>6. \A i \in DOMAIN to_rank'[q] :
        /\ i \in Nat /\ i + 1 \in DOMAIN to_rank[q] /\ 1 < i + 1
        /\ to_rank'[q][i] = to_rank[q][i + 1]
  <2>1. to_rank'[q] = Tail(to_rank[q])
    BY DEF LinkTypeOK
  <2>2. \A i \in DOMAIN Tail(to_rank[q]) :
          /\ i \in Nat /\ i + 1 \in DOMAIN to_rank[q] /\ 1 < i + 1
          /\ Tail(to_rank[q])[i] = to_rank[q][i + 1]
    BY <1>1, TailIndex
  <2> QED
    BY Zenon, <2>1, <2>2
<1>7. \A r \in Ranks : r # q => to_rank'[r] = to_rank[r]
  BY DEF LinkTypeOK
<1>8. Numbered'
  <2>1. ASSUME NEW r \in Ranks, NEW i \in DOMAIN to_rank'[r], Opens(to_rank'[r][i])
        PROVE  to_rank'[r][i].id <= last_submission_id
    BY SMTT(60), <1>6, <1>7, <2>1 DEF Numbered
  <2> QED
    BY SMTT(60), <1>2, <1>5, <2>1 DEF Numbered, Opens
<1>9. StreamOrdered'
  <2> SUFFICES ASSUME NEW r \in Ranks
               PROVE  /\ \A i, j \in DOMAIN to_rank'[r] :
                           i < j /\ Opens(to_rank'[r][i]) /\ Opens(to_rank'[r][j]) =>
                             to_rank'[r][i].id < to_rank'[r][j].id
                      /\ \A i \in DOMAIN to_rank'[r], k \in Ids :
                           Opens(to_rank'[r][i]) /\ Known(r, k)' => k < to_rank'[r][i].id
    BY DEF StreamOrdered, Opens
  <2>1. CASE r # q
    BY <1>5, <1>7, <2>1 DEF StreamOrdered
  <2>2. CASE r = q
    <3>1. ASSUME NEW i \in DOMAIN to_rank'[q], NEW j \in DOMAIN to_rank'[q], i < j,
                 Opens(to_rank'[q][i]), Opens(to_rank'[q][j])
          PROVE  to_rank'[q][i].id < to_rank'[q][j].id
      <4>1. i + 1 < j + 1
        BY <1>6, <3>1
      <4> QED
        BY <1>6, <3>1, <4>1 DEF StreamOrdered
    <3>2. ASSUME NEW i \in DOMAIN to_rank'[q], NEW k \in Ids,
                 Opens(to_rank'[q][i]), Known(q, k)'
          PROVE  k < to_rank'[q][i].id
      <4>1. CASE Known(q, k)
        BY SMTT(60), <1>6, <3>2, <4>1 DEF StreamOrdered
      <4>2. CASE k = id
        BY ZenonT(60), <1>1, <1>6, <3>2, <4>2 DEF StreamOrdered, id
      <4> QED
        BY SMTT(60), <1>5, <3>2, <4>1, <4>2
    <3> QED
      BY ZenonT(60), <2>2, <3>1, <3>2
  <2> QED
    BY ZenonT(60), <2>1, <2>2
<1>10. RoutesOrdered'
  <2> SUFFICES ASSUME NEW r \in Ranks, NEW k \in Ids, NEW old \in Ids,
                      routes'[r][k].state \in MayRun, Ran(r, old)'
               PROVE  old < k
    BY DEF RoutesOrdered
  <2>1. Ran(r, old)
    BY RanUnchanged
  <2>2. CASE r = q /\ k = id
    BY <1>3, <2>1, <2>2 DEF Known
  <2>3. CASE ~(r = q /\ k = id)
    BY SMTT(60), <1>4, <2>1, <2>3 DEF RoutesOrdered
  <2> QED
    BY <2>2, <2>3
<1>11. QueuedWhenCommitted'
  BY <1>4 DEF QueuedWhenCommitted
<1>12. RunsInOrder'
  BY DEF RunsInOrder
<1> QED
  BY SMTT(60), <1>8, <1>9, <1>10, <1>11, <1>12

-----------------------------------------------------------------------------
\* The route a rank starts is the oldest of those that may still run.
LEMMA StartKeepsOrder ==
  ASSUME DaemonTypeOK, OrderInv, NEW q \in Ranks, NEW id \in Ids, MayStart(q, id),
         NEW running, running.state = "WAIT_ADAPTER", SetRoute(q, id, running),
         history' = [history EXCEPT ![q].ran = Append(@, id)],
         UNCHANGED <<to_rank, last_submission_id>>
  PROVE  OrderInv'
<1> USE DEF OrderInv
<1>1. /\ routes'[q][id] = running
      /\ \A r \in Ranks, k \in Ids :
           ~(r = q /\ k = id) => routes'[r][k] = routes[r][k]
  BY DEF SetRoute, DaemonTypeOK
<1>2. history[q].ran \in Seq(Ids)
  <2>1. history[q] \in History
    BY DEF DaemonTypeOK
  <2> QED
    BY <2>1 DEF History
<1>3. /\ history'[q].ran = Append(history[q].ran, id)
      /\ \A r \in Ranks : r # q => history'[r].ran = history[r].ran
  <2>1. history[q] \in History
    BY DEF DaemonTypeOK
  <2>2. history'[q] = [history[q] EXCEPT !.ran = Append(@, id)]
    BY DEF DaemonTypeOK
  <2>3. history'[q].ran = Append(history[q].ran, id)
    BY <2>1, <2>2 DEF History
  <2>4. \A r \in Ranks : r # q => history'[r] = history[r]
    BY DEF DaemonTypeOK
  <2> QED
    BY <2>3, <2>4
<1>4. \A k : Ran(q, k)' => Ran(q, k) \/ k = id
  BY <1>2, <1>3 DEF Ran
<1>5. \A r \in Ranks : \A k : r # q => (Ran(r, k)' <=> Ran(r, k))
  BY <1>3 DEF Ran
<1>6. routes[q][id].state = "READY_ADAPTER"
  BY DEF MayStart, InState
<1>7. \A r \in Ranks, k \in Ids : Known(r, k)' => Known(r, k)
  BY SMTT(60), <1>1, <1>4, <1>5, <1>6 DEF Known, Active
<1>8. Numbered' /\ StreamOrdered'
  BY <1>7 DEF Numbered, StreamOrdered, Opens
<1>9. \A old \in Ids : Ran(q, old) => old < id
  BY <1>6 DEF RoutesOrdered, MayRun
<1>10. RoutesOrdered'
  <2> SUFFICES ASSUME NEW r \in Ranks, NEW k \in Ids, NEW old \in Ids,
                      routes'[r][k].state \in MayRun, Ran(r, old)'
               PROVE  old < k
    BY DEF RoutesOrdered
  <2>1. ~(r = q /\ k = id) /\ routes[r][k].state \in MayRun
    BY <1>1 DEF MayRun
  <2>2. CASE Ran(r, old)
    BY <2>1, <2>2 DEF RoutesOrdered
  <2>3. CASE r = q /\ old = id
    <3>1. ~(k < id)
      <4> SUFFICES ASSUME k < id PROVE FALSE
        OBVIOUS
      <4>1. k \in 1..(id - 1)
        BY DEF Ids
      <4>2. ~routes[q][k].queued
        BY <4>1 DEF MayStart, IsHead
      <4>3. routes[q][k].state \notin {"RESERVED", "PREPARING"}
        BY <4>1, <4>2 DEF MayStart, EarlierRouteUncommitted
      <4> QED
        BY <2>1, <2>3, <4>2, <4>3 DEF MayRun, QueuedWhenCommitted
    <3> QED
      BY <2>1, <2>3, <3>1 DEF Ids
  <2> QED
    BY <1>4, <1>5, <2>2, <2>3
<1>11. QueuedWhenCommitted'
  BY <1>1 DEF QueuedWhenCommitted
<1>12. RunsInOrder'
  <2> SUFFICES ASSUME NEW r \in Ranks, NEW i \in DOMAIN history'[r].ran,
                      NEW j \in DOMAIN history'[r].ran, i < j
               PROVE  history'[r].ran[i] < history'[r].ran[j]
    BY SMTT(60) DEF RunsInOrder
  <2>1. CASE r # q
    BY <1>3, <2>1 DEF RunsInOrder
  <2>2. CASE r = q
    <3> DEFINE s == history[q].ran
    <3>1. i \in 1..(Len(s) + 1) /\ j \in 1..(Len(s) + 1)
      BY <1>2, <1>3, <2>2
    <3>2. i \in 1..Len(s) /\ i \in DOMAIN s /\ history'[q].ran[i] = s[i]
      BY <1>2, <1>3, <3>1
    <3>3. CASE j = Len(s) + 1
      <4>1. history'[q].ran[j] = id
        BY <1>2, <1>3, <3>3
      <4>2. s[i] \in Ids /\ Ran(q, s[i])
        BY <1>2, <3>2 DEF Ran
      <4> QED
        BY <1>9, <2>2, <3>2, <4>1, <4>2
    <3>4. CASE j # Len(s) + 1
      <4>1. j \in DOMAIN s /\ history'[q].ran[j] = s[j]
        BY <1>2, <1>3, <3>1, <3>4
      <4> QED
        BY <2>2, <3>2, <4>1 DEF RunsInOrder
    <3> QED
      BY <3>3, <3>4
  <2> QED
    BY <2>1, <2>2
<1> QED
  BY <1>8, <1>10, <1>11, <1>12

-----------------------------------------------------------------------------
(* The steps of the client.                                                *)

LEMMA SameRouteQuiet ==
  ASSUME OrderInv, NEW r \in Ranks, NEW id \in Ids, routes'[r][id] = routes[r][id]
  PROVE  QuietRoute(r, id)
  BY DEF OrderInv, QueuedWhenCommitted, QuietRoute, QuietChange

LEMMA QuietClientKeepsOrder ==
  ASSUME LinkTypeOK, LinkTypeOK', OrderInv, UNCHANGED daemonVars,
         last_submission_id' = last_submission_id, \A r \in Ranks : QuietStream(r)
  PROVE  OrderInv'
  BY SameRouteQuiet, QuietStepKeepsOrder DEF daemonVars

LEMMA BroadcastStream ==
  ASSUME NEW kind, NEW id, NEW targets, to_rank' = Broadcast(kind, id, targets),
         NEW r \in Ranks
  PROVE  \/ to_rank'[r] = to_rank[r]
         \/ r \in targets /\ to_rank'[r] = Append(to_rank[r], Request(kind, id))
  BY DEF Broadcast

LEMMA EngineKeepsOrder ==
  ASSUME TypeOK, LinkTypeOK', OrderInv, EngineStep, UNCHANGED daemonVars
  PROVE  OrderInv'
<1>1. PICK id \in Ids, kind \in WorkKinds, lanes \in LaneSets,
           follows \in BOOLEAN, deadline \in Deadlines :
        Submit(id, kind, lanes, follows, deadline)
  BY DEF EngineStep
<1>2. PICK k \in {"CONTINUE", "PREPARE"} : to_rank' = Broadcast(k, id, Ranks)
  BY <1>1 DEF Submit
<1>3. Request(k, id) \in Requests /\ Request(k, id).id = id
  BY DEF Request, Requests
<1>4. id = last_submission_id + 1 /\ last_submission_id' = id
  BY <1>1 DEF Submit
<1> QED
  BY <1>2, <1>3, <1>4, BroadcastStream, SubmitKeepsOrder DEF TypeOK

LEMMA DecisionQuiet ==
  ASSUME NEW id \in Ids, NEW t, NEW kind \in {"COMMIT", "ABORT"}, NEW targets,
         Decide(id, t, kind, targets)
  PROVE  /\ \A r \in Ranks : QuietStream(r)
         /\ last_submission_id' = last_submission_id
<1>1. Request(kind, id) \in Requests /\ ~Opens(Request(kind, id))
  BY DEF Request, Requests, Opens
<1>2. to_rank' = Broadcast(kind, id, targets)
  BY DEF Decide
<1>3. \A r \in Ranks : QuietStream(r)
  BY <1>1, <1>2, BroadcastStream DEF QuietStream
<1>4. last_submission_id' = last_submission_id
  BY DEF Decide, Conclude
<1> QED
  BY <1>3, <1>4

LEMMA ClientStepQuiet ==
  ASSUME TypeOK, NEW q \in Ranks, ClientStep(q)
  PROVE  /\ \A r \in Ranks : QuietStream(r)
         /\ last_submission_id' = last_submission_id
<1> DEFINE Quiet == /\ \A r \in Ranks : QuietStream(r)
                    /\ last_submission_id' = last_submission_id
<1>1. UNCHANGED <<to_rank, last_submission_id>> => Quiet
  BY DEF QuietStream
<1>2. \A txs, told, st : FailPipeline(txs, told, st) =>
        UNCHANGED <<to_rank, last_submission_id>>
  BY DEF FailPipeline
<1>3. \A id, t : Conclude(id, t) => UNCHANGED last_submission_id
  BY DEF Conclude
<1>4. \A id, t, st : FailAfter(id, t, st) => UNCHANGED <<to_rank, last_submission_id>>
  BY <1>2 DEF FailAfter
<1>5. RejectStream => UNCHANGED <<to_rank, last_submission_id>>
  BY <1>2 DEF RejectStream
<1>6. CASE RankResult(q)
  <2>1. \/ UNCHANGED <<to_rank, last_submission_id>>
        \/ \E t : \/ Decide(Head(from_rank[q]).id, t, "COMMIT", t.prepared_mask)
                  \/ Decide(Head(from_rank[q]).id, t, "ABORT", t.prepared_mask)
    BY <1>2, <1>3, <1>5, <1>6, Zenon DEF RankResult
  <2>2. Head(from_rank[q]).id \in Ids
    <3>1. Head(from_rank[q]) \in Replies
      BY Zenon, <1>6, ReceivedType DEF RankResult, Receives, TypeOK
    <3> QED
      BY SMTT(60), <3>1 DEF Replies
  <2> QED
    BY <1>1, <2>1, <2>2, DecisionQuiet
<1>7. CASE RankDecisionResult(q)
  <2>1. UNCHANGED <<to_rank, last_submission_id>>
    BY <1>3, <1>4, <1>5, <1>7, Zenon DEF RankDecisionResult
  <2> QED
    BY <1>1, <2>1
<1>8. CASE RankCompletion(q)
  <2>1. UNCHANGED <<to_rank, last_submission_id>>
    BY <1>3, <1>5, <1>8, Zenon DEF RankCompletion
  <2> QED
    BY <1>1, <2>1
<1>9. CASE ConnectionLost(q)
  <2>1. UNCHANGED <<to_rank, last_submission_id>>
    BY <1>2, <1>9 DEF ConnectionLost, clientVars
  <2> QED
    BY <1>1, <2>1
<1> QED
  BY <1>6, <1>7, <1>8, <1>9 DEF ClientStep

-----------------------------------------------------------------------------
(* The steps of a daemon.                                                  *)

\* No rank opens or starts a route.
QuietRanks ==
  /\ \A r \in Ranks, id \in Ids : QuietRoute(r, id)
  /\ \A r \in Ranks : QuietStream(r) /\ history'[r].ran = history[r].ran

LEMMA SetRouteQuiet ==
  ASSUME DaemonTypeOK, OrderInv, NEW q \in Ranks, NEW id \in Ids, NEW route,
         QuietChange(routes[q][id], route), SetRoute(q, id, route)
  PROVE  \A r \in Ranks, i \in Ids : QuietRoute(r, i)
<1> SUFFICES ASSUME NEW r \in Ranks, NEW i \in Ids PROVE QuietRoute(r, i)
  OBVIOUS
<1>1. CASE r = q /\ i = id
  <2>1. routes'[q][id] = route
    BY DEF SetRoute, DaemonTypeOK
  <2> QED
    BY <1>1, <2>1 DEF QuietRoute
<1>2. CASE ~(r = q /\ i = id)
  <2>1. routes'[r][i] = routes[r][i]
    BY <1>2 DEF SetRoute, DaemonTypeOK
  <2> QED
    BY <2>1, SameRouteQuiet
<1> QED
  BY <1>1, <1>2

LEMMA EndingQuiet ==
  ASSUME NEW old
  PROVE  QuietChange(old, NoRoute)
  BY DEF QuietChange, NoRoute, MayRun

LEMMA FailRouteQuiet ==
  ASSUME DaemonTypeOK, OrderInv, NEW q \in Ranks, NEW id \in Ids, NEW cached,
         Active(q, id), FailRoute(q, id, cached)
  PROVE  \A r \in Ranks, i \in Ids : QuietRoute(r, i)
<1> DEFINE failed == [routes[q][id] EXCEPT !.state = "FAILED", !.failure = "ERROR",
                                           !.cached = cached]
<1>1. QuietChange(routes[q][id], failed)
  BY RouteAtType DEF QuietChange, MayRun, Active, Route
<1>2. SetRoute(q, id, failed)
  BY DEF FailRoute
<1> HIDE DEF failed
<1> QED
  BY <1>1, <1>2, SetRouteQuiet

LEMMA FinishRouteQuiet ==
  ASSUME DaemonTypeOK, OrderInv, NEW q \in Ranks, NEW id \in Ids, NEW st, NEW ran,
         FinishRoute(q, id, st, ran)
  PROVE  \A r \in Ranks, i \in Ids : QuietRoute(r, i)
  BY EndingQuiet, SetRouteQuiet DEF FinishRoute

LEMMA NotedQuiet ==
  ASSUME DaemonTypeOK, NEW q \in Ranks, NEW id \in Ids,
         NotePrepared(q, id) \/ NoteDone(q, id) \/ UNCHANGED history
  PROVE  \A r \in Ranks : history'[r].ran = history[r].ran
<1> SUFFICES ASSUME NEW r \in Ranks PROVE history'[r].ran = history[r].ran
  OBVIOUS
<1>1. history[r] \in History
  BY DEF DaemonTypeOK
<1>2. \/ history'[r] = history[r]
      \/ history'[r] = [history[r] EXCEPT !.prepared = @ \union {id}]
      \/ history'[r] = [history[r] EXCEPT !.done = @ \union {id}]
  BY Zenon DEF NotePrepared, NoteDone, DaemonTypeOK
<1> QED
  BY <1>1, <1>2 DEF History

LEMMA AbandonQuiet ==
  ASSUME DaemonTypeOK, OrderInv, NEW r \in Ranks, NEW id \in Ids
  PROVE  QuietChange(routes[r][id], Abandon(r, id))
<1>1. CASE Active(r, id)
  <2>1. routes[r][id] \in Route
    BY RouteAtType
  <2>2. /\ Abandon(r, id).state = routes[r][id].state
        /\ Abandon(r, id).queued = routes[r][id].queued
    BY <1>1, <2>1 DEF Abandon, Route
  <2> QED
    BY <2>2 DEF QuietChange, OrderInv, QueuedWhenCommitted
<1>2. CASE ~Active(r, id)
  BY <1>2, EndingQuiet DEF Abandon
<1> QED
  BY <1>1, <1>2

LEMMA FateQuiet ==
  ASSUME DaemonTypeOK, OrderInv, NEW r \in Ranks, NEW id \in Ids,
         InState(r, id, "RESERVED"), NEW fate \in {"IDLE", "RESERVED", "FAILED"}
  PROVE  QuietChange(routes[r][id], Fate(routes[r][id], fate))
<1>1. CASE fate = "IDLE"
  BY SMTT(60), <1>1, EndingQuiet DEF Fate
<1>2. CASE fate = "RESERVED"
  <2>1. /\ Fate(routes[r][id], fate).state = routes[r][id].state
        /\ Fate(routes[r][id], fate).queued = routes[r][id].queued
    BY <1>2, RouteAtType DEF Fate, Route
  <2> QED
    BY <2>1 DEF QuietChange, OrderInv, QueuedWhenCommitted
<1>3. CASE fate = "FAILED"
  <2>1. Fate(routes[r][id], fate).state = "FAILED"
    BY Zenon, <1>3, RouteAtType DEF Fate, Route
  <2> QED
    BY <2>1 DEF QuietChange, MayRun, InState
<1> QED
  BY <1>1, <1>2, <1>3

\* Rank q replaces its routes; the others keep theirs.
LEMMA ReplacedQuiet ==
  ASSUME DaemonTypeOK, OrderInv, NEW q \in Ranks, NEW replaced,
         routes' = [routes EXCEPT ![q] = replaced],
         \A id \in Ids : QuietChange(routes[q][id], replaced[id])
  PROVE  \A r \in Ranks, i \in Ids : QuietRoute(r, i)
<1> SUFFICES ASSUME NEW r \in Ranks, NEW i \in Ids PROVE QuietRoute(r, i)
  OBVIOUS
<1>1. CASE r = q
  BY <1>1 DEF QuietRoute, DaemonTypeOK
<1>2. CASE r # q
  BY <1>2, SameRouteQuiet DEF DaemonTypeOK
<1> QED
  BY <1>1, <1>2

LEMMA CloseEndQuiet ==
  ASSUME LinkTypeOK, NEW q \in Ranks, CloseEnd(q)
  PROVE  \A r \in Ranks : QuietStream(r)
  BY DEF CloseEnd, QuietStream, LinkTypeOK

LEMMA ConsumedQuiet ==
  ASSUME LinkTypeOK, NEW q \in Ranks, to_rank[q] # << >>, Consumed(q)
  PROVE  \A r \in Ranks : QuietStream(r)
<1>1. to_rank'[q] = Tail(to_rank[q]) /\ \A r \in Ranks : r # q => to_rank'[r] = to_rank[r]
  BY DEF Consumed, LinkTypeOK
<1> QED
  BY <1>1 DEF QuietStream

LEMMA CloseClientQuiet ==
  ASSUME LinkTypeOK, DaemonTypeOK, OrderInv, NEW q \in Ranks, CloseClient(q)
  PROVE  QuietRanks
<1>1. PICK fate \in [Reserved(q) -> AbortFates] :
        routes' = [routes EXCEPT ![q] = [id \in Ids |->
                     IF id \in Reserved(q) THEN Fate(routes[q][id], fate[id])
                                           ELSE Abandon(q, id)]]
  BY Zenon DEF CloseClient
<1> DEFINE replaced == [id \in Ids |->
                          IF id \in Reserved(q) THEN Fate(routes[q][id], fate[id])
                                                ELSE Abandon(q, id)]
<1>2. ASSUME NEW id \in Ids
      PROVE  QuietChange(routes[q][id], replaced[id])
  <2>1. CASE id \in Reserved(q)
    <3>1. InState(q, id, "RESERVED") /\ fate[id] \in {"IDLE", "RESERVED", "FAILED"}
      BY <2>1 DEF Reserved, AbortFates
    <3> QED
      BY <2>1, <3>1, FateQuiet
  <2>2. CASE id \notin Reserved(q)
    BY <2>2, AbandonQuiet
  <2> QED
    BY <2>1, <2>2
<1>3. routes' = [routes EXCEPT ![q] = replaced]
  BY <1>1
<1> HIDE DEF replaced
<1>4. \A r \in Ranks, i \in Ids : QuietRoute(r, i)
  BY Zenon, <1>2, <1>3, ReplacedQuiet
<1>5. \A r \in Ranks : QuietStream(r)
  BY CloseEndQuiet DEF CloseClient
<1>6. UNCHANGED history
  BY DEF CloseClient
<1> QED
  BY SMTT(60), <1>4, <1>5, <1>6 DEF QuietRanks

LEMMA ReadDecisionQuiet ==
  ASSUME LinkTypeOK, DaemonTypeOK, OrderInv, NEW q \in Ranks, ReadDecision(q)
  PROVE  QuietRanks
<1> DEFINE id == Head(to_rank[q]).id
           ready == [routes[q][id] EXCEPT !.state = ReadyState(q, id),
                                          !.queued = TRUE, !.cached = FALSE]
           failed == [routes[q][id] EXCEPT !.state = "FAILED", !.delivered = TRUE,
                                           !.failure = "ERROR"]
<1>1. id \in Ids /\ to_rank[q] # << >> /\ Consumed(q)
  BY ReadType DEF ReadDecision, Reads
<1>2. UNCHANGED history
  BY DEF ReadDecision
<1>3. \/ UNCHANGED routes
      \/ /\ InState(q, id, "RESERVED")
         /\ SetRoute(q, id, ready) \/ SetRoute(q, id, NoRoute) \/ SetRoute(q, id, failed)
  BY DEF ReadDecision
<1>4. ASSUME InState(q, id, "RESERVED")
      PROVE  QuietChange(routes[q][id], ready) /\ QuietChange(routes[q][id], failed)
  <2>1. /\ ready.state \in {"WAIT_INPUT", "READY_ADAPTER"} /\ ready.queued
        /\ failed.state = "FAILED"
    BY SMTT(60), <1>1, RouteAtType DEF Route, ReadyState
  <2> QED
    BY <1>4, <2>1 DEF QuietChange, MayRun, InState
<1> HIDE DEF id, ready, failed
<1>5. \A r \in Ranks, i \in Ids : QuietRoute(r, i)
  BY SMTT(60), <1>1, <1>3, <1>4, SetRouteQuiet, EndingQuiet, SameRouteQuiet
<1>6. \A r \in Ranks : QuietStream(r)
  BY SMTT(60), <1>1, ConsumedQuiet
<1> QED
  BY <1>2, <1>5, <1>6 DEF QuietRanks

LEMMA ReadPrepareKeepsOrder ==
  ASSUME TypeOK, LinkTypeOK', OrderInv, NEW q \in Ranks, ReadPrepare(q),
         UNCHANGED clientVars
  PROVE  OrderInv'
<1> DEFINE id == Head(to_rank[q]).id
           reserved == [NoRoute EXCEPT !.state = "RESERVED", !.answered = TRUE,
                                       !.cached = TRUE]
           failed == [NoRoute EXCEPT !.state = "FAILED", !.delivered = TRUE,
                                     !.cached = TRUE, !.failure = "BUSY"]
<1>0. LinkTypeOK /\ DaemonTypeOK /\ last_submission_id' = last_submission_id
  BY DEF TypeOK, clientVars
<1>1. /\ to_rank[q] # << >> /\ Opens(Head(to_rank[q])) /\ id \in Ids
      /\ Consumed(q)
  BY <1>0, ReadType DEF ReadPrepare, Reads, Opens
<1>2. \/ SetRoute(q, id, reserved) /\ NotePrepared(q, id)
      \/ UNCHANGED <<routes, history>>
      \/ SetRoute(q, id, failed) /\ UNCHANGED history
  BY DEF ReadPrepare
<1>3. \A r \in Ranks : history'[r].ran = history[r].ran
  BY <1>0, <1>1, <1>2, NotedQuiet
<1>4. /\ reserved.state = "RESERVED" /\ ~reserved.queued
      /\ failed.state = "FAILED" /\ ~failed.queued
  BY DEF NoRoute
<1> HIDE DEF reserved, failed
<1>5. ASSUME NEW route, ~route.queued, route.state \in {"RESERVED", "FAILED"},
             SetRoute(q, id, route)
      PROVE  OrderInv'
  BY Zenon, <1>0, <1>1, <1>3, <1>5, OpeningKeepsOrder DEF SetRoute, Consumed
<1>6. CASE UNCHANGED routes
  BY <1>0, <1>1, <1>3, <1>6, ConsumedQuiet, SameRouteQuiet, QuietStepKeepsOrder
<1> QED
  BY <1>2, <1>4, <1>5, <1>6

LEMMA ReadContinueKeepsOrder ==
  ASSUME TypeOK, LinkTypeOK', OrderInv, NEW q \in Ranks, ReadContinue(q),
         UNCHANGED clientVars
  PROVE  OrderInv'
<1> DEFINE id == Head(to_rank[q]).id
           preparing == [NoRoute EXCEPT !.state = "PREPARING"]
<1>0. LinkTypeOK /\ DaemonTypeOK /\ last_submission_id' = last_submission_id
  BY DEF TypeOK, clientVars
<1>1. to_rank[q] # << >> /\ Opens(Head(to_rank[q])) /\ id \in Ids
  BY <1>0, ReadType DEF ReadContinue, Reads, Opens
<1>2. \/ Consumed(q) /\ SetRoute(q, id, preparing) /\ UNCHANGED history
      \/ CloseClient(q)
  BY DEF ReadContinue
<1>3. preparing.state = "PREPARING" /\ ~preparing.queued
  BY DEF NoRoute
<1> HIDE DEF preparing
<1>4. CASE Consumed(q) /\ SetRoute(q, id, preparing) /\ UNCHANGED history
  BY Zenon, <1>0, <1>1, <1>3, <1>4, OpeningKeepsOrder DEF SetRoute, Consumed
<1>5. CASE CloseClient(q)
  BY <1>0, <1>5, CloseClientQuiet, QuietStepKeepsOrder DEF QuietRanks
<1> QED
  BY <1>2, <1>4, <1>5

LEMMA SameStreamsQuiet ==
  ASSUME UNCHANGED to_rank
  PROVE  \A r \in Ranks : QuietStream(r)
  BY DEF QuietStream

LEMMA PrepareContinuationQuiet ==
  ASSUME DaemonTypeOK, OrderInv, NEW q \in Ranks, NEW id \in Ids,
         PrepareContinuation(q, id)
  PROVE  QuietRanks
<1> DEFINE ready == [routes[q][id] EXCEPT !.state = ReadyState(q, id),
                                          !.queued = TRUE, !.answered = TRUE]
<1>1. InState(q, id, "PREPARING") /\ UNCHANGED to_rank
  BY DEF PrepareContinuation
<1>2. \/ SetRoute(q, id, ready) /\ NotePrepared(q, id)
      \/ FailRoute(q, id, FALSE) /\ UNCHANGED history
      \/ FailRoute(q, id, TRUE) /\ UNCHANGED history
  BY Zenon DEF PrepareContinuation
<1>3. QuietChange(routes[q][id], ready)
  <2>1. ready.state \in {"WAIT_INPUT", "READY_ADAPTER"} /\ ready.queued
    BY RouteAtType DEF Route, ReadyState
  <2> QED
    BY <1>1, <2>1 DEF QuietChange, MayRun, InState
<1> HIDE DEF ready
<1>4. \A r \in Ranks, i \in Ids : QuietRoute(r, i)
  BY Zenon, <1>1, <1>2, <1>3, SetRouteQuiet, FailRouteQuiet DEF Active, InState
<1> QED
  BY Zenon, <1>1, <1>2, <1>4, NotedQuiet, SameStreamsQuiet DEF QuietRanks

LEMMA InputArrivesQuiet ==
  ASSUME DaemonTypeOK, OrderInv, NEW q \in Ranks, NEW id \in Ids, InputArrives(q, id)
  PROVE  QuietRanks
<1> DEFINE ready == [routes[q][id] EXCEPT !.state = "READY_ADAPTER"]
<1>1. InState(q, id, "WAIT_INPUT") /\ UNCHANGED <<to_rank, history>>
  BY DEF InputArrives
<1>2. SetRoute(q, id, ready) \/ SetRoute(q, id, NoRoute)
  BY DEF InputArrives
<1>3. QuietChange(routes[q][id], ready)
  <2>1. ready.state = "READY_ADAPTER" /\ ready.queued = routes[q][id].queued
    BY RouteAtType DEF Route
  <2> QED
    BY <1>1, <2>1 DEF QuietChange, MayRun, InState, OrderInv, QueuedWhenCommitted
<1> HIDE DEF ready
<1>4. \A r \in Ranks, i \in Ids : QuietRoute(r, i)
  BY SMTT(60), <1>2, <1>3, SetRouteQuiet, EndingQuiet
<1> QED
  BY <1>1, <1>4, SameStreamsQuiet DEF QuietRanks

\* A route past its start changes to a state from which it cannot start.
LEMMA PastStartQuiet ==
  ASSUME DaemonTypeOK, OrderInv, NEW q \in Ranks, NEW id \in Ids, Active(q, id),
         NEW route, route.state \notin MayRun, SetRoute(q, id, route)
  PROVE  \A r \in Ranks, i \in Ids : QuietRoute(r, i)
<1>1. QuietChange(routes[q][id], route)
  BY DEF QuietChange, MayRun, Active
<1> QED
  BY SMTT(60), <1>1, SetRouteQuiet

LEMMA CompletionQuiet ==
  ASSUME DaemonTypeOK, OrderInv, NEW q \in Ranks, NEW id \in Ids, Completion(q, id)
  PROVE  QuietRanks
<1> DEFINE output == [routes[q][id] EXCEPT !.state = "WAIT_OUTPUT"]
<1>1. Active(q, id) /\ UNCHANGED to_rank
  BY DEF Completion, InState, Active
<1>2. \/ SetRoute(q, id, output) /\ UNCHANGED history
      \/ FinishRoute(q, id, "OK", "OK") /\ NoteDone(q, id)
      \/ FinishRoute(q, id, "ERROR", "ERROR") /\ UNCHANGED history
      \/ FailRoute(q, id, FALSE) /\ UNCHANGED history
  BY Zenon DEF Completion
<1>3. output.state \notin MayRun
  BY RouteAtType DEF Route, MayRun
<1> HIDE DEF output
<1>4. \A r \in Ranks, i \in Ids : QuietRoute(r, i)
  BY Zenon, <1>1, <1>2, <1>3, PastStartQuiet, FinishRouteQuiet, FailRouteQuiet
<1> QED
  BY Zenon, <1>1, <1>2, <1>4, NotedQuiet, SameStreamsQuiet DEF QuietRanks

LEMMA OutputSentQuiet ==
  ASSUME DaemonTypeOK, OrderInv, NEW q \in Ranks, NEW id \in Ids, OutputSent(q, id)
  PROVE  QuietRanks
<1>1. /\ UNCHANGED to_rank
      /\ \/ FinishRoute(q, id, "OK", "OK") /\ NoteDone(q, id)
         \/ FinishRoute(q, id, "IO_ERROR", "OK") /\ UNCHANGED history
  BY DEF OutputSent
<1> QED
  BY <1>1, FinishRouteQuiet, NotedQuiet, SameStreamsQuiet DEF QuietRanks

LEMMA ExpireTransportRouteQuiet ==
  ASSUME DaemonTypeOK, OrderInv, NEW q \in Ranks, NEW id \in Ids,
         ExpireTransportRoute(q, id)
  PROVE  QuietRanks
<1> DEFINE cancelled == [routes[q][id] EXCEPT
                           !.state = IF InState(q, id, "WAIT_INPUT")
                                     THEN "CANCEL_INPUT" ELSE "CANCEL_OUTPUT",
                           !.delivered = TRUE]
<1>1. /\ Active(q, id) /\ UNCHANGED <<to_rank, history>>
      /\ SetRoute(q, id, cancelled)
  BY DEF ExpireTransportRoute, InState, Active
<1>2. cancelled.state \notin MayRun
  BY RouteAtType DEF Route, MayRun
<1> HIDE DEF cancelled
<1> QED
  BY <1>1, <1>2, PastStartQuiet, SameStreamsQuiet DEF QuietRanks

LEMMA TransportCancelledQuiet ==
  ASSUME DaemonTypeOK, OrderInv, NEW q \in Ranks, NEW id \in Ids,
         TransportCancelled(q, id)
  PROVE  QuietRanks
<1> DEFINE failed == [routes[q][id] EXCEPT !.state = "FAILED", !.failure = "IO_ERROR"]
<1>1. /\ Active(q, id) /\ UNCHANGED <<to_rank, history>>
      /\ SetRoute(q, id, failed) \/ SetRoute(q, id, NoRoute)
  BY DEF TransportCancelled, InState, Active, linkVars
<1>2. failed.state \notin MayRun /\ NoRoute.state \notin MayRun
  BY RouteAtType DEF Route, MayRun, NoRoute
<1> HIDE DEF failed
<1> QED
  BY SMTT(60), <1>1, <1>2, PastStartQuiet, SameStreamsQuiet DEF QuietRanks

LEMMA FinalizeFailedRouteQuiet ==
  ASSUME LinkTypeOK, DaemonTypeOK, OrderInv, NEW q \in Ranks, NEW id \in Ids,
         FinalizeFailedRoute(q, id)
  PROVE  QuietRanks
<1> DEFINE replaced == [i \in Ids |-> IF i = id THEN NoRoute ELSE Abandon(q, i)]
<1>1. UNCHANGED history
  BY SMTT(60) DEF FinalizeFailedRoute
<1>2. \/ SetRoute(q, id, NoRoute) /\ UNCHANGED to_rank
      \/ CloseEnd(q) /\ routes' = [routes EXCEPT ![q] = replaced]
  BY DEF FinalizeFailedRoute
<1>3. \A i \in Ids : QuietChange(routes[q][i], replaced[i])
  BY EndingQuiet, AbandonQuiet
<1> HIDE DEF replaced
<1>4. \A r \in Ranks, i \in Ids : QuietRoute(r, i)
  BY SMTT(60), <1>2, <1>3, SetRouteQuiet, EndingQuiet, ReplacedQuiet
<1>5. \A r \in Ranks : QuietStream(r)
  BY SMTT(60), <1>2, SameStreamsQuiet, CloseEndQuiet
<1> QED
  BY SMTT(60), <1>1, <1>4, <1>5 DEF QuietRanks

LEMMA AbortPreparedQuiet ==
  ASSUME DaemonTypeOK, OrderInv, NEW q \in Ranks, NEW id \in Ids, AbortPrepared(q, id)
  PROVE  QuietRanks
<1>1. /\ InState(q, id, "RESERVED") /\ UNCHANGED <<to_rank, history>>
      /\ SetRoute(q, id, NoRoute) \/ SetRoute(q, id, Fate(routes[q][id], "FAILED"))
  BY DEF AbortPrepared, linkVars
<1> QED
  BY SMTT(60), <1>1, FateQuiet, EndingQuiet, SetRouteQuiet, SameStreamsQuiet DEF QuietRanks

LEMMA RankRestartQuiet ==
  ASSUME LinkTypeOK, DaemonTypeOK, OrderInv, NEW q \in Ranks, RankRestart(q)
  PROVE  QuietRanks
<1> DEFINE replaced == [i \in Ids |-> NoRoute]
<1>1. routes' = [routes EXCEPT ![q] = replaced]
  BY DEF RankRestart
<1>2. \A i \in Ids : QuietChange(routes[q][i], replaced[i])
  BY EndingQuiet
<1> HIDE DEF replaced
<1>3. \A r \in Ranks, i \in Ids : QuietRoute(r, i)
  BY Zenon, <1>1, <1>2, ReplacedQuiet
<1> QED
  BY <1>3, CloseEndQuiet DEF RankRestart, QuietRanks

LEMMA QuietDaemonKeepsOrder ==
  ASSUME LinkTypeOK, LinkTypeOK', OrderInv, QuietRanks, UNCHANGED clientVars
  PROVE  OrderInv'
  BY QuietStepKeepsOrder DEF QuietRanks, clientVars

LEMMA SubmitAdapterKeepsOrder ==
  ASSUME TypeOK, LinkTypeOK', OrderInv, NEW q \in Ranks, NEW id \in Ids,
         SubmitAdapter(q, id), UNCHANGED clientVars
  PROVE  OrderInv'
<1> DEFINE running == [routes[q][id] EXCEPT !.state = "WAIT_ADAPTER",
                                            !.queued = FALSE]
<1>0. LinkTypeOK /\ DaemonTypeOK /\ UNCHANGED <<to_rank, last_submission_id>>
  BY DEF TypeOK, SubmitAdapter, clientVars
<1>1. running.state = "WAIT_ADAPTER"
  BY <1>0, RouteAtType DEF Route
<1>2. \/ SetRoute(q, id, running) /\ history' = [history EXCEPT ![q].ran = Append(@, id)]
      \/ FinishRoute(q, id, "ERROR", "ERROR") /\ UNCHANGED history
  BY DEF SubmitAdapter
<1> HIDE DEF running
<1>3. CASE SetRoute(q, id, running) /\ history' = [history EXCEPT ![q].ran = Append(@, id)]
  BY ZenonT(60), <1>0, <1>1, <1>3, StartKeepsOrder DEF SubmitAdapter
<1>4. CASE FinishRoute(q, id, "ERROR", "ERROR") /\ UNCHANGED history
  <2>1. QuietRanks
    BY <1>0, <1>4, FinishRouteQuiet, SameStreamsQuiet DEF QuietRanks
  <2> QED
    BY <1>0, <2>1, QuietDaemonKeepsOrder
<1> QED
  BY <1>2, <1>3, <1>4

-----------------------------------------------------------------------------
LEMMA InitOrder == Init => OrderInv
<1> SUFFICES ASSUME Init PROVE OrderInv
  BY SMTT(60)
<1>1. \A r \in Ranks : /\ to_rank[r] = << >> /\ history[r].ran = << >>
                       /\ \A id \in Ids : routes[r][id].state = "IDLE"
  BY DEF Init, LinkInit, DaemonInit, NoRoute
<1>2. \A r \in Ranks, id \in Ids : ~Known(r, id)
  BY <1>1 DEF Known, Active, Ran
<1> QED
  BY <1>1, <1>2 DEF OrderInv, Numbered, StreamOrdered, RoutesOrdered,
                    QueuedWhenCommitted, RunsInOrder, MayRun

LEMMA NextOrder == TypeOK /\ OrderInv /\ [Next]_vars => OrderInv'
<1> SUFFICES ASSUME TypeOK, OrderInv, [Next]_vars PROVE OrderInv'
  OBVIOUS
<1>0. LinkTypeOK /\ DaemonTypeOK /\ LinkTypeOK'
  BY NextType DEF TypeOK
<1>1. CASE EngineStep /\ UNCHANGED <<daemonVars, breaks>>
  BY <1>0, <1>1, EngineKeepsOrder
<1>2. ASSUME NEW r \in Ranks, ClientStep(r), UNCHANGED <<daemonVars, breaks>>
      PROVE  OrderInv'
  BY <1>0, <1>2, ClientStepQuiet, QuietClientKeepsOrder
<1>3. ASSUME NEW r \in Ranks, MessageStep(r), UNCHANGED <<clientVars, breaks>>
      PROVE  OrderInv'
  <2>1. CASE ReadPrepare(r)
    BY SMTT(60), <1>0, <1>3, <2>1, ReadPrepareKeepsOrder
  <2>2. CASE ReadContinue(r)
    BY SMTT(60), <1>0, <1>3, <2>2, ReadContinueKeepsOrder
  <2>3. CASE ReadDecision(r) \/ DaemonEof(r)
    BY SMTT(60), <1>0, <1>3, <2>3, ReadDecisionQuiet, CloseClientQuiet, QuietDaemonKeepsOrder
       DEF DaemonEof
  <2> QED
    BY SMTT(60), <1>3, <2>1, <2>2, <2>3 DEF MessageStep
<1>4. ASSUME NEW r \in Ranks, NEW id \in Ids, RouteStep(r, id),
             UNCHANGED <<clientVars, breaks>>
      PROVE  OrderInv'
  <2>1. CASE SubmitAdapter(r, id)
    BY SMTT(60), <1>0, <1>4, <2>1, SubmitAdapterKeepsOrder
  <2>2. CASE ~SubmitAdapter(r, id)
    <3>1. QuietRanks
      BY SMTT(60), <1>0, <1>4, <2>2, PrepareContinuationQuiet, InputArrivesQuiet,
         CompletionQuiet, OutputSentQuiet, ExpireTransportRouteQuiet,
         TransportCancelledQuiet, FinalizeFailedRouteQuiet, AbortPreparedQuiet
         DEF RouteStep
    <3> QED
      BY SMTT(60), <1>0, <1>4, <3>1, QuietDaemonKeepsOrder
  <2> QED
    BY <2>1, <2>2
<1>5. ASSUME NEW q \in Ranks, Reconnect(q)
      PROVE  OrderInv'
  <2>1. \A r \in Ranks : QuietStream(r)
    BY SMTT(60), <1>0, <1>5 DEF Reconnect, QuietStream, LinkTypeOK
  <2>2. UNCHANGED <<routes, history, last_submission_id>>
    BY SMTT(60), <1>5 DEF Reconnect, Reconnected, ClientAdopted
  <2> QED
    BY SMTT(60), <1>0, <2>1, <2>2, SameRouteQuiet, QuietStepKeepsOrder
<1>6. ASSUME NEW q \in Ranks, Drop(q)
      PROVE  OrderInv'
  BY SMTT(60), <1>0, <1>6, SameStreamsQuiet, QuietClientKeepsOrder DEF Drop, clientVars
<1>7. ASSUME NEW q \in Ranks, Restart(q)
      PROVE  OrderInv'
  BY SMTT(60), <1>0, <1>7, RankRestartQuiet, QuietDaemonKeepsOrder DEF Restart
<1>8. CASE UNCHANGED vars
  BY SMTT(60), <1>0, <1>8, SameStreamsQuiet, QuietClientKeepsOrder DEF vars, linkVars, clientVars
<1> QED
  BY SMTT(60), <1>1, <1>2, <1>3, <1>4, <1>5, <1>6, <1>7, <1>8 DEF Next

LEMMA OrderInvariant == Spec => [](TypeOK /\ OrderInv)
<1> QED
  BY InitType, NextType, InitOrder, NextOrder, PTL DEF Spec

\* In every pipeline, of any number of ranks and with any faults, every rank
\* hands work to its adapter in the order of submission: the sorted committed
\* FIFO and EarlierRouteUncommitted are enough, across lost connections,
\* restarts and continuations that overtake votes.
THEOREM RanksRunInOrder == Spec => []RunsInOrder
<1>1. OrderInv => RunsInOrder
  BY DEF OrderInv
<1> QED
  BY <1>1, OrderInvariant, PTL
=============================================================================
