---------------------- MODULE PipelineAgreementProofs ----------------------
(***************************************************************************)
(* Nothing runs that was not voted for, and nothing is reported successful *)
(* that did not succeed on every rank.  What ranks have promised and done  *)
(* only grows, so it is enough that every new message, route, transaction  *)
(* or report is sound when it is made.                                     *)
(***************************************************************************)
EXTENDS PipelineClientProofs

-----------------------------------------------------------------------------
(* The steps of a daemon.                                                  *)

Grown ==
  \A r \in Ranks : /\ history[r].prepared \subseteq history'[r].prepared
                   /\ history[r].done \subseteq history'[r].done

RequestsKept == \A r \in Ranks : Elements(to_rank'[r]) \subseteq Elements(to_rank[r])

RepliesGrow ==
  \A r \in Ranks : \A m \in Elements(from_rank'[r]) :
    \/ m \in Elements(from_rank[r])
    \/ m.status = "OK" => /\ m.kind = "RESULT" => m.id \in history'[r].prepared
                          /\ m.kind = "COMPLETION" => m.id \in history'[r].done

RoutesStaySound == \A r \in Ranks, id \in Ids : RouteSound(id, routes'[r][id])

RunsStayCleared ==
  \A r \in Ranks, id \in Ids : Ran(r, id)' => id \in Voted \union Continuations

LEMMA DaemonStepAgrees ==
  ASSUME ClientTypeOK, AgreementInv, UNCHANGED clientVars, UNCHANGED work,
         Grown, RequestsKept, RepliesGrow, RoutesStaySound, RunsStayCleared
  PROVE  AgreementInv'
<1>1. Voted \subseteq Voted' /\ Continuations' = Continuations
  BY DEF Voted, Continuations, Continued, Grown
<1>2. RequestsSound'
  BY <1>1 DEF AgreementInv, RequestsSound, RequestsKept
<1>3. RepliesSound'
  BY DEF AgreementInv, RepliesSound, RepliesGrow, Grown
<1>4. RoutesSound'
  BY <1>1 DEF RoutesSound, RoutesStaySound, RouteSound
<1>5. TransactionsSound'
  <2> SUFFICES ASSUME NEW id \in Ids PROVE TransactionSound(id, transactions[id])'
    BY DEF TransactionsSound
  <2>1. TransactionSound(id, transactions[id])
    BY DEF AgreementInv, TransactionsSound
  <2>2. transactions' = transactions
    BY DEF clientVars
  <2>3. /\ transactions[id].prepared_mask \subseteq Ranks
        /\ transactions[id].completion_mask \subseteq Ranks
    <3>1. transactions[id] \in Transaction
      BY DEF ClientTypeOK
    <3> QED
      BY <3>1 DEF Transaction
  <2> QED
    BY <2>1, <2>2, <2>3 DEF TransactionSound, Grown
<1>6. AbortsFailed'
  BY DEF AgreementInv, AbortsFailed, clientVars
<1>7. RunsCleared'
  BY <1>1 DEF RunsCleared, RunsStayCleared
<1>8. SuccessIsTotal'
  BY DEF AgreementInv, SuccessIsTotal, clientVars, Grown
<1> QED
  BY SMTT(60), <1>2, <1>3, <1>4, <1>5, <1>6, <1>7, <1>8 DEF AgreementInv

\* The pieces of a step.
LEMMA HistoryGrows ==
  ASSUME DaemonTypeOK, AgreementInv, NEW q \in Ranks, NEW id \in Ids,
         NotePrepared(q, id) \/ NoteDone(q, id) \/ UNCHANGED history
  PROVE  /\ Grown /\ RunsStayCleared
         /\ NotePrepared(q, id) => id \in history'[q].prepared
         /\ NoteDone(q, id) => id \in history'[q].done
<1>1. ASSUME NEW r \in Ranks
      PROVE  /\ history[r].prepared \subseteq history'[r].prepared
             /\ history[r].done \subseteq history'[r].done
  <2>1. history[r] \in History
    BY DEF DaemonTypeOK
  <2>2. \/ history'[r] = history[r]
        \/ history'[r] = [history[r] EXCEPT !.prepared = @ \union {id}]
        \/ history'[r] = [history[r] EXCEPT !.done = @ \union {id}]
    BY Zenon DEF NotePrepared, NoteDone, DaemonTypeOK
  <2> QED
    BY <2>1, <2>2 DEF History
<1>2. RunsStayCleared
  BY NotedQuiet, RanUnchanged DEF AgreementInv, RunsCleared, RunsStayCleared
<1>3. history[q] \in History
  BY DEF DaemonTypeOK
<1>4. ASSUME NotePrepared(q, id) PROVE id \in history'[q].prepared
  <2>1. history'[q] = [history[q] EXCEPT !.prepared = @ \union {id}]
    BY <1>4 DEF NotePrepared, DaemonTypeOK
  <2> QED
    BY <1>3, <2>1 DEF History
<1>5. ASSUME NoteDone(q, id) PROVE id \in history'[q].done
  <2>1. history'[q] = [history[q] EXCEPT !.done = @ \union {id}]
    BY <1>5 DEF NoteDone, DaemonTypeOK
  <2> QED
    BY <1>3, <2>1 DEF History
<1> QED
  BY SMTT(60), <1>1, <1>2, <1>4, <1>5 DEF Grown

LEMMA SendSound ==
  ASSUME LinkTypeOK, NEW q \in Ranks,
         NEW kind \in {"RESULT", "COMMIT", "ABORT", "COMPLETION"},
         NEW id \in Ids, NEW st \in Statuses, Send(q, kind, id, st),
         st = "OK" => /\ kind = "RESULT" => id \in history'[q].prepared
                      /\ kind = "COMPLETION" => id \in history'[q].done
  PROVE  RepliesGrow
<1> DEFINE m == Reply(kind, id, st)
<1>1. m \in Replies /\ m.kind = kind /\ m.id = id /\ m.status = st
  BY ReplyType DEF Reply
<1>2. from_rank' = from_rank \/ from_rank' = [from_rank EXCEPT ![q] = Append(@, m)]
  BY DEF Send
<1> HIDE DEF m
<1>3. ASSUME NEW r \in Ranks, NEW x \in Elements(from_rank'[r]),
             x \notin Elements(from_rank[r])
      PROVE  r = q /\ x = m
  <2>1. r = q /\ from_rank'[q] = Append(from_rank[q], m)
    BY SMTT(60), <1>2, <1>3 DEF LinkTypeOK
  <2>2. from_rank[q] \in Seq(Replies)
    BY DEF LinkTypeOK
  <2>3. Elements(from_rank'[q]) \subseteq Elements(from_rank[q]) \union {m}
    BY <1>1, <2>1, <2>2, ElementsAppend
  <2> QED
    BY SMTT(60), <1>3, <2>1, <2>3
<1> QED
  BY <1>1, <1>3 DEF RepliesGrow

LEMMA SameRepliesGrow == UNCHANGED from_rank => RepliesGrow
  BY DEF RepliesGrow

LEMMA SendUnlessSound ==
  ASSUME LinkTypeOK, NEW quiet, NEW q \in Ranks,
         NEW kind \in {"RESULT", "COMMIT", "ABORT", "COMPLETION"},
         NEW id \in Ids, NEW st \in Statuses, SendUnless(quiet, q, kind, id, st),
         st = "OK" => /\ kind = "RESULT" => id \in history'[q].prepared
                      /\ kind = "COMPLETION" => id \in history'[q].done
  PROVE  RepliesGrow
<1>1. CASE quiet
  BY SMTT(60), <1>1, SameRepliesGrow DEF SendUnless
<1>2. CASE ~quiet
  <2>1. Send(q, kind, id, st)
    BY <1>2 DEF SendUnless
  <2> QED
    BY SMTT(60), <2>1, SendSound
<1> QED
  BY <1>1, <1>2

LEMMA RequestsKeptBy ==
  ASSUME LinkTypeOK, NEW q \in Ranks,
         \/ UNCHANGED to_rank
         \/ CloseEnd(q)
         \/ to_rank[q] # << >> /\ Consumed(q)
  PROVE  RequestsKept
<1>1. CASE UNCHANGED to_rank
  BY <1>1 DEF RequestsKept
<1>2. CASE CloseEnd(q)
  <2>1. \A r \in Ranks : to_rank'[r] \in {<< >>, to_rank[r]}
    BY <1>2 DEF CloseEnd, LinkTypeOK
  <2> QED
    BY <2>1, ElementsEmpty DEF RequestsKept
<1>3. CASE to_rank[q] # << >> /\ Consumed(q)
  <2>1. to_rank[q] \in Seq(Requests)
    BY DEF LinkTypeOK
  <2>2. Elements(Tail(to_rank[q])) \subseteq Elements(to_rank[q])
    BY SMTT(60), <1>3, <2>1, ElementsTail
  <2>3. \A r \in Ranks : to_rank'[r] = IF r = q THEN Tail(to_rank[q]) ELSE to_rank[r]
    BY SMTT(60), <1>3 DEF Consumed, LinkTypeOK
  <2> QED
    BY SMTT(60), <2>2, <2>3 DEF RequestsKept
<1> QED
  BY SMTT(60), <1>1, <1>2, <1>3

LEMMA SetRouteSound ==
  ASSUME DaemonTypeOK, AgreementInv, NEW q \in Ranks, NEW id \in Ids, NEW route,
         RouteSound(id, route), SetRoute(q, id, route)
  PROVE  RoutesStaySound
<1>1. /\ routes'[q][id] = route
      /\ \A r \in Ranks, i \in Ids : ~(r = q /\ i = id) => routes'[r][i] = routes[r][i]
  BY DEF SetRoute, DaemonTypeOK
<1> QED
  BY SMTT(60), <1>1 DEF AgreementInv, RoutesSound, RoutesStaySound

LEMMA ReplacedSound ==
  ASSUME DaemonTypeOK, AgreementInv, NEW q \in Ranks, NEW replaced,
         routes' = [routes EXCEPT ![q] = replaced],
         \A id \in Ids : RouteSound(id, replaced[id])
  PROVE  RoutesStaySound
<1>1. /\ routes'[q] = replaced
      /\ \A r \in Ranks : r # q => routes'[r] = routes[r]
  BY DEF DaemonTypeOK
<1> QED
  BY SMTT(60), <1>1 DEF AgreementInv, RoutesSound, RoutesStaySound

LEMMA SameRoutesSound ==
  ASSUME AgreementInv, UNCHANGED routes
  PROVE  RoutesStaySound
  BY DEF AgreementInv, RoutesSound, RoutesStaySound

LEMMA NoRouteSound ==
  ASSUME NEW id
  PROVE  RouteSound(id, NoRoute)
  BY DEF RouteSound, NoRoute

-----------------------------------------------------------------------------
\* What a step of a daemon owes.
DaemonSound == Grown /\ RequestsKept /\ RepliesGrow /\ RoutesStaySound /\ RunsStayCleared

LEMMA UnchangedHistoryGrows ==
  ASSUME AgreementInv, UNCHANGED history
  PROVE  Grown /\ RunsStayCleared
  BY RanUnchanged DEF AgreementInv, RunsCleared, RunsStayCleared, Grown

LEMMA CurrentRouteSound ==
  ASSUME AgreementInv, NEW r \in Ranks, NEW id \in Ids
  PROVE  RouteSound(id, routes[r][id])
  BY DEF AgreementInv, RoutesSound

LEMMA AbandonSound ==
  ASSUME DaemonTypeOK, AgreementInv, NEW r \in Ranks, NEW id \in Ids
  PROVE  RouteSound(id, Abandon(r, id))
<1>1. CASE Active(r, id)
  <2>1. /\ Abandon(r, id).state = routes[r][id].state
        /\ Abandon(r, id).failure = routes[r][id].failure
    BY SMTT(60), <1>1, RouteAtType DEF Abandon, Route
  <2> QED
    BY SMTT(60), <2>1, CurrentRouteSound DEF RouteSound
<1>2. CASE ~Active(r, id)
  BY SMTT(60), <1>2, NoRouteSound DEF Abandon
<1> QED
  BY SMTT(60), <1>1, <1>2

LEMMA FateSound ==
  ASSUME DaemonTypeOK, NEW r \in Ranks, NEW id \in Ids, InState(r, id, "RESERVED"),
         NEW fate \in {"IDLE", "RESERVED", "FAILED"}
  PROVE  RouteSound(id, Fate(routes[r][id], fate))
<1>1. CASE fate = "IDLE"
  BY SMTT(60), <1>1, NoRouteSound DEF Fate
<1>2. CASE fate = "RESERVED"
  <2>1. Fate(routes[r][id], fate).state = "RESERVED"
    BY <1>2, RouteAtType DEF Fate, Route, InState
  <2> QED
    BY SMTT(60), <2>1 DEF RouteSound
<1>3. CASE fate = "FAILED"
  <2>1. /\ Fate(routes[r][id], fate).state = "FAILED"
        /\ Fate(routes[r][id], fate).failure = "ERROR"
    BY ZenonT(60), <1>3, RouteAtType DEF Fate, Route
  <2> QED
    BY <2>1 DEF RouteSound
<1> QED
  BY SMTT(60), <1>1, <1>2, <1>3

LEMMA FailRouteSound ==
  ASSUME DaemonTypeOK, AgreementInv, NEW q \in Ranks, NEW id \in Ids, NEW cached,
         FailRoute(q, id, cached)
  PROVE  RoutesStaySound
<1> DEFINE failed == [routes[q][id] EXCEPT !.state = "FAILED", !.failure = "ERROR",
                                           !.cached = cached]
<1>1. failed.state = "FAILED" /\ failed.failure = "ERROR"
  BY RouteAtType DEF Route
<1>2. SetRoute(q, id, failed)
  BY DEF FailRoute
<1> HIDE DEF failed
<1>3. RouteSound(id, failed)
  BY SMTT(60), <1>1 DEF RouteSound
<1> QED
  BY <1>2, <1>3, SetRouteSound

LEMMA FinishRouteSound ==
  ASSUME LinkTypeOK, DaemonTypeOK, AgreementInv, NEW q \in Ranks, NEW id \in Ids,
         NEW st \in Statuses, NEW ran, FinishRoute(q, id, st, ran),
         st = "OK" => id \in history'[q].done
  PROVE  RoutesStaySound /\ RepliesGrow
<1>1. RoutesStaySound
  BY SMTT(60), NoRouteSound, SetRouteSound DEF FinishRoute
<1>2. SendUnless(routes[q][id].abandoned, q, "COMPLETION", id, st)
  BY DEF FinishRoute
<1>3. RepliesGrow
  BY SMTT(60), <1>2, SendUnlessSound
<1> QED
  BY SMTT(60), <1>1, <1>3

LEMMA CloseClientSound ==
  ASSUME LinkTypeOK, DaemonTypeOK, AgreementInv, NEW q \in Ranks, CloseClient(q)
  PROVE  DaemonSound /\ UNCHANGED work
<1>1. PICK fate \in [Reserved(q) -> AbortFates] :
        routes' = [routes EXCEPT ![q] = [id \in Ids |->
                     IF id \in Reserved(q) THEN Fate(routes[q][id], fate[id])
                                           ELSE Abandon(q, id)]]
  BY ZenonT(60) DEF CloseClient
<1> DEFINE replaced == [id \in Ids |->
                          IF id \in Reserved(q) THEN Fate(routes[q][id], fate[id])
                                                ELSE Abandon(q, id)]
<1>2. ASSUME NEW id \in Ids
      PROVE  RouteSound(id, replaced[id])
  <2>1. CASE id \in Reserved(q)
    <3>1. InState(q, id, "RESERVED") /\ fate[id] \in {"IDLE", "RESERVED", "FAILED"}
      BY <2>1 DEF Reserved, AbortFates
    <3> QED
      BY <2>1, <3>1, FateSound
  <2>2. CASE id \notin Reserved(q)
    BY SMTT(60), <2>2, AbandonSound
  <2> QED
    BY <2>1, <2>2
<1>3. routes' = [routes EXCEPT ![q] = replaced]
  BY <1>1
<1> HIDE DEF replaced
<1>4. RoutesStaySound
  BY ZenonT(60), <1>2, <1>3, ReplacedSound
<1>5. UNCHANGED <<from_rank, history, work>> /\ CloseEnd(q)
  BY DEF CloseClient
<1>6. Grown /\ RunsStayCleared
  BY <1>5, UnchangedHistoryGrows
<1> QED
  BY SMTT(60), <1>4, <1>5, <1>6, RequestsKeptBy, SameRepliesGrow DEF DaemonSound

LEMMA ReadPrepareSound ==
  ASSUME LinkTypeOK, DaemonTypeOK, AgreementInv, NEW q \in Ranks, ReadPrepare(q)
  PROVE  DaemonSound /\ UNCHANGED work
<1> DEFINE id == Head(to_rank[q]).id
           reserved == [NoRoute EXCEPT !.state = "RESERVED", !.answered = TRUE,
                                       !.cached = TRUE]
           failed == [NoRoute EXCEPT !.state = "FAILED", !.delivered = TRUE,
                                     !.cached = TRUE, !.failure = "BUSY"]
<1>1. to_rank[q] # << >> /\ id \in Ids /\ Consumed(q) /\ UNCHANGED work
  BY SMTT(60), ReadType DEF ReadPrepare, Reads
<1>2. \/ /\ SetRoute(q, id, reserved)
         /\ Send(q, "RESULT", id, "OK")
         /\ NotePrepared(q, id)
      \/ /\ \E st \in {"BUSY", "ERROR"} : Send(q, "RESULT", id, st)
         /\ UNCHANGED <<routes, history>>
      \/ /\ SetRoute(q, id, failed)
         /\ Send(q, "RESULT", id, "BUSY")
         /\ UNCHANGED history
  BY DEF ReadPrepare
<1>3. RouteSound(id, reserved) /\ RouteSound(id, failed)
  BY SMTT(60) DEF RouteSound, NoRoute
<1> HIDE DEF id, reserved, failed
<1>4. Grown /\ RunsStayCleared /\ (NotePrepared(q, id) => id \in history'[q].prepared)
  BY SMTT(60), <1>1, <1>2, HistoryGrows
<1>5. RepliesGrow
  BY SMTT(60), <1>1, <1>2, <1>4, SendSound DEF Statuses
<1>6. RoutesStaySound
  BY SMTT(60), <1>1, <1>2, <1>3, SetRouteSound, SameRoutesSound
<1> QED
  BY <1>1, <1>4, <1>5, <1>6, RequestsKeptBy DEF DaemonSound

LEMMA RequestSound ==
  ASSUME LinkTypeOK, AgreementInv, NEW q \in Ranks, to_rank[q] # << >>
  PROVE  LET m == Head(to_rank[q])
         IN  /\ m.kind = "COMMIT" => m.id \in Voted
             /\ m.kind = "CONTINUE" => m.id \in Continuations
<1>1. to_rank[q] \in Seq(Requests)
  BY DEF LinkTypeOK
<1>2. Head(to_rank[q]) \in Elements(to_rank[q])
  BY <1>1, ElementsTail
<1> QED
  BY <1>2 DEF AgreementInv, RequestsSound

LEMMA ReadContinueSound ==
  ASSUME LinkTypeOK, DaemonTypeOK, AgreementInv, NEW q \in Ranks, ReadContinue(q)
  PROVE  DaemonSound /\ UNCHANGED work
<1> DEFINE id == Head(to_rank[q]).id
           preparing == [NoRoute EXCEPT !.state = "PREPARING"]
<1>1. to_rank[q] # << >> /\ id \in Ids /\ id \in Continuations
  BY ReadType, RequestSound DEF ReadContinue, Reads
<1>2. \/ /\ Consumed(q) /\ SetRoute(q, id, preparing)
         /\ UNCHANGED <<from_rank, history, work>>
      \/ CloseClient(q)
  BY DEF ReadContinue
<1>3. RouteSound(id, preparing)
  BY <1>1 DEF RouteSound, NoRoute
<1> HIDE DEF id, preparing
<1>4. CASE /\ Consumed(q) /\ SetRoute(q, id, preparing)
           /\ UNCHANGED <<from_rank, history, work>>
  BY SMTT(60), <1>1, <1>3, <1>4, SetRouteSound, RequestsKeptBy, SameRepliesGrow,
     UnchangedHistoryGrows DEF DaemonSound
<1>5. CASE CloseClient(q)
  BY <1>5, CloseClientSound
<1> QED
  BY SMTT(60), <1>2, <1>4, <1>5

LEMMA ReadDecisionSound ==
  ASSUME LinkTypeOK, DaemonTypeOK, AgreementInv, NEW q \in Ranks, ReadDecision(q)
  PROVE  DaemonSound /\ UNCHANGED work
<1> DEFINE m == Head(to_rank[q])
           ready == [routes[q][m.id] EXCEPT !.state = ReadyState(q, m.id),
                                            !.queued = TRUE, !.cached = FALSE]
           failed == [routes[q][m.id] EXCEPT !.state = "FAILED", !.delivered = TRUE,
                                             !.failure = "ERROR"]
<1>1. /\ to_rank[q] # << >> /\ m.id \in Ids /\ Consumed(q) /\ UNCHANGED <<work, history>>
      /\ m.kind \in {"COMMIT", "ABORT"}
      /\ m.kind = "COMMIT" => m.id \in Voted
  BY SMTT(60), ReadType, RequestSound DEF ReadDecision, Reads
<1>2. /\ \E st \in {"OK", "ERROR"} : Send(q, m.kind, m.id, st)
      /\ \/ UNCHANGED routes
         \/ m.kind = "COMMIT" /\ SetRoute(q, m.id, ready)
         \/ SetRoute(q, m.id, NoRoute)
         \/ SetRoute(q, m.id, failed)
  BY DEF ReadDecision
<1>3. RouteSound(m.id, failed)
  <2>1. failed.state = "FAILED" /\ failed.failure = "ERROR"
    BY SMTT(60), <1>1, RouteAtType DEF Route
  <2> QED
    BY <2>1 DEF RouteSound
<1>4. m.kind = "COMMIT" => RouteSound(m.id, ready)
  <2>1. ready.state \in {"WAIT_INPUT", "READY_ADAPTER"}
    BY SMTT(60), <1>1, RouteAtType DEF Route, ReadyState
  <2> QED
    BY <1>1, <2>1 DEF RouteSound
<1> HIDE DEF m, ready, failed
<1>5. RoutesStaySound
  BY SMTT(60), <1>1, <1>2, <1>3, <1>4, NoRouteSound, SetRouteSound, SameRoutesSound
<1>6. RepliesGrow
  BY SMTT(60), <1>1, <1>2, SendSound DEF Statuses
<1> QED
  BY SMTT(60), <1>1, <1>5, <1>6, RequestsKeptBy, UnchangedHistoryGrows DEF DaemonSound

LEMMA PrepareContinuationSound ==
  ASSUME LinkTypeOK, DaemonTypeOK, AgreementInv, NEW q \in Ranks, NEW id \in Ids,
         PrepareContinuation(q, id)
  PROVE  DaemonSound /\ UNCHANGED work
<1> DEFINE ready == [routes[q][id] EXCEPT !.state = ReadyState(q, id),
                                          !.queued = TRUE, !.answered = TRUE]
<1>1. InState(q, id, "PREPARING") /\ UNCHANGED <<to_rank, work>>
  BY DEF PrepareContinuation
<1>2. \/ SetRoute(q, id, ready) /\ Send(q, "RESULT", id, "OK") /\ NotePrepared(q, id)
      \/ FailRoute(q, id, FALSE) /\ UNCHANGED <<from_rank, history>>
      \/ FailRoute(q, id, TRUE) /\ UNCHANGED <<from_rank, history>>
  BY Zenon DEF PrepareContinuation
<1>3. RouteSound(id, ready)
  <2>1. ready.state \in {"WAIT_INPUT", "READY_ADAPTER"}
    BY RouteAtType DEF Route, ReadyState
  <2>2. id \in Continuations
    BY <1>1, CurrentRouteSound DEF RouteSound, InState
  <2> QED
    BY <2>1, <2>2 DEF RouteSound
<1> HIDE DEF ready
<1>4. Grown /\ RunsStayCleared /\ (NotePrepared(q, id) => id \in history'[q].prepared)
  BY Zenon, <1>2, HistoryGrows
<1>5. RepliesGrow
  BY Zenon, <1>2, <1>4, SendSound, SameRepliesGrow DEF Statuses
<1>6. RoutesStaySound
  BY ZenonT(60), <1>2, <1>3, SetRouteSound, FailRouteSound
<1> QED
  BY SMTT(60), <1>1, <1>4, <1>5, <1>6, RequestsKeptBy DEF DaemonSound

LEMMA InputArrivesSound ==
  ASSUME LinkTypeOK, DaemonTypeOK, AgreementInv, NEW q \in Ranks, NEW id \in Ids,
         InputArrives(q, id)
  PROVE  DaemonSound /\ UNCHANGED work
<1> DEFINE ready == [routes[q][id] EXCEPT !.state = "READY_ADAPTER"]
<1>1. InState(q, id, "WAIT_INPUT") /\ UNCHANGED <<to_rank, work, history>>
  BY DEF InputArrives
<1>2. \/ SetRoute(q, id, ready) /\ UNCHANGED from_rank
      \/ /\ SetRoute(q, id, NoRoute)
         /\ SendUnless(routes[q][id].abandoned, q, "COMPLETION", id, "IO_ERROR")
  BY DEF InputArrives
<1>3. RouteSound(id, ready)
  <2>1. ready.state = "READY_ADAPTER"
    BY SMTT(60), RouteAtType DEF Route
  <2> QED
    BY SMTT(60), <1>1, <2>1, CurrentRouteSound DEF RouteSound, InState
<1> HIDE DEF ready
<1>4. RepliesGrow
  BY SMTT(60), <1>2, SendUnlessSound, SameRepliesGrow DEF Statuses
<1>5. RoutesStaySound
  BY SMTT(60), <1>2, <1>3, NoRouteSound, SetRouteSound
<1> QED
  BY <1>1, <1>4, <1>5, RequestsKeptBy, UnchangedHistoryGrows DEF DaemonSound

\* Only here does a rank start work: the route was committed or continues.
LEMMA SubmitAdapterSound ==
  ASSUME LinkTypeOK, DaemonTypeOK, AgreementInv, NEW q \in Ranks, NEW id \in Ids,
         SubmitAdapter(q, id)
  PROVE  DaemonSound /\ UNCHANGED work
<1> DEFINE running == [routes[q][id] EXCEPT !.state = "WAIT_ADAPTER",
                                            !.queued = FALSE]
<1>1. InState(q, id, "READY_ADAPTER") /\ UNCHANGED <<to_rank, work>>
  BY DEF SubmitAdapter, MayStart
<1>2. \/ /\ SetRoute(q, id, running)
         /\ history' = [history EXCEPT ![q].ran = Append(@, id)]
         /\ UNCHANGED from_rank
      \/ FinishRoute(q, id, "ERROR", "ERROR") /\ UNCHANGED history
  BY DEF SubmitAdapter
<1>3. RouteSound(id, running)
  <2>1. running.state = "WAIT_ADAPTER"
    BY RouteAtType DEF Route
  <2> QED
    BY <2>1 DEF RouteSound
<1> HIDE DEF running
<1>4. CASE /\ SetRoute(q, id, running)
           /\ history' = [history EXCEPT ![q].ran = Append(@, id)]
           /\ UNCHANGED from_rank
  <2>1. history[q] \in History
    BY DEF DaemonTypeOK
  <2>2. /\ history'[q] = [history[q] EXCEPT !.ran = Append(@, id)]
        /\ \A r \in Ranks : r # q => history'[r] = history[r]
    BY SMTT(60), <1>4 DEF DaemonTypeOK
  <2>3. /\ history'[q].ran = Append(history[q].ran, id)
        /\ history[q].ran \in Seq(Ids)
        /\ history'[q].prepared = history[q].prepared
        /\ history'[q].done = history[q].done
    BY SMTT(60), <2>1, <2>2 DEF History
  <2>4. Grown
    BY ZenonT(60), <2>2, <2>3 DEF Grown
  <2>5. \A i \in Ids : Ran(q, i)' => Ran(q, i) \/ i = id
    BY <2>3 DEF Ran
  <2>6. \A r \in Ranks, i \in Ids : r # q => (Ran(r, i)' => Ran(r, i))
    BY <2>2 DEF Ran
  <2>7. id \in Voted \union Continuations
    BY <1>1, CurrentRouteSound DEF RouteSound, InState
  <2>8. RunsStayCleared
    BY SMTT(60), <2>5, <2>6, <2>7 DEF AgreementInv, RunsCleared, RunsStayCleared
  <2> QED
    BY SMTT(60), <1>1, <1>3, <1>4, <2>4, <2>8, SetRouteSound, SameRepliesGrow, RequestsKeptBy
       DEF DaemonSound
<1>5. CASE FinishRoute(q, id, "ERROR", "ERROR") /\ UNCHANGED history
  BY SMTT(60), <1>1, <1>5, FinishRouteSound, RequestsKeptBy, UnchangedHistoryGrows
     DEF DaemonSound, Statuses
<1> QED
  BY SMTT(60), <1>2, <1>4, <1>5

LEMMA CompletionSound ==
  ASSUME LinkTypeOK, DaemonTypeOK, AgreementInv, NEW q \in Ranks, NEW id \in Ids,
         Completion(q, id)
  PROVE  DaemonSound /\ UNCHANGED work
<1> DEFINE output == [routes[q][id] EXCEPT !.state = "WAIT_OUTPUT"]
<1>1. UNCHANGED <<to_rank, work>>
  BY DEF Completion
<1>2. \/ SetRoute(q, id, output) /\ UNCHANGED <<from_rank, history>>
      \/ FinishRoute(q, id, "OK", "OK") /\ NoteDone(q, id)
      \/ FinishRoute(q, id, "ERROR", "ERROR") /\ UNCHANGED history
      \/ FailRoute(q, id, FALSE) /\ UNCHANGED <<from_rank, history>>
  BY Zenon DEF Completion
<1>3. RouteSound(id, output)
  <2>1. output.state = "WAIT_OUTPUT"
    BY RouteAtType DEF Route
  <2> QED
    BY <2>1 DEF RouteSound
<1> HIDE DEF output
<1>4. Grown /\ RunsStayCleared /\ (NoteDone(q, id) => id \in history'[q].done)
  BY Zenon, <1>2, HistoryGrows
<1>5. RoutesStaySound /\ RepliesGrow
  BY Zenon, <1>2, <1>3, <1>4, SetRouteSound, FinishRouteSound, FailRouteSound, SameRepliesGrow
     DEF Statuses
<1> QED
  BY SMTT(60), <1>1, <1>4, <1>5, RequestsKeptBy DEF DaemonSound

LEMMA OutputSentSound ==
  ASSUME LinkTypeOK, DaemonTypeOK, AgreementInv, NEW q \in Ranks, NEW id \in Ids,
         OutputSent(q, id)
  PROVE  DaemonSound /\ UNCHANGED work
<1>1. UNCHANGED <<to_rank, work>>
  BY DEF OutputSent
<1>2. \/ FinishRoute(q, id, "OK", "OK") /\ NoteDone(q, id)
      \/ FinishRoute(q, id, "IO_ERROR", "OK") /\ UNCHANGED history
  BY DEF OutputSent
<1>3. Grown /\ RunsStayCleared /\ (NoteDone(q, id) => id \in history'[q].done)
  BY SMTT(60), <1>2, HistoryGrows
<1>4. RoutesStaySound /\ RepliesGrow
  BY SMTT(60), <1>2, <1>3, FinishRouteSound DEF Statuses
<1> QED
  BY <1>1, <1>3, <1>4, RequestsKeptBy DEF DaemonSound

LEMMA ExpireTransportRouteSound ==
  ASSUME LinkTypeOK, DaemonTypeOK, AgreementInv, NEW q \in Ranks, NEW id \in Ids,
         ExpireTransportRoute(q, id)
  PROVE  DaemonSound /\ UNCHANGED work
<1> DEFINE cancelled == [routes[q][id] EXCEPT
                           !.state = IF InState(q, id, "WAIT_INPUT")
                                     THEN "CANCEL_INPUT" ELSE "CANCEL_OUTPUT",
                           !.delivered = TRUE]
<1>1. /\ UNCHANGED <<to_rank, work, history>>
      /\ SetRoute(q, id, cancelled)
      /\ SendUnless(routes[q][id].abandoned, q, "COMPLETION", id, "IO_ERROR")
  BY DEF ExpireTransportRoute
<1>2. RouteSound(id, cancelled)
  <2>1. cancelled.state \in {"CANCEL_INPUT", "CANCEL_OUTPUT"}
    BY SMTT(60), RouteAtType DEF Route
  <2> QED
    BY <2>1 DEF RouteSound
<1> HIDE DEF cancelled
<1>3. RepliesGrow
  BY Zenon, <1>1, SendUnlessSound DEF Statuses
<1> QED
  BY SMTT(60), <1>1, <1>2, <1>3, SetRouteSound, RequestsKeptBy, UnchangedHistoryGrows
     DEF DaemonSound

LEMMA TransportCancelledSound ==
  ASSUME LinkTypeOK, DaemonTypeOK, AgreementInv, NEW q \in Ranks, NEW id \in Ids,
         TransportCancelled(q, id)
  PROVE  DaemonSound /\ UNCHANGED work
<1> DEFINE failed == [routes[q][id] EXCEPT !.state = "FAILED", !.failure = "IO_ERROR"]
<1>1. /\ UNCHANGED <<to_rank, from_rank, work, history>>
      /\ SetRoute(q, id, failed) \/ SetRoute(q, id, NoRoute)
  BY DEF TransportCancelled, linkVars
<1>2. RouteSound(id, failed)
  <2>1. failed.state = "FAILED" /\ failed.failure = "IO_ERROR"
    BY RouteAtType DEF Route
  <2> QED
    BY <2>1 DEF RouteSound
<1> HIDE DEF failed
<1>3. RoutesStaySound
  BY SMTT(60), <1>1, <1>2, NoRouteSound, SetRouteSound
<1> QED
  BY <1>1, <1>3, SameRepliesGrow, RequestsKeptBy, UnchangedHistoryGrows DEF DaemonSound

LEMMA FinalizeFailedRouteSound ==
  ASSUME LinkTypeOK, DaemonTypeOK, AgreementInv, NEW q \in Ranks, NEW id \in Ids,
         FinalizeFailedRoute(q, id)
  PROVE  DaemonSound /\ UNCHANGED work
<1> DEFINE route == routes[q][id]
           replaced == [i \in Ids |-> IF i = id THEN NoRoute ELSE Abandon(q, i)]
<1>1. InState(q, id, "FAILED") /\ UNCHANGED <<work, history>>
  BY DEF FinalizeFailedRoute
<1>2. route.failure \in Statuses /\ route.failure # "OK"
  <2>1. route.failure \in Statuses
    BY SMTT(60), RouteAtType DEF Route
  <2> QED
    BY SMTT(60), <1>1, <2>1, CurrentRouteSound DEF RouteSound, InState
<1>3. \/ /\ SetRoute(q, id, NoRoute)
         /\ \E kind \in {"COMPLETION", "RESULT"} :
              SendUnless(route.delivered \/ route.abandoned, q, kind, id, route.failure)
         /\ UNCHANGED to_rank
      \/ /\ CloseEnd(q) /\ UNCHANGED from_rank
         /\ routes' = [routes EXCEPT ![q] = replaced]
  BY DEF FinalizeFailedRoute
<1>4. \A i \in Ids : RouteSound(i, replaced[i])
  BY SMTT(60), NoRouteSound, AbandonSound
<1> HIDE DEF route, replaced
<1>5. RoutesStaySound
  BY SMTT(60), <1>3, <1>4, NoRouteSound, SetRouteSound, ReplacedSound
<1>6. RepliesGrow
  BY SMTT(60), <1>2, <1>3, SendUnlessSound, SameRepliesGrow
<1>7. RequestsKept
  BY SMTT(60), <1>3, RequestsKeptBy
<1> QED
  BY SMTT(60), <1>1, <1>5, <1>6, <1>7, UnchangedHistoryGrows DEF DaemonSound

LEMMA AbortPreparedSound ==
  ASSUME LinkTypeOK, DaemonTypeOK, AgreementInv, NEW q \in Ranks, NEW id \in Ids,
         AbortPrepared(q, id)
  PROVE  DaemonSound /\ UNCHANGED work
<1>1. /\ InState(q, id, "RESERVED") /\ UNCHANGED <<to_rank, from_rank, work, history>>
      /\ SetRoute(q, id, NoRoute) \/ SetRoute(q, id, Fate(routes[q][id], "FAILED"))
  BY DEF AbortPrepared, linkVars
<1>2. RoutesStaySound
  BY SMTT(60), <1>1, FateSound, NoRouteSound, SetRouteSound
<1> QED
  BY SMTT(60), <1>1, <1>2, SameRepliesGrow, RequestsKeptBy, UnchangedHistoryGrows DEF DaemonSound

LEMMA RankRestartSound ==
  ASSUME LinkTypeOK, DaemonTypeOK, AgreementInv, NEW q \in Ranks, RankRestart(q)
  PROVE  DaemonSound /\ UNCHANGED work
<1> DEFINE replaced == [i \in Ids |-> NoRoute]
<1>1. /\ routes' = [routes EXCEPT ![q] = replaced] /\ CloseEnd(q)
      /\ UNCHANGED <<from_rank, work, history>>
  BY DEF RankRestart
<1>2. \A i \in Ids : RouteSound(i, replaced[i])
  BY NoRouteSound
<1> HIDE DEF replaced
<1> QED
  BY Zenon, <1>1, <1>2, ReplacedSound, SameRepliesGrow, RequestsKeptBy, UnchangedHistoryGrows
     DEF DaemonSound

-----------------------------------------------------------------------------
LEMMA InitAgreement == Init => AgreementInv
<1> SUFFICES ASSUME Init PROVE AgreementInv
  BY SMTT(60)
<1>1. /\ \A r \in Ranks : /\ to_rank[r] = << >> /\ from_rank[r] = << >>
                          /\ history[r].ran = << >>
                          /\ \A id \in Ids : /\ routes[r][id] = NoRoute
                                             /\ pending[r][id] = "NONE"
      /\ \A id \in Ids : transactions[id] = NoTransaction /\ outcome[id] = Untold
  BY DEF Init, LinkInit, ClientInit, DaemonInit
<1>2. RequestsSound /\ RepliesSound
  BY SMTT(60), <1>1, ElementsEmpty DEF RequestsSound, RepliesSound
<1>3. RoutesSound /\ TransactionsSound
  BY SMTT(60), <1>1, NoRouteSound, NoTransactionSound DEF RoutesSound, TransactionsSound
<1>4. AbortsFailed /\ RunsCleared /\ SuccessIsTotal
  BY <1>1 DEF AbortsFailed, RunsCleared, Ran, SuccessIsTotal, Untold
<1> QED
  BY SMTT(60), <1>2, <1>3, <1>4 DEF AgreementInv

LEMMA ClientKeepsWork ==
  ASSUME NEW r \in Ranks, ClientStep(r)
  PROVE  UNCHANGED work
<1>1. \A txs, told, st : FailPipeline(txs, told, st) => UNCHANGED work
  BY DEF FailPipeline
<1>2. \A id, t, st : FailAfter(id, t, st) => UNCHANGED work
  BY <1>1 DEF FailAfter
<1>3. RejectStream => UNCHANGED work
  BY <1>1 DEF RejectStream
<1>4. CASE RankResult(r)
  BY <1>1, <1>3, <1>4, Zenon DEF RankResult
<1>5. CASE RankDecisionResult(r)
  BY <1>2, <1>3, <1>5, Zenon DEF RankDecisionResult
<1>6. CASE RankCompletion(r)
  BY <1>3, <1>6, Zenon DEF RankCompletion
<1>7. CASE ConnectionLost(r)
  BY SMTT(60), <1>1, <1>7 DEF ConnectionLost
<1> QED
  BY SMTT(60), <1>4, <1>5, <1>6, <1>7 DEF ClientStep

LEMMA UnchangedSound ==
  ASSUME AgreementInv, UNCHANGED <<to_rank, from_rank, daemonVars>>
  PROVE  DaemonSound
  BY SMTT(60), UnchangedHistoryGrows, SameRepliesGrow, SameRoutesSound
     DEF DaemonSound, RequestsKept, daemonVars

LEMMA NextAgreement ==
  TypeOK /\ OrderInv /\ AgreementInv /\ [Next]_vars => AgreementInv'
<1> SUFFICES ASSUME TypeOK, OrderInv, AgreementInv, [Next]_vars PROVE AgreementInv'
  OBVIOUS
<1>0. LinkTypeOK /\ ClientTypeOK /\ DaemonTypeOK
  BY DEF TypeOK
<1>1. CASE EngineStep /\ UNCHANGED <<daemonVars, breaks>>
  BY <1>1, EngineAgrees
<1>2. ASSUME NEW r \in Ranks, ClientStep(r), UNCHANGED <<daemonVars, breaks>>
      PROVE  AgreementInv'
  <2>1. ClientSound
    BY SMTT(60), <1>0, <1>2, RankResultSound, RankDecisionResultSound, RankCompletionSound,
       ConnectionLostSound DEF ClientStep
  <2>2. UNCHANGED work
    BY <1>2, ClientKeepsWork
  <2> QED
    BY SMTT(60), <1>2, <2>1, <2>2, ClientStepAgrees
<1>3. ASSUME DaemonSound, UNCHANGED work, UNCHANGED clientVars
      PROVE  AgreementInv'
  BY SMTT(60), <1>0, <1>3, DaemonStepAgrees DEF DaemonSound
<1>4. ASSUME NEW r \in Ranks, MessageStep(r), UNCHANGED <<clientVars, breaks>>
      PROVE  AgreementInv'
  <2>1. DaemonSound /\ UNCHANGED work
    BY SMTT(60), <1>0, <1>4, ReadPrepareSound, ReadContinueSound, ReadDecisionSound,
       CloseClientSound DEF MessageStep, DaemonEof
  <2> QED
    BY SMTT(60), <1>3, <1>4, <2>1
<1>5. ASSUME NEW r \in Ranks, NEW id \in Ids, RouteStep(r, id),
             UNCHANGED <<clientVars, breaks>>
      PROVE  AgreementInv'
  <2>1. DaemonSound /\ UNCHANGED work
    BY SMTT(60), <1>0, <1>5, PrepareContinuationSound, InputArrivesSound, SubmitAdapterSound,
       CompletionSound, OutputSentSound, ExpireTransportRouteSound,
       TransportCancelledSound, FinalizeFailedRouteSound, AbortPreparedSound
       DEF RouteStep
  <2> QED
    BY SMTT(60), <1>3, <1>5, <2>1
<1>6. ASSUME NEW q \in Ranks, Reconnect(q)
      PROVE  AgreementInv'
  <2>1. UNCHANGED <<routes, history, work, transactions, pending, outcome>>
    BY SMTT(60), <1>6 DEF Reconnect, Reconnected, ClientAdopted
  <2>2. /\ \A r \in Ranks : to_rank'[r] \in {<< >>, to_rank[r]}
        /\ \A r \in Ranks : from_rank'[r] \in {<< >>, from_rank[r]}
    BY SMTT(60), <1>0, <1>6 DEF Reconnect, LinkTypeOK
  <2>3. Voted' = Voted /\ Continuations' = Continuations
    BY SMTT(60), <2>1 DEF Voted, Continuations, Continued
  <2>4. RequestsSound' /\ RepliesSound'
    BY SMTT(60), <2>1, <2>2, <2>3, ElementsEmpty DEF AgreementInv, RequestsSound, RepliesSound
  <2>5. RoutesSound' /\ RunsCleared'
    BY SMTT(60), <2>1, <2>3 DEF AgreementInv, RoutesSound, RouteSound, RunsCleared, Ran
  <2>6. TransactionsSound' /\ AbortsFailed' /\ SuccessIsTotal'
    BY SMTT(60), <2>1 DEF AgreementInv, TransactionsSound, TransactionSound, AbortsFailed,
                SuccessIsTotal
  <2> QED
    BY SMTT(60), <2>4, <2>5, <2>6 DEF AgreementInv
<1>7. ASSUME UNCHANGED <<to_rank, from_rank, work, clientVars, daemonVars>>
      PROVE  AgreementInv'
  BY SMTT(60), <1>3, <1>7, UnchangedSound
<1>8. ASSUME NEW q \in Ranks, Drop(q) \/ Restart(q)
      PROVE  AgreementInv'
  BY SMTT(60), <1>0, <1>3, <1>7, <1>8, RankRestartSound DEF Drop, Restart
<1>9. CASE UNCHANGED vars
  BY <1>7, <1>9 DEF vars, linkVars
<1> QED
  BY SMTT(60), <1>1, <1>2, <1>4, <1>5, <1>6, <1>8, <1>9 DEF Next

LEMMA AgreementInvariant == Spec => []AgreementInv
<1> QED
  BY OrderInvariant, InitAgreement, NextAgreement, PTL DEF Spec

\* In every pipeline, of any number of ranks and with any faults, work that
\* is not a continuation is started by no rank unless every rank has voted
\* for it: ResolveAdmission sends COMMIT only on a unanimous vote, and no
\* other path leads a prepared route to the adapter.
THEOREM NothingRunsUnvoted == Spec => []UnanimousRun
<1>1. AgreementInv => UnanimousRun
  BY SMTT(60) DEF AgreementInv, RunsCleared, Voted, Continuations, UnanimousRun
<1> QED
  BY <1>1, AgreementInvariant, PTL

\* In every pipeline, of any number of ranks and with any faults, the engine
\* is told of success only when every rank has run the work to a successful
\* end: neither an abort, nor a refusal by all ranks, nor the failure of the
\* pipeline is ever reported as OK (ReportCompletion, ResolveAdmission).
THEOREM SuccessOnEveryRank == Spec => []SuccessIsTotal
<1>1. AgreementInv => SuccessIsTotal
  BY DEF AgreementInv
<1> QED
  BY <1>1, AgreementInvariant, PTL
=============================================================================
