--------------------------- MODULE ResidentDaemon ---------------------------
(***************************************************************************)
(* The resident daemon of a rank (node/model_residentd.c).                 *)
(*                                                                         *)
(* Each submission the daemon has accepted is a route.  A route claims the *)
(* resident slots of its lanes, waits for the decision (RESERVED), or for  *)
(* the adapter to prepare a continuation (PREPARING), then for its input   *)
(* from the previous stage, runs on the adapter, sends its output to the   *)
(* next stage and completes.  Committed routes are handed to the adapter   *)
(* strictly in the order of their submission ids, because the ranks meet   *)
(* in collectives and must all run the same work at the same time.         *)
(*                                                                         *)
(* One thread runs the daemon's loop, so a step of a route is atomic; the  *)
(* adapter's completion callback comes from another thread and only        *)
(* touches a route that is running.  Adapter and transport are external:   *)
(* their answers are left open, as far as `Faults' allows.                 *)
(***************************************************************************)
EXTENDS ResidentLink

CONSTANT Topology   \* "STAGES": a chain of stages; "FANOUT": ranks in parallel

ASSUME DaemonAssumption == Topology \in {"STAGES", "FANOUT"}

VARIABLES routes,    \* SparkModelResidentdRoute by rank and submission
          owner,     \* sequence_slots[].active_owner: the route that claims it
          lease,     \* sequence_slots[].lease: the submission that set it
          sent,      \* outputs a rank has handed to the next one
          history    \* what each rank has promised, run and completed

daemonVars == <<routes, owner, lease, sent, history>>

NoRoute == [state |-> "IDLE", answered |-> FALSE, delivered |-> FALSE,
            queued |-> FALSE, cached |-> FALSE, abandoned |-> FALSE,
            failure |-> "OK"]

RouteStates == {"IDLE", "RESERVED", "PREPARING", "WAIT_INPUT", "READY_ADAPTER",
                "WAIT_ADAPTER", "WAIT_OUTPUT", "CANCEL_INPUT", "CANCEL_OUTPUT",
                "FAILED"}

Route == [state : RouteStates, answered : BOOLEAN, delivered : BOOLEAN,
          queued : BOOLEAN, cached : BOOLEAN, abandoned : BOOLEAN,
          failure : Statuses]

History == [prepared : SUBSET Ids, ran : Seq(Ids), done : SUBSET Ids]

DaemonTypeOK ==
  /\ routes \in [Ranks -> [Ids -> Route]]
  /\ owner \in [Ranks -> [Slots -> Ids \union {NoId}]]
  /\ lease \in [Ranks -> [Slots -> Ids \union {NoId}]]
  /\ sent \subseteq Ranks \X Ids
  /\ history \in [Ranks -> History]

DaemonInit ==
  /\ routes = [r \in Ranks |-> [id \in Ids |-> NoRoute]]
  /\ owner = [r \in Ranks |-> [s \in Slots |-> NoId]]
  /\ lease = [r \in Ranks |-> [s \in Slots |-> NoId]]
  /\ sent = {}
  /\ history = [r \in Ranks |-> [prepared |-> {}, ran |-> << >>, done |-> {}]]

-----------------------------------------------------------------------------
(* Routes and slots.                                                       *)

Active(r, id) == routes[r][id].state # "IDLE"
InState(r, id, state) == routes[r][id].state = state
Ran(r, id) == \E i \in DOMAIN history[r].ran : history[r].ran[i] = id

Full(r) == Cardinality({id \in Ids : Active(r, id)}) >= Capacity
Taken(r, id) == \E s \in work[id].lanes : owner[r][s] # NoId
Owned(r, id) == {s \in Slots : owner[r][s] = id}

SetRoute(r, id, route) == routes' = [routes EXCEPT ![r][id] = route]

ClaimResidentSlots(r, id) ==
  owner' = [owner EXCEPT ![r] = [s \in Slots |->
              IF s \in work[id].lanes THEN id ELSE owner[r][s]]]

ReleaseResidentSlots(r, id) ==
  owner' = [owner EXCEPT ![r] = [s \in Slots |->
              IF owner[r][s] = id THEN NoId ELSE owner[r][s]]]

SetLeases(r, id, value) ==
  lease' = [lease EXCEPT ![r] = [s \in Slots |->
              IF s \in Owned(r, id) THEN value ELSE lease[r][s]]]

\* DropClaims: the slots are given up, and with them what was known of them.
DropClaims(r, id) == ReleaseResidentSlots(r, id) /\ SetLeases(r, id, NoId)

\* CompleteResidentSlots: a slot whose work ran well can be continued.
CompleteResidentSlots(r, id, st) ==
  /\ ReleaseResidentSlots(r, id)
  /\ SetLeases(r, id, IF st = "OK" /\ work[id].kind # "RELEASE" THEN id ELSE NoId)

\* A message queued for the client; it is lost if the connection is gone.
Send(r, kind, id, st) ==
  from_rank' = IF wire[r]
               THEN [from_rank EXCEPT ![r] = Append(@, Reply(kind, id, st))]
               ELSE from_rank

SendUnless(quiet, r, kind, id, st) ==
  IF quiet THEN UNCHANGED from_rank ELSE Send(r, kind, id, st)

\* ready_state: where a route goes once it is committed, and its output.
NeedsInput(r, id) == Topology = "STAGES" /\ work[id].kind = "ROWS" /\ r > 1
HasOutput(r, id) == Topology = "STAGES" /\ work[id].kind = "ROWS" /\ r < RankCount

\* Mutation: the first stage waits for an input too.
AlwaysInput(r, id) == "WAIT_INPUT"

ReadyState(r, id) == IF NeedsInput(r, id) THEN "WAIT_INPUT" ELSE "READY_ADAPTER"

NotePrepared(r, id) == history' = [history EXCEPT ![r].prepared = @ \union {id}]
NoteDone(r, id) == history' = [history EXCEPT ![r].done = @ \union {id}]

-----------------------------------------------------------------------------
(* Closing the client's connection.                                        *)

Reserved(r) == {id \in Ids : InState(r, id, "RESERVED")}

\* What a failing or a busy cache abort may leave of a prepared route.
AbortFates == {"IDLE"} \union (IF "ABORT_BUSY" \in Faults THEN {"RESERVED"} ELSE {})
                       \union (IF "ABORT_ERROR" \in Faults THEN {"FAILED"} ELSE {})

Fate(route, fate) ==
  CASE fate = "IDLE" -> NoRoute
    [] fate = "RESERVED" -> [route EXCEPT !.abandoned = TRUE]
    [] fate = "FAILED" -> [route EXCEPT !.abandoned = TRUE, !.state = "FAILED",
                                        !.cached = FALSE, !.delivered = TRUE,
                                        !.failure = "ERROR"]

Abandon(r, id) ==
  IF Active(r, id) THEN [routes[r][id] EXCEPT !.abandoned = TRUE] ELSE NoRoute

\* CloseClientLocked for the connection.
CloseEnd(r) ==
  /\ daemon_end' = [daemon_end EXCEPT ![r] = FALSE]
  /\ wire' = [wire EXCEPT ![r] = FALSE]
  /\ to_rank' = [to_rank EXCEPT ![r] = << >>]

\* CloseClient: leases invalidated, active routes abandoned, and the cache of
\* those that were waiting for a decision aborted.
CloseClient(r) ==
  /\ CloseEnd(r)
  /\ lease' = [lease EXCEPT ![r] = [s \in Slots |-> NoId]]
  /\ \E fate \in [Reserved(r) -> AbortFates] :
       /\ routes' = [routes EXCEPT ![r] = [id \in Ids |->
                       IF id \in Reserved(r) THEN Fate(routes[r][id], fate[id])
                                             ELSE Abandon(r, id)]]
       /\ owner' = [owner EXCEPT ![r] = [s \in Slots |->
                       IF \E id \in Reserved(r) : owner[r][s] = id /\ fate[id] = "IDLE"
                       THEN NoId ELSE owner[r][s]]]
  /\ UNCHANGED <<from_rank, client_end, work, sent, history>>

\* ReadClient or WriteClient finds the connection gone.
DaemonEof(r) ==
  /\ daemon_end[r] /\ ~wire[r]
  /\ CloseClient(r)

\* AbortPreparedRoutes, at the head of every pass of the loop.
AbortPrepared(r, id) ==
  /\ InState(r, id, "RESERVED") /\ routes[r][id].abandoned
  /\ \/ /\ SetRoute(r, id, NoRoute)
        /\ ReleaseResidentSlots(r, id)
     \/ /\ "ABORT_ERROR" \in Faults
        /\ SetRoute(r, id, Fate(routes[r][id], "FAILED"))
        /\ UNCHANGED owner
  /\ UNCHANGED <<linkVars, lease, sent, history>>

-----------------------------------------------------------------------------
(* Messages from the client.                                               *)

Reads(r, kinds) ==
  /\ daemon_end[r]
  /\ to_rank[r] # << >>
  /\ Head(to_rank[r]).kind \in kinds

Consumed(r) == to_rank' = [to_rank EXCEPT ![r] = Tail(@)]

\* ProcessSubmission of a PREPARE.  The adapter may refuse it; without a free
\* route or with a claimed slot it is refused as BUSY, and if the cache the
\* adapter had prepared cannot be aborted either, a failed route remains.
ReadPrepare(r) ==
  /\ Reads(r, {"PREPARE"})
  /\ Consumed(r)
  /\ LET id == Head(to_rank[r]).id
     IN  \/ /\ ~Full(r) /\ ~Taken(r, id)
            /\ SetRoute(r, id, [NoRoute EXCEPT !.state = "RESERVED",
                                               !.answered = TRUE, !.cached = TRUE])
            /\ ClaimResidentSlots(r, id)
            /\ Send(r, "RESULT", id, "OK")
            /\ NotePrepared(r, id)
         \/ /\ \E st \in {"BUSY", "ERROR"} :
                 /\ \/ st = "BUSY" /\ (Full(r) \/ Taken(r, id) \/ "BUSY" \in Faults)
                    \/ st = "ERROR" /\ "REFUSE" \in Faults
                 /\ Send(r, "RESULT", id, st)
            /\ UNCHANGED <<routes, owner, history>>
         \/ /\ ~Full(r) /\ Taken(r, id) /\ "ABORT_BUSY" \in Faults
            /\ SetRoute(r, id, [NoRoute EXCEPT !.state = "FAILED",
                                               !.delivered = TRUE, !.cached = TRUE,
                                               !.failure = "BUSY"])
            /\ Send(r, "RESULT", id, "BUSY")
            /\ UNCHANGED <<owner, history>>
  /\ UNCHANGED <<wire, client_end, daemon_end, work, lease, sent>>

\* ValidateContinuationLease: the client's leases are this rank's leases.
LeasesMatch(r, id) ==
  \A s \in work[id].lanes : lease[r][s] # NoId /\ lease[r][s] = work[id].lease[s]

\* ProcessContinuation.  A continuation that cannot be taken is an error of
\* the stream: the daemon drops the client.
ReadContinue(r) ==
  /\ Reads(r, {"CONTINUE"})
  /\ LET id == Head(to_rank[r]).id
         takes == LeasesMatch(r, id) /\ ~Full(r) /\ ~Taken(r, id)
     IN  IF takes
         THEN /\ Consumed(r)
              /\ SetRoute(r, id, [NoRoute EXCEPT !.state = "PREPARING"])
              /\ ClaimResidentSlots(r, id)
              /\ UNCHANGED <<from_rank, wire, client_end, daemon_end, work,
                             lease, sent, history>>
         ELSE CloseClient(r)

\* ProcessDecision.  The route must be waiting for one; the adapter resolves
\* the prepared cache, and the reply carries what came of it.
ReadDecision(r) ==
  /\ Reads(r, {"COMMIT", "ABORT"})
  /\ Consumed(r)
  /\ LET m == Head(to_rank[r])
         route == routes[r][m.id]
     IN  IF ~InState(r, m.id, "RESERVED")
         THEN Send(r, m.kind, m.id, "ERROR") /\ UNCHANGED <<routes, owner>>
         ELSE \/ /\ m.kind = "COMMIT"
                 /\ SetRoute(r, m.id, [route EXCEPT !.state = ReadyState(r, m.id),
                                                    !.queued = TRUE,
                                                    !.cached = FALSE])
                 /\ Send(r, m.kind, m.id, "OK")
                 /\ UNCHANGED owner
              \/ /\ m.kind = "ABORT"
                 /\ SetRoute(r, m.id, NoRoute)
                 /\ ReleaseResidentSlots(r, m.id)
                 /\ Send(r, m.kind, m.id, "OK")
              \/ /\ "DECISION" \in Faults
                 /\ SetRoute(r, m.id, [route EXCEPT !.state = "FAILED",
                                                    !.delivered = TRUE,
                                                    !.failure = "ERROR"])
                 /\ Send(r, m.kind, m.id, "ERROR")
                 /\ UNCHANGED owner
  /\ UNCHANGED <<wire, client_end, daemon_end, work, lease, sent, history>>

-----------------------------------------------------------------------------
(* Progress of a route.                                                    *)

FailRoute(r, id, cached) ==
  SetRoute(r, id, [routes[r][id] EXCEPT !.state = "FAILED", !.failure = "ERROR",
                                        !.cached = cached])

\* PrepareContinuation and CommitContinuation.  A busy adapter is asked again;
\* a route that outlived its session may find that the next one has begun.
PrepareContinuation(r, id) ==
  /\ InState(r, id, "PREPARING")
  /\ \/ /\ SetRoute(r, id, [routes[r][id] EXCEPT !.state = ReadyState(r, id),
                                                 !.queued = TRUE,
                                                 !.answered = TRUE])
        /\ Send(r, "RESULT", id, "OK")
        /\ NotePrepared(r, id)
     \/ /\ "CONTINUE" \in Faults \/ routes[r][id].abandoned
        /\ FailRoute(r, id, FALSE)
        /\ UNCHANGED <<from_rank, history>>
     \/ /\ "DECISION" \in Faults
        /\ FailRoute(r, id, TRUE)
        /\ UNCHANGED <<from_rank, history>>
  /\ UNCHANGED <<to_rank, wire, client_end, daemon_end, work, owner, lease, sent>>

\* The end of FinishRoute and QueueCompletion for a route whose work is over.
FinishRoute(r, id, st, ran_status) ==
  /\ SetRoute(r, id, NoRoute)
  /\ CompleteResidentSlots(r, id, ran_status)
  /\ SendUnless(routes[r][id].abandoned, r, "COMPLETION", id, st)

\* ApplyTransportCompletion for an input.  One that arrives after the
\* deadline ends the route instead, with the slots as they were.
InputArrives(r, id) ==
  /\ InState(r, id, "WAIT_INPUT")
  /\ <<r - 1, id>> \in sent
  /\ \/ /\ SetRoute(r, id, [routes[r][id] EXCEPT !.state = "READY_ADAPTER"])
        /\ UNCHANGED <<from_rank, owner>>
     \/ /\ work[id].deadline
        /\ SetRoute(r, id, NoRoute)
        /\ ReleaseResidentSlots(r, id)
        /\ SendUnless(routes[r][id].abandoned, r, "COMPLETION", id, "IO_ERROR")
  /\ UNCHANGED <<to_rank, wire, client_end, daemon_end, work, lease, sent, history>>

\* Mutation: the order of the committed routes is all that is looked at.
FifoOnly(r, id) == FALSE

\* EarlierRouteUncommitted: an older route may still be committed.
EarlierRouteUncommitted(r, id) ==
  \E i \in 1..(id - 1) : /\ ~routes[r][i].queued
                         /\ routes[r][i].state \in {"RESERVED", "PREPARING"}

\* The head of the committed FIFO, which EnqueueCommitted keeps sorted.
IsHead(r, id) == /\ routes[r][id].queued
                 /\ \A i \in 1..(id - 1) : ~routes[r][i].queued

\* The guard of SubmitAdapter.
MayStart(r, id) ==
  /\ InState(r, id, "READY_ADAPTER")
  /\ IsHead(r, id)
  /\ ~EarlierRouteUncommitted(r, id)

\* SubmitAdapter: the adapter takes the work (a busy one is asked again), or
\* refuses it, which completes the route.
SubmitAdapter(r, id) ==
  /\ MayStart(r, id)
  /\ \/ /\ SetRoute(r, id, [routes[r][id] EXCEPT !.state = "WAIT_ADAPTER",
                                                 !.queued = FALSE])
        /\ history' = [history EXCEPT ![r].ran = Append(@, id)]
        /\ UNCHANGED <<from_rank, owner, lease>>
     \/ /\ "START" \in Faults
        /\ FinishRoute(r, id, "ERROR", "ERROR")
        /\ UNCHANGED history
  /\ UNCHANGED <<to_rank, wire, client_end, daemon_end, work, sent>>

\* External: a rank's device runs what the adapter was given in that order.
\* Work that the ranks run together ends once every rank has come to it; a
\* rank whose peer will not come gives up when its drain time is over.  The
\* peer may still come while the request is on its way to it.
Reached(r, id) ==
  \E i \in DOMAIN history[r].ran :
    /\ history[r].ran[i] = id
    /\ \A j \in 1..(i - 1) : ~InState(r, history[r].ran[j], "WAIT_ADAPTER")

Together(id) == Topology = "STAGES" \/ \A q \in Ranks : Reached(q, id)

Starved(id) ==
  /\ Topology = "FANOUT"
  /\ \E q \in Ranks : /\ ~Ran(q, id)
                      /\ routes[q][id].state \in {"IDLE", "FAILED"}
                      /\ \A i \in DOMAIN to_rank[q] : to_rank[q][i].id # id

\* The adapter's completion callback and what the loop does with it.
Completion(r, id) ==
  /\ InState(r, id, "WAIT_ADAPTER")
  /\ \/ /\ Together(id) /\ HasOutput(r, id)
        /\ SetRoute(r, id, [routes[r][id] EXCEPT !.state = "WAIT_OUTPUT"])
        /\ UNCHANGED <<from_rank, owner, lease, history>>
     \/ /\ Together(id) /\ ~HasOutput(r, id)
        /\ FinishRoute(r, id, "OK", "OK")
        /\ NoteDone(r, id)
     \/ /\ Starved(id) \/ "RUN" \in Faults
        /\ FinishRoute(r, id, "ERROR", "ERROR")
        /\ UNCHANGED history
     \/ /\ "REJECT" \in Faults
        /\ FailRoute(r, id, FALSE)
        /\ UNCHANGED <<from_rank, owner, lease, history>>
  /\ UNCHANGED <<to_rank, wire, client_end, daemon_end, work, sent>>

\* ApplyTransportCompletion for an output: the next stage has it.
OutputSent(r, id) ==
  /\ InState(r, id, "WAIT_OUTPUT")
  /\ sent' = sent \union {<<r, id>>}
  /\ \/ FinishRoute(r, id, "OK", "OK") /\ NoteDone(r, id)
     \/ /\ work[id].deadline
        /\ FinishRoute(r, id, "IO_ERROR", "OK")
        /\ UNCHANGED history
  /\ UNCHANGED <<to_rank, wire, client_end, daemon_end, work>>

\* Mutation: a route of an ended session waits on.
ExpiredByDeadline(r, id) == work[id].deadline

Expired(r, id) == work[id].deadline \/ routes[r][id].abandoned

\* ExpireTransportRoute: the deadline passes, or the session has ended, while
\* the route waits on the transport.  The client is told at once; the
\* transport is asked to cancel.
ExpireTransportRoute(r, id) ==
  /\ \/ InState(r, id, "WAIT_INPUT") \/ InState(r, id, "WAIT_OUTPUT")
  /\ Expired(r, id)
  /\ SetRoute(r, id, [routes[r][id] EXCEPT
                        !.state = IF InState(r, id, "WAIT_INPUT")
                                  THEN "CANCEL_INPUT" ELSE "CANCEL_OUTPUT",
                        !.delivered = TRUE])
  /\ SendUnless(routes[r][id].abandoned, r, "COMPLETION", id, "IO_ERROR")
  /\ UNCHANGED <<to_rank, wire, client_end, daemon_end, work,
                 owner, lease, sent, history>>

\* The cancelled transfer is over.  An input that was cancelled fails the
\* route; the work behind a cancelled output has run, and it may have left.
TransportCancelled(r, id) ==
  /\ \/ /\ InState(r, id, "CANCEL_INPUT")
        /\ SetRoute(r, id, [routes[r][id] EXCEPT !.state = "FAILED",
                                                 !.failure = "IO_ERROR"])
        /\ UNCHANGED <<owner, lease, sent>>
     \/ /\ InState(r, id, "CANCEL_OUTPUT")
        /\ SetRoute(r, id, NoRoute)
        /\ CompleteResidentSlots(r, id, "OK")
        /\ sent' \in {sent, sent \union {<<r, id>>}}
  /\ UNCHANGED <<linkVars, history>>

\* FinalizeFailedRoute and CloseFailedRoute.  What is still prepared or queued
\* is aborted first.  A failed abort leaves the cache unknown, so the rank
\* drops its client and starts over; otherwise the failure is reported, if it
\* has not been, as the answer still owed.
FinalizeFailedRoute(r, id) ==
  LET route == routes[r][id]
  IN  /\ InState(r, id, "FAILED")
      /\ \/ /\ SetRoute(r, id, NoRoute)
            /\ DropClaims(r, id)
            /\ SendUnless(route.delivered \/ route.abandoned, r,
                          IF route.answered THEN "COMPLETION" ELSE "RESULT",
                          id, route.failure)
            /\ UNCHANGED <<to_rank, wire, daemon_end>>
         \/ /\ route.cached \/ route.queued
            /\ "ABORT_ERROR" \in Faults
            /\ CloseEnd(r)
            /\ routes' = [routes EXCEPT ![r] = [i \in Ids |->
                            IF i = id THEN NoRoute ELSE Abandon(r, i)]]
            /\ ReleaseResidentSlots(r, id)
            /\ lease' = [lease EXCEPT ![r] = [s \in Slots |-> NoId]]
            /\ UNCHANGED from_rank
      /\ UNCHANGED <<client_end, work, sent, history>>

-----------------------------------------------------------------------------
(* The life of the process.                                                *)

\* Mutation: a new client is taken while routes of the old one run.
AdoptedAtOnce(r) ==
  /\ ~daemon_end[r]
  /\ UNCHANGED <<routes, owner, lease, sent, history>>

\* The daemon's half of a reconnection: AdoptCandidate takes the new client
\* only when the old one is gone, ProgressReset waits for every route to end
\* and clears the slots, FinishHello then answers.
ClientAdopted(r) ==
  /\ ~daemon_end[r]
  /\ \A id \in Ids : ~Active(r, id)
  /\ owner' = [owner EXCEPT ![r] = [s \in Slots |-> NoId]]
  /\ lease' = [lease EXCEPT ![r] = [s \in Slots |-> NoId]]
  /\ UNCHANGED <<routes, sent, history>>

\* External: the process dies; a new one starts with nothing.
RankRestart(r) ==
  /\ CloseEnd(r)
  /\ routes' = [routes EXCEPT ![r] = [id \in Ids |-> NoRoute]]
  /\ owner' = [owner EXCEPT ![r] = [s \in Slots |-> NoId]]
  /\ lease' = [lease EXCEPT ![r] = [s \in Slots |-> NoId]]
  /\ UNCHANGED <<from_rank, client_end, work, sent, history>>
=============================================================================
