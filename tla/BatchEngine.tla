---------------------------- MODULE BatchEngine ----------------------------
(***************************************************************************)
(* The request life cycle of runtime/model_batch_engine.c: requests are    *)
(* submitted, prefilled and decoded in waves that share one pipeline       *)
(* submission, perhaps published to the cache, released on the ranks and   *)
(* ended with one terminal event; ranks refuse waves, work fails, requests *)
(* are cancelled or expire, and the rank session is lost and replaced.     *)
(*                                                                         *)
(* The engine is driven by one thread.  `at' is where that thread is: OUT  *)
(* of the engine (the caller may then submit, cancel, ...) or inside       *)
(* SparkModelBatchEngineProgress.  The pipeline client below the engine is *)
(* modelled by what it promises: one result and then one completion for    *)
(* each submission it accepts, in the session it was submitted in.         *)
(*                                                                         *)
(* Tokens of a prompt are counted in cache blocks.  Which of the eligible  *)
(* requests a wave takes, and in which order, is left open.                *)
(***************************************************************************)
EXTENDS Integers, Sequences, FiniteSets

CONSTANTS
  Requests,       \* request identities, each submitted at most once
  Slots,          \* request_capacity request slots
  AllResidents,   \* slots of the ranks
  AllSubmissions, \* submission records
  MaxLanes,       \* lanes of one wave
  Prompt,         \* prompt_token_count, in cache blocks
  Budget,         \* output_token_budget
  Settings,       \* the settings to be looked at, see below
  None

(***************************************************************************)
(* DISCONNECT    a rank connection is lost                                 *)
(* LATE_HEAL     the ranks come back between the two pipeline calls that   *)
(*               one Progress makes                                        *)
(* PIPELINE      the pipeline fails with a status other than IO_ERROR      *)
(* REFUSE        ranks refuse or fail a wave other than a RELEASE          *)
(* SLOT_HELD     ranks hold on to a slot for longer than the in-flight     *)
(*               budget and refuse its RELEASE all that time               *)
(* STALE         a cached prefix the engine relies on is gone on the ranks *)
(* EXPIRE        a wave stays in flight for longer than its budget         *)
(* LIMIT         a request no longer fits the ranks' context limit         *)
(* APPLY         a completion cannot be applied                            *)
(* INDEX         the prefix index fails a lookup or a re-import            *)
(***************************************************************************)
AllFaults == {"DISCONNECT", "LATE_HEAL", "PIPELINE", "REFUSE", "SLOT_HELD",
              "STALE", "EXPIRE", "LIMIT", "APPLY", "INDEX"}

(***************************************************************************)
(* A setting is what an engine is started with and what its environment    *)
(* does to it.  It does not change in a behaviour.                         *)
(***************************************************************************)
Setting ==
  [residents : SUBSET AllResidents,      \* resident_sequence_capacity
   submissions : SUBSET AllSubmissions,  \* submission_capacity
   chain : Nat \ {0},     \* most tokens one decode wave yields for a lane
   sessions : Nat \ {0},  \* bound on the rank sessions
   faults : SUBSET AllFaults]

ASSUME SlotAssumption == IsFiniteSet(Slots)
ASSUME CountAssumption ==
  /\ Prompt \in Nat \ {0}
  /\ Budget \in Nat \ {0}
ASSUME NoneAssumption == None \notin Requests \cup AllResidents
ASSUME SettingAssumption == Settings \subseteq Setting

VARIABLES
  requests,       \* the request table
  free_requests, free_residents, live_request_count,
  submissions,    \* the submission table
  health,         \* failed_status, failed_session_fingerprint, admission_open
  observed,       \* observed_control_generation, 0 before the first Progress
  at,             \* where the engine's thread is
  pipe,           \* the pipeline client's failed_status
  session,        \* its session_fingerprint
  rank_slots,     \* what the ranks hold in each resident slot
  log,            \* the events each request's client has been given
  setting

ResidentSlots == setting.residents
Submissions == setting.submissions
Chain == setting.chain
Sessions == setting.sessions
Faults == setting.faults

tables == <<requests, free_requests, free_residents, live_request_count, log>>
vars == <<tables, submissions, health, observed, at, pipe, session,
          rank_slots, setting>>

-----------------------------------------------------------------------------
(***************************************************************************)
(* Requests, waves and events.                                             *)
(***************************************************************************)
Kinds == {"PREFILL", "DECODE", "PUBLISH", "RELEASE"}

StateForWork ==
  [PREFILL |-> "QUEUED_PREFILL", DECODE |-> "READY_DECODE",
   PUBLISH |-> "QUEUED_PUBLISH", RELEASE |-> "QUEUED_RELEASE"]

InflightStateForWork ==
  [PREFILL |-> "PREFILL_INFLIGHT", DECODE |-> "DECODE_INFLIGHT",
   PUBLISH |-> "PUBLISH_INFLIGHT", RELEASE |-> "RELEASE_INFLIGHT"]

Queued == {StateForWork[k] : k \in Kinds}
Inflight == {InflightStateForWork[k] : k \in Kinds}
Ends == {"COMPLETED", "CANCELLED", "ERROR"}

(***************************************************************************)
(* ENDED is the state of a request whose terminal event is being emitted:  *)
(* it exists within a step only.                                           *)
(***************************************************************************)
Request ==
  [state : Queued \cup Inflight \cup {"FREE", "ENDED"},
   id : Requests \cup {None},
   slot : ResidentSlots \cup {None},  \* resident_sequence_slot
   bound : BOOLEAN,                   \* resident_bound
   computed : 0 .. Prompt,            \* computed_prompt_token_count
   prefix : 0 .. Prompt,              \* cache_prefix_token_count
   isolated : BOOLEAN,                \* prefix_isolated
   span_limit : 0 .. Prompt,          \* prefill_span_limit
   generated : 0 .. Budget,           \* generated_token_count
   cancel : BOOLEAN,                  \* cancel_pending
   expired : BOOLEAN,
   busy : BOOLEAN,                    \* busy_since_ns is not 0
   terminal : Ends \cup {None}]       \* terminal_event_kind

EmptyRequest ==
  [state |-> "FREE", id |-> None, slot |-> None, bound |-> FALSE,
   computed |-> 0, prefix |-> 0, isolated |-> FALSE, span_limit |-> 0,
   generated |-> 0, cancel |-> FALSE, expired |-> FALSE, busy |-> FALSE,
   terminal |-> None]

Submission ==
  [active : BOOLEAN, kind : Kinds \cup {None}, lanes : SUBSET Slots,
   span : [Slots -> 0 .. Prompt], admitted : BOOLEAN]

EmptySubmission ==
  [active |-> FALSE, kind |-> None, lanes |-> {},
   span |-> [s \in Slots |-> 0], admitted |-> FALSE]

ActiveSubmissions == {b \in Submissions : submissions[b].active}
InflightSlots == UNION {submissions[b].lanes : b \in ActiveSubmissions}

(***************************************************************************)
(* The cached prefix a request was given is still all it has computed.     *)
(***************************************************************************)
CarriesPrefix(r) == /\ r.prefix # 0
                    /\ r.computed = r.prefix
                    /\ r.computed < Prompt

Init ==
  /\ setting \in Settings
  /\ requests = [s \in Slots |-> EmptyRequest]
  /\ free_requests = Slots
  /\ free_residents = ResidentSlots
  /\ live_request_count = 0
  /\ submissions = [b \in Submissions |-> EmptySubmission]
  /\ health = [failed |-> FALSE, session |-> 0, open |-> TRUE]
  /\ observed = 0
  /\ at = "OUT"
  /\ pipe = "OK"
  /\ session = 1
  /\ rank_slots = [k \in ResidentSlots |-> None]
  /\ log = [r \in Requests |-> [accepted |-> FALSE, tokens |-> 0, ended |-> <<>>]]
-----------------------------------------------------------------------------
(***************************************************************************)
(* What happens to one request.  Each operator maps a request record to    *)
(* the record the code leaves; `failed' is the engine's failed_status.     *)
(***************************************************************************)
QueueTerminal(r, end, failed) ==
  [r EXCEPT !.terminal = end,
            !.state = IF ~failed /\ r.bound THEN "QUEUED_RELEASE" ELSE "ENDED"]

RestoreOrCancel(r, kind, failed) ==
  IF r.cancel /\ kind \in {"PREFILL", "DECODE"}
  THEN QueueTerminal(r, "CANCELLED", failed)
  ELSE [r EXCEPT !.state = StateForWork[kind]]

(***************************************************************************)
(* A lane gets `yield.tokens' tokens, of which the last may be a stop      *)
(* token; `yield.cancel' says that the client cancels the request from     *)
(* within its last TOKEN event (the COMPLETING state of the code).         *)
(***************************************************************************)
AcceptToken(r, yield, failed) ==
  LET t == [r EXCEPT !.generated = @ + yield.tokens,
                     !.cancel = @ \/ yield.cancel]
  IN  CASE t.cancel -> QueueTerminal(t, "CANCELLED", failed)
        [] ~t.cancel /\ (yield.stop \/ t.generated = Budget) ->
             QueueTerminal(t, "COMPLETED", failed)
        [] OTHER -> [t EXCEPT !.state = "READY_DECODE"]

PrefillCompleted(r, span, yield, failed) ==
  LET t == [r EXCEPT !.computed = @ + span, !.bound = TRUE]
  IN  CASE t.computed = Prompt -> AcceptToken(t, yield, failed)
        [] t.computed < Prompt /\ t.cancel ->
             QueueTerminal(t, "CANCELLED", failed)
        [] OTHER -> [t EXCEPT !.state = "QUEUED_PREFILL"]

DecodeCompleted(r, yield, failed) ==
  LET t == AcceptToken([r EXCEPT !.bound = TRUE], yield, failed)
  IN  IF yield.publish /\ t.state # "ENDED"
      THEN [t EXCEPT !.state = "QUEUED_PUBLISH"]
      ELSE t

PublishCompleted(r, failed) ==
  IF r.cancel
  THEN QueueTerminal(r, "CANCELLED", failed)
  ELSE [r EXCEPT !.state = IF r.terminal # None THEN "QUEUED_RELEASE"
                                                ELSE "READY_DECODE"]

ReleaseCompleted(r) == [r EXCEPT !.bound = FALSE, !.state = "ENDED"]

Applied(r, kind, span, yield, failed) ==
  LET t == [r EXCEPT !.busy = FALSE, !.isolated = FALSE]
  IN  CASE kind = "PREFILL" -> PrefillCompleted(t, span, yield, failed)
        [] kind = "DECODE" -> DecodeCompleted(t, yield, failed)
        [] kind = "PUBLISH" -> PublishCompleted(t, failed)
        [] kind = "RELEASE" -> ReleaseCompleted(t)

(***************************************************************************)
(* Mutation: a retried wave forgets that the ranks had admitted it.        *)
(***************************************************************************)
AdmissionForgotten(r, kind, admitted) == r

AdmittedResidency(r, kind, admitted) ==
  [r EXCEPT !.bound = @ \/ (kind = "PREFILL" /\ admitted)]

RejectedResidency(r, kind) ==
  [r EXCEPT !.bound = (@ \/ kind = "PREFILL") /\ kind # "RELEASE"]

(***************************************************************************)
(* Mutation: a wave refused for now is not given back to the queue.        *)
(***************************************************************************)
RejectedNotRestored(r, kind, admitted, status, span, late, failed) ==
  IF status \in {"BUSY", "LOST"} /\ ~late
  THEN [AdmittedResidency(r, kind, admitted) EXCEPT !.busy = TRUE]
  ELSE QueueTerminal(RejectedResidency(r, kind), "ERROR", failed)

(***************************************************************************)
(* A wave was refused or failed with `status'.  LOST is IO_ERROR while     *)
(* some rank is not connected; `late' says that the request has been       *)
(* refused for longer than the in-flight budget.                           *)
(***************************************************************************)
Rejected(r, kind, admitted, status, span, late, failed) ==
  CASE status = "CAPACITY" /\ kind = "PREFILL" /\ span > 1 ->
         RestoreOrCancel([AdmittedResidency(r, kind, admitted)
                            EXCEPT !.span_limit = span \div 2],
                         kind, failed)
    [] status \in {"BUSY", "LOST"} /\ ~late ->
         RestoreOrCancel([AdmittedResidency(r, kind, admitted)
                            EXCEPT !.busy = TRUE],
                         kind, failed)
    [] OTHER ->
         QueueTerminal(RejectedResidency(r, kind), "ERROR", failed)

(***************************************************************************)
(* A lane of a wave refused because a cached prefix is gone.  With several *)
(* candidates each is isolated; a single one is recomputed from the start, *)
(* unless its own copy of the prefix does not fit.                         *)
(***************************************************************************)
Requeued(r, several, fits, failed) ==
  CASE CarriesPrefix(r) /\ several ->
         RestoreOrCancel([r EXCEPT !.isolated = TRUE], "PREFILL", failed)
    [] CarriesPrefix(r) /\ ~several ->
         LET t == [r EXCEPT !.computed = 0, !.prefix = 0, !.isolated = FALSE]
         IN  IF fits THEN RestoreOrCancel(t, "PREFILL", failed)
                     ELSE QueueTerminal(t, "ERROR", failed)
    [] OTHER -> RestoreOrCancel(r, "PREFILL", failed)

(***************************************************************************)
(* Mutations: the invalidation drops a request whose release was queued;   *)
(* starts a request that has emitted tokens again.                         *)
(***************************************************************************)
InvalidatedSilently(r) ==
  IF r.state = "QUEUED_RELEASE" THEN EmptyRequest ELSE r

InvalidatedReplays(r) ==
  IF r.state \in {"FREE", "QUEUED_RELEASE"}
  THEN r
  ELSE [r EXCEPT !.slot = None, !.bound = FALSE, !.computed = 0, !.prefix = 0,
                 !.state = "QUEUED_PREFILL"]

Invalidated(r) ==
  LET t == [r EXCEPT !.slot = None, !.bound = FALSE]
  IN  CASE r.state = "FREE" -> r
        [] r.state = "QUEUED_RELEASE" -> [t EXCEPT !.state = "ENDED"]
        [] r.state \notin {"FREE", "QUEUED_RELEASE"} /\ r.cancel ->
             QueueTerminal(t, "CANCELLED", FALSE)
        [] r.state \notin {"FREE", "QUEUED_RELEASE"} /\ ~r.cancel
                                                     /\ r.generated # 0 ->
             QueueTerminal(t, "ERROR", FALSE)
        [] OTHER -> [t EXCEPT !.computed = 0, !.prefix = 0,
                              !.state = "QUEUED_PREFILL"]

-----------------------------------------------------------------------------
(***************************************************************************)
(* The slot whose events reach the client of request r: an expired request *)
(* is silent until it is freed.                                            *)
(***************************************************************************)
Listening(r) == {s \in Slots : requests[s].id = r /\ ~requests[s].expired}

Ending(r) == CASE r.expired -> <<"ERROR">>
               [] r.state = "ENDED" /\ ~r.expired -> <<r.terminal>>
               [] OTHER -> <<>>

(***************************************************************************)
(* The events of request r's client after a step that turns the request    *)
(* table into `new'.                                                       *)
(***************************************************************************)
Emitted(r, new) ==
  IF Listening(r) = {}
  THEN log[r]
  ELSE LET s == CHOOSE s \in Listening(r) : TRUE
       IN  [log[r] EXCEPT
              !.tokens = @ + new[s].generated - requests[s].generated,
              !.ended = @ \o Ending(new[s])]

(***************************************************************************)
(* The tables after a step that turns the request table into `new'.  Every *)
(* ENDED request is freed, its resident slot goes back to the pool, and    *)
(* its client, unless it was told of an expiry before, gets the terminal   *)
(* event.  `again' are slots the code frees a second time in the step.     *)
(***************************************************************************)
Settle(new, again) ==
  LET ended == {s \in Slots : new[s].state = "ENDED"}
      dropped == {s \in Slots : s \in ended \/ new[s].slot = None}
  IN  /\ requests' = [s \in Slots |-> IF s \in ended THEN EmptyRequest
                                                     ELSE new[s]]
      /\ free_requests' = free_requests \cup ended
      /\ free_residents' = free_residents \cup
           ({requests[s].slot : s \in dropped} \ {None})
      /\ live_request_count' = live_request_count - Cardinality(ended)
                                                  - Cardinality(again)
      /\ log' = [r \in Requests |-> Emitted(r, new)]

Update(changed, Change(_)) ==
  [s \in Slots |-> IF s \in changed THEN Change(s) ELSE requests[s]]

SetFailed ==
  [failed |-> TRUE, open |-> FALSE,
   session |-> IF health.failed THEN health.session ELSE session]

-----------------------------------------------------------------------------
(***************************************************************************)
(* The pipeline client.  While it is down (`pipe' is its failed_status)    *)
(* every call ends all its transactions with that status, those without a  *)
(* result included; once all ranks are connected it publishes a new        *)
(* session, in which the ranks hold nothing.                               *)
(***************************************************************************)
Breaks == IF session = Sessions
          THEN {}
          ELSE {st \in {"IO_ERROR", "BUSY", "OTHER"} :
                  IF st = "IO_ERROR" THEN "DISCONNECT" \in Faults
                                     ELSE "PIPELINE" \in Faults}

Drain(status, failed) ==
  LET SubmissionOf(s) == submissions[CHOOSE b \in ActiveSubmissions :
                                       s \in submissions[b].lanes]
      lost == IF status = "IO_ERROR" THEN "LOST" ELSE status
  IN  /\ \E late \in SUBSET {s \in InflightSlots : requests[s].busy} :
           Settle(Update(InflightSlots,
                    LAMBDA s : Rejected(requests[s], SubmissionOf(s).kind,
                                 SubmissionOf(s).admitted, lost,
                                 SubmissionOf(s).span[s], s \in late, failed)),
                  {})
      /\ submissions' = [b \in Submissions |-> EmptySubmission]

Heal == /\ pipe' = "OK"
        /\ session' = session + 1
        /\ rank_slots' = [k \in ResidentSlots |-> None]
        /\ UNCHANGED setting

Recover(failed) ==
  \/ /\ pipe = "OK"
     /\ UNCHANGED <<tables, submissions, pipe, session, setting, rank_slots>>
  \/ /\ pipe # "OK"
     /\ Drain(pipe, failed)
     /\ Heal \/ UNCHANGED <<pipe, session, setting, rank_slots>>

-----------------------------------------------------------------------------

(***************************************************************************)
(* Calls of the client, between two calls of Progress.                     *)
(***************************************************************************)
Submit(r, s) ==
  /\ at = "OUT"
  /\ health.open
  /\ ~health.failed
  /\ s \in free_requests
  /\ ~log[r].accepted
  /\ requests' = [requests EXCEPT ![s] = [EmptyRequest EXCEPT
                    !.state = "QUEUED_PREFILL", !.id = r]]
  /\ free_requests' = free_requests \ {s}
  /\ live_request_count' = live_request_count + 1
  /\ log' = [log EXCEPT ![r].accepted = TRUE]
  /\ UNCHANGED <<free_residents, submissions, health, observed, at, pipe,
                 session, setting, rank_slots>>

Cancelled(r) ==
  CASE r.state \in Inflight -> [r EXCEPT !.cancel = TRUE]
    [] r.state = "QUEUED_RELEASE" -> [r EXCEPT !.terminal = "CANCELLED"]
    [] r.state \in Queued \ {"QUEUED_RELEASE"} ->
         QueueTerminal(r, "CANCELLED", health.failed)
    [] OTHER -> r

Cancel(s) ==
  /\ at = "OUT"
  /\ requests[s].state # "FREE"
  /\ Settle(Update({s}, LAMBDA x : Cancelled(requests[x])), {})
  /\ UNCHANGED <<submissions, health, observed, at, pipe, session, setting,
                 rank_slots>>

BeginShutdown ==
  /\ at = "OUT"
  /\ health' = [health EXCEPT !.open = FALSE]
  /\ Settle(Update(Slots, LAMBDA s : Cancelled(requests[s])), {})
  /\ UNCHANGED <<submissions, observed, at, pipe, session, setting,
                 rank_slots>>

CloseAdmission ==
  /\ at = "OUT"
  /\ health' = [health EXCEPT !.open = FALSE]
  /\ UNCHANGED <<tables, submissions, observed, at, pipe, session, setting,
                 rank_slots>>


ReopenAdmission ==
  /\ at = "OUT"
  /\ health.failed => session # health.session
  /\ health' = [health EXCEPT !.open = TRUE, !.failed = FALSE]
  /\ Recover(FALSE)
  /\ UNCHANGED <<observed, at>>

-----------------------------------------------------------------------------
(***************************************************************************)
(* SparkModelBatchEngineProgress, up to the pipeline's own progress.       *)
(***************************************************************************)
BeginProgress ==
  /\ at = "OUT"
  /\ at' = "SESSION"
  /\ Recover(health.failed)
  /\ UNCHANGED <<health, observed>>


SameSession ==
  /\ at = "SESSION"
  /\ observed \in {0, session}
  /\ observed' = session
  /\ at' = "PIPE"
  /\ UNCHANGED <<tables, submissions, health, pipe, session, setting,
                 rank_slots>>

InvalidateEngineSession ==
  /\ at = "SESSION"
  /\ observed \notin {0, session}
  /\ ActiveSubmissions = {}
  /\ Settle(Update(Slots, LAMBDA s : Invalidated(requests[s])), {})
  /\ \/ /\ observed' = session
        /\ at' = "PIPE"
        /\ UNCHANGED health
     \/ /\ "INDEX" \in Faults
        /\ at' = "OUT"
        /\ health' = SetFailed
        /\ UNCHANGED observed
  /\ UNCHANGED <<submissions, pipe, session, setting, rank_slots>>

(***************************************************************************)
(* Work of the old session must not be in flight any more.  If it is, the  *)
(* engine fails and returns without a call to the pipeline.                *)
(***************************************************************************)
RefuseInvalidation ==
  /\ at = "SESSION"
  /\ observed \notin {0, session}
  /\ ActiveSubmissions # {}
  /\ at' = "OUT"
  /\ health' = SetFailed
  /\ UNCHANGED <<tables, submissions, observed, pipe, session, setting,
                 rank_slots>>

-----------------------------------------------------------------------------
(***************************************************************************)
(* The pipeline's progress: the results and completions of the ranks.      *)
(***************************************************************************)
InPipe(b) == /\ at = "PIPE"
             /\ pipe = "OK"
             /\ b \in ActiveSubmissions

RanksAccept(b) ==
  \A s \in submissions[b].lanes :
    rank_slots[requests[s].slot] \in {None, requests[s].id}

(***************************************************************************)
(* The slots the ranks hold once the lanes `ran' of submission b have run. *)
(***************************************************************************)
RankSlotsAfter(b, ran) ==
  [k \in ResidentSlots |->
     IF \E s \in ran : requests[s].slot = k
     THEN CASE submissions[b].kind \in {"PREFILL", "DECODE"} ->
                 requests[CHOOSE s \in ran : requests[s].slot = k].id
            [] submissions[b].kind = "RELEASE" -> None
            [] OTHER -> rank_slots[k]
     ELSE rank_slots[k]]

SubmitResult(b) ==
  /\ InPipe(b)
  /\ ~submissions[b].admitted
  /\ RanksAccept(b)
  /\ submissions' = [submissions EXCEPT ![b].admitted = TRUE]
  /\ UNCHANGED <<tables, health, observed, at, pipe, session, setting,
                 rank_slots>>

(***************************************************************************)
(* What the ranks may answer, and whether they may do so for longer than   *)
(* the in-flight budget.                                                   *)
(***************************************************************************)
RefusalStatuses == {"BUSY", "CAPACITY", "OTHER", "UNKNOWN"}

Refusals(b) ==
  LET release == submissions[b].kind = "RELEASE"
  IN  {st \in RefusalStatuses :
         CASE st = "BUSY" -> "REFUSE" \in Faults \/
                             (release /\ "SLOT_HELD" \in Faults)
           [] st = "CAPACITY" -> "REFUSE" \in Faults /\ ~release
           [] st = "OTHER" -> ~RanksAccept(b) \/
                              ("REFUSE" \in Faults /\ ~release)
           [] st = "UNKNOWN" -> "APPLY" \in Faults}

MayBeLate(b) == {s \in submissions[b].lanes :
                   /\ requests[s].busy
                   /\ submissions[b].kind # "RELEASE" \/ "SLOT_HELD" \in Faults}

(***************************************************************************)
(* Submission b is refused, or fails after it was admitted: its completion *)
(* carries the failure.  Some of an admitted wave may have run.            *)
(***************************************************************************)
HandleRejected(b, status) ==
  LET w == submissions[b]
  IN  /\ InPipe(b)
      /\ status \in Refusals(b)
      /\ \E late \in SUBSET MayBeLate(b) :
           Settle(Update(w.lanes,
                    LAMBDA s : IF status = "UNKNOWN"
                               THEN QueueTerminal(requests[s], "ERROR", TRUE)
                               ELSE Rejected(requests[s], w.kind, w.admitted,
                                      status, w.span[s], s \in late,
                                      health.failed)),
                  {})
      /\ health' = IF status = "UNKNOWN" THEN SetFailed ELSE health
      /\ \E ran \in SUBSET w.lanes :
           /\ ran # {} => w.admitted
           /\ rank_slots' = RankSlotsAfter(b, ran)
      /\ submissions' = [submissions EXCEPT ![b] = EmptySubmission]
      /\ UNCHANGED <<observed, at, pipe, session, setting>>

(***************************************************************************)
(* The wave is refused because a prefix it relies on is gone on the ranks. *)
(***************************************************************************)
RequeueStaleWave(b) ==
  LET w == submissions[b]
      carriers == {s \in w.lanes : CarriesPrefix(requests[s])}
  IN  /\ InPipe(b)
      /\ "STALE" \in Faults
      /\ w.kind = "PREFILL"
      /\ ~w.admitted
      /\ carriers # {}
      /\ \E fits \in BOOLEAN :
           Settle(Update(w.lanes,
                    LAMBDA s : Requeued(requests[s], Cardinality(carriers) > 1,
                                        fits, health.failed)),
                  {})
      /\ submissions' = [submissions EXCEPT ![b] = EmptySubmission]
      /\ UNCHANGED <<health, observed, at, pipe, session, setting,
                     rank_slots>>

(***************************************************************************)
(* What a completion brings for a lane.  A chained decode stops at the     *)
(* first token after which the request does not go on.                     *)
(***************************************************************************)
Yields(kind) ==
  [tokens : IF kind = "DECODE" THEN 1 .. Chain ELSE {1},
   stop : IF kind \in {"PREFILL", "DECODE"} THEN BOOLEAN ELSE {FALSE},
   cancel : IF kind \in {"PREFILL", "DECODE"} THEN BOOLEAN ELSE {FALSE},
   publish : IF kind = "DECODE" THEN BOOLEAN ELSE {FALSE}]

Possible(r, yield) == /\ r.generated + yield.tokens <= Budget
                      /\ r.cancel => yield.tokens = 1

ApplyCompletion(b) ==
  LET w == submissions[b]
  IN  /\ InPipe(b)
      /\ w.admitted
      /\ \E yield \in [w.lanes -> Yields(w.kind)] :
           /\ w.kind \in {"PREFILL", "DECODE"} =>
                \A s \in w.lanes : Possible(requests[s], yield[s])
           /\ Settle(Update(w.lanes,
                       LAMBDA s : Applied(requests[s], w.kind, w.span[s],
                                          yield[s], health.failed)),
                     {})
      /\ rank_slots' = RankSlotsAfter(b, w.lanes)
      /\ submissions' = [submissions EXCEPT ![b] = EmptySubmission]
      /\ UNCHANGED <<health, observed, at, pipe, session, setting>>

(***************************************************************************)
(* Mutation: the lanes of the failed wave are left as they were.           *)
(***************************************************************************)
ApplyFailsForgets(b) ==
  /\ InPipe(b)
  /\ "APPLY" \in Faults
  /\ submissions[b].admitted
  /\ health' = SetFailed
  /\ submissions' = [submissions EXCEPT ![b] = EmptySubmission]
  /\ UNCHANGED <<tables, observed, at, pipe, session, setting, rank_slots>>

(***************************************************************************)
(* The completion cannot be applied to some lane: the lanes before it have *)
(* been served, then the engine fails and all lanes of the wave with it.   *)
(* A lane that had ended already is freed a second time.                   *)
(***************************************************************************)
ApplyFails(b) ==
  LET w == submissions[b]
  IN  /\ InPipe(b)
      /\ "APPLY" \in Faults
      /\ w.admitted
      /\ w.kind # "RELEASE"
      /\ \E served \in SUBSET w.lanes \ {w.lanes} :
         \E yield \in [served -> Yields(w.kind)] :
           LET Serve(s) == Applied(requests[s], w.kind, w.span[s], yield[s],
                                   health.failed)
               again == {s \in served : Serve(s).state = "ENDED"}
           IN  /\ \A s \in served : Possible(requests[s], yield[s])
               /\ Settle(Update(w.lanes,
                           LAMBDA s : IF s \in again THEN Serve(s)
                                      ELSE QueueTerminal(
                                             IF s \in served THEN Serve(s)
                                                             ELSE requests[s],
                                             "ERROR", TRUE)),
                         again)
      /\ health' = SetFailed
      /\ rank_slots' = RankSlotsAfter(b, w.lanes)
      /\ submissions' = [submissions EXCEPT ![b] = EmptySubmission]
      /\ UNCHANGED <<observed, at, pipe, session, setting>>

(***************************************************************************)
(* The pipeline's progress ends: nothing more to read, a connection breaks *)
(* or the pipeline was down from the start.  In the last case the ranks    *)
(* may all be back by now (LATE_HEAL).                                     *)
(***************************************************************************)
PipelineIdle ==
  /\ at = "PIPE"
  /\ pipe = "OK"
  /\ at' = "RETURN"
  /\ UNCHANGED <<tables, submissions, health, observed, pipe, session,
                 setting, rank_slots>>

PipelineBreaks ==
  /\ at = "PIPE"
  /\ pipe = "OK"
  /\ \E status \in Breaks : /\ pipe' = status
                            /\ Drain(status, health.failed)
  /\ at' = "RETURN"
  /\ UNCHANGED <<health, observed, session, setting, rank_slots>>

PipelineDown ==
  /\ at = "PIPE"
  /\ pipe # "OK"
  /\ Drain(pipe, health.failed)
  /\ \/ "LATE_HEAL" \in Faults /\ Heal
     \/ UNCHANGED <<pipe, session, setting, rank_slots>>
  /\ at' = "RETURN"
  /\ UNCHANGED <<health, observed>>

-----------------------------------------------------------------------------
(***************************************************************************)
(* SparkModelBatchEngineProgress after the pipeline's progress.            *)
(***************************************************************************)
QueuedSlots == {s \in Slots : requests[s].state \in Queued}

FailIdleRequests ==
  Settle(Update(QueuedSlots,
                LAMBDA s : QueueTerminal(requests[s], "ERROR", TRUE)), {})

ReturnLost ==
  /\ at = "RETURN"
  /\ pipe = "IO_ERROR"
  /\ at' = "OUT"
  /\ UNCHANGED <<tables, submissions, health, observed, pipe, session,
                 setting, rank_slots>>

ReturnFailed ==
  /\ at = "RETURN"
  /\ pipe # "IO_ERROR"
  /\ pipe # "OK" \/ health.failed
  /\ health' = IF pipe # "OK" THEN SetFailed ELSE health
  /\ FailIdleRequests
  /\ at' = "OUT"
  /\ UNCHANGED <<submissions, observed, pipe, session, setting, rank_slots>>

(***************************************************************************)
(* RefreshContextLimit fails the queued requests that no longer fit,       *)
(* ExpireStalledRequests tells the client of a request that has been in    *)
(* flight for too long and leaves the request to its submission.           *)
(***************************************************************************)
Tick ==
  /\ at = "RETURN"
  /\ pipe = "OK"
  /\ ~health.failed
  /\ \E long \in SUBSET (IF "LIMIT" \in Faults THEN QueuedSlots ELSE {}) :
     \E stalled \in SUBSET {s \in Slots :
          /\ "EXPIRE" \in Faults
          /\ requests[s].state \in {"PREFILL_INFLIGHT", "DECODE_INFLIGHT"}
          /\ ~requests[s].expired} :
       Settle(Update(long \cup stalled,
                LAMBDA s : IF s \in long
                           THEN QueueTerminal(requests[s], "ERROR", FALSE)
                           ELSE [requests[s] EXCEPT !.expired = TRUE,
                                                    !.cancel = TRUE]),
              {})
  /\ at' = "DISPATCH"
  /\ UNCHANGED <<submissions, health, observed, pipe, session, setting,
                 rank_slots>>

-----------------------------------------------------------------------------
(***************************************************************************)
(* Dispatch.  RefreshQueuedPrefix looks a request up in the prefix index   *)
(* before its first wave: a hit of `n' blocks counts as computed.  The     *)
(* choice of the lanes is left open; an isolated prefix goes alone.        *)
(***************************************************************************)
RefreshQueuedPrefix(r, n) ==
  IF r.computed = 0 THEN [r EXCEPT !.computed = n, !.prefix = n] ELSE r

RequestIsIsolated(r) == r.isolated /\ CarriesPrefix(r)

(***************************************************************************)
(* The lanes of a wave once they are selected: a PREFILL lane has its      *)
(* prefix looked up and a resident slot of its own.                        *)
(***************************************************************************)
Selections(kind, lanes) ==
  LET unbound == {s \in lanes : requests[s].slot = None}
      fresh == {s \in lanes : requests[s].computed = 0}
      Injective(f) == \A s1, s2 \in unbound : f[s1] = f[s2] => s1 = s2
  IN  IF kind # "PREFILL"
      THEN {[s \in lanes |-> requests[s]]}
      ELSE {[s \in lanes |->
               [RefreshQueuedPrefix(requests[s], hit[s]) EXCEPT
                  !.slot = IF s \in unbound THEN bind[s] ELSE @]] :
              hit \in [lanes -> 0 .. Prompt - 1],
              bind \in {f \in [unbound -> free_residents] : Injective(f)}}

(***************************************************************************)
(* The spans a wave may give its PREFILL lanes.                            *)
(***************************************************************************)
Spans(kind, selected) ==
  {span \in [Slots -> 0 .. Prompt] :
     \A s \in Slots :
       IF s \in DOMAIN selected /\ kind = "PREFILL"
       THEN /\ span[s] \in 1 .. Prompt - selected[s].computed
            /\ selected[s].span_limit # 0 => span[s] <= selected[s].span_limit
       ELSE span[s] = 0}

Select(kind, lanes, selected, state) ==
  /\ at = "DISPATCH"
  /\ pipe = "OK"
  /\ lanes # {}
  /\ Cardinality(lanes) <= MaxLanes
  /\ \A s \in lanes : requests[s].state = StateForWork[kind]
  /\ (kind = "PREFILL" /\ \E s \in lanes : RequestIsIsolated(selected[s]))
       => Cardinality(lanes) = 1
  /\ requests' = Update(lanes, LAMBDA s : [selected[s] EXCEPT !.state = state])
  /\ free_residents' = free_residents \ {selected[s].slot : s \in lanes}
  /\ UNCHANGED <<free_requests, live_request_count, log>>

DispatchKind(b, kind, lanes) ==
  /\ b \in Submissions \ ActiveSubmissions
  /\ \E selected \in Selections(kind, lanes) :
       /\ Select(kind, lanes, selected, InflightStateForWork[kind])
       /\ \E span \in Spans(kind, selected) :
            submissions' = [submissions EXCEPT ![b] =
              [active |-> TRUE, kind |-> kind, lanes |-> lanes, span |-> span,
               admitted |-> FALSE]]
  /\ pipe' \in {"OK"} \cup Breaks
  /\ UNCHANGED <<health, observed, at, session, setting, rank_slots>>

(***************************************************************************)
(* The pipeline does not take the wave: the resident slots stay with the   *)
(* requests and the engine tries again in a later Progress, ...            *)
(***************************************************************************)
DispatchBusy(kind, lanes) ==
  /\ "REFUSE" \in Faults
  /\ \E selected \in Selections(kind, lanes) :
       Select(kind, lanes, selected, StateForWork[kind])
  /\ at' = "OUT"
  /\ UNCHANGED <<submissions, health, observed, pipe, session, setting,
                 rank_slots>>

(***************************************************************************)
(* ... or, when the pipeline finds the wave invalid, fails.                *)
(***************************************************************************)
DispatchInvalid ==
  /\ at = "DISPATCH"
  /\ pipe = "OK"
  /\ "PIPELINE" \in Faults
  /\ QueuedSlots # {}
  /\ health' = SetFailed
  /\ FailIdleRequests
  /\ at' = "OUT"
  /\ UNCHANGED <<submissions, observed, pipe, session, setting, rank_slots>>

PrefixLookupFails(s) ==
  /\ at = "DISPATCH"
  /\ pipe = "OK"
  /\ "INDEX" \in Faults
  /\ requests[s].state = "QUEUED_PREFILL"
  /\ requests[s].computed = 0
  /\ Settle(Update({s}, LAMBDA x : QueueTerminal(requests[x], "ERROR",
                                                 health.failed)), {})
  /\ UNCHANGED <<submissions, health, observed, at, pipe, session, setting,
                 rank_slots>>

DispatchEnd ==
  /\ at = "DISPATCH"
  /\ at' = "OUT"
  /\ UNCHANGED <<tables, submissions, health, observed, pipe, session,
                 setting, rank_slots>>

-----------------------------------------------------------------------------
ClientStep ==
  \/ \E r \in Requests, s \in Slots : Submit(r, s)
  \/ \E s \in Slots : Cancel(s)
  \/ BeginShutdown
  \/ CloseAdmission
  \/ ReopenAdmission

PipelineStep ==
  \/ \E b \in AllSubmissions :
       \/ SubmitResult(b)
       \/ \E status \in RefusalStatuses : HandleRejected(b, status)
       \/ RequeueStaleWave(b)
       \/ ApplyCompletion(b)
       \/ ApplyFails(b)
  \/ PipelineBreaks

DispatchStep ==
  \/ \E kind \in Kinds, lanes \in SUBSET Slots :
       \/ \E b \in AllSubmissions : DispatchKind(b, kind, lanes)
       \/ DispatchBusy(kind, lanes)
  \/ DispatchInvalid
  \/ \E s \in Slots : PrefixLookupFails(s)

(***************************************************************************)
(* The steps that take the engine's thread through Progress.               *)
(***************************************************************************)
EngineStep ==
  \/ BeginProgress
  \/ SameSession
  \/ InvalidateEngineSession
  \/ RefuseInvalidation
  \/ PipelineIdle
  \/ PipelineDown
  \/ ReturnLost
  \/ ReturnFailed
  \/ Tick
  \/ DispatchEnd

Next == ClientStep \/ PipelineStep \/ DispatchStep \/ EngineStep

Spec == Init /\ [][Next]_vars

(***************************************************************************)
(* Fairness.  The engine's owner calls Progress again and again; ranks     *)
(* that keep answering do not refuse a wave for ever, and run what they    *)
(* admit; lost ranks come back, and when a Progress begins all are back    *)
(* at some time; the scheduler's ages give every request its turn.         *)
(***************************************************************************)
Fairness ==
  /\ WF_vars(EngineStep)
  /\ SF_vars(BeginProgress /\ session' # session)
  /\ \A b \in AllSubmissions : /\ SF_vars(SubmitResult(b))
                               /\ SF_vars(ApplyCompletion(b))
  /\ \A s \in Slots :
       SF_vars(\E b \in AllSubmissions, kind \in Kinds, lanes \in SUBSET Slots :
                 s \in lanes /\ DispatchKind(b, kind, lanes))

FairSpec == Spec /\ Fairness

-----------------------------------------------------------------------------
(***************************************************************************)
(* Properties.                                                             *)
(***************************************************************************)
\* Every variable keeps its type.
TypeOK ==
  /\ requests \in [Slots -> Request]
  /\ free_requests \in SUBSET Slots
  /\ free_residents \in SUBSET ResidentSlots
  /\ live_request_count \in Int
  /\ submissions \in [Submissions -> Submission]
  /\ health \in [failed : BOOLEAN, open : BOOLEAN, session : 0 .. Sessions]
  /\ observed \in 0 .. Sessions
  /\ at \in {"OUT", "SESSION", "PIPE", "RETURN", "DISPATCH"}
  /\ pipe \in {"OK", "IO_ERROR", "BUSY", "OTHER"}
  /\ session \in 1 .. Sessions
  /\ rank_slots \in [ResidentSlots -> Requests \cup {None}]
  /\ log \in [Requests -> [accepted : BOOLEAN, tokens : Nat, ended : Seq(Ends)]]

\* Between steps the free list holds exactly the free request slots and
\* live_request_count counts the others, whatever path freed them.
SlotAccounting ==
  /\ free_requests = {s \in Slots : requests[s].state = "FREE"}
  /\ live_request_count = Cardinality(Slots \ free_requests)

\* A request is in an in-flight state exactly while one active submission, of
\* the kind its state names, has it as a lane: no completion finds a lane that
\* has been freed or given to another request, and no request waits for a
\* submission that is gone.
WaveOwnership ==
  /\ \A b \in ActiveSubmissions : \A s \in submissions[b].lanes :
       requests[s].state = InflightStateForWork[submissions[b].kind]
  /\ \A b1, b2 \in ActiveSubmissions :
       b1 # b2 => submissions[b1].lanes \cap submissions[b2].lanes = {}
  /\ \A s \in Slots : requests[s].state \in Inflight => s \in InflightSlots

\* An accepted request is never lost and never told two endings: until its
\* client has been given a terminal event exactly one request slot holds it
\* and will give one, and after that none does.
NoLostRequest ==
  \A r \in Requests :
    LET holders == {s \in Slots : requests[s].id = r}
        silent == {s \in holders : requests[s].expired}
    IN  /\ Cardinality(holders) <= 1
        /\ Len(log[r].ended) <= 1
        /\ (log[r].accepted /\ log[r].ended = <<>>) <=> (holders # silent)

\* A response that has emitted tokens is never prefilled again, so that its
\* tokens are never replayed, in this session or the next.
NoReplay ==
  \A s \in Slots :
    requests[s].state \in {"QUEUED_PREFILL", "PREFILL_INFLIGHT"}
      => log[requests[s].id].tokens = 0



\* Every accepted request ends: its client gets a terminal event and its
\* request slot is free again.
EveryRequestEnds ==
  \A r \in Requests :
    log[r].accepted ~> /\ log[r].ended # <<>>
                       /\ \A s \in Slots : requests[s].id # r
=============================================================================
