------------------------------ MODULE Notices ------------------------------
(***************************************************************************)
(* Notices of tools/sparkpipe_pay.py and tools/sparkpipe_market.py: an     *)
(* event of a hub, or an operator's command, writes a notice to the journal*)
(* and hands it to the Notifier, whose workers post it to the account's    *)
(* webhooks, again after a failure, and write the outcome to the journal of*)
(* deliveries.  The heap and `known' are in memory: what a stop leaves     *)
(* without an outcome is found again in the two journals (Notifier.sweep). *)
(*                                                                         *)
(* A notice is known by what it is about: an event's id with its Fleet (the*)
(* `once' key), or a run of a command.  Delays, mail, signatures and the   *)
(* days after which the files are deleted are left out; a torn last line is*)
(* cut before the next is written, so a line is there whole or not at all. *)
(***************************************************************************)
EXTENDS Integers, Sequences

CONSTANTS
  Events,       \* the events of the hub
  Announced,    \* the notices of operator's commands
  Hooks,        \* the webhooks
  Workers,      \* the threads of Notifier.run
  Reports,      \* the threads that serve the hub's reports
  Retries,      \* the length of RETRY_SECONDS
  MaxStops      \* how often the service stops

ASSUME NoticeAssumption ==
  /\ Retries \in Nat /\ MaxStops \in Nat /\ Events \cap Announced = {}

VARIABLES
  journal,      \* notices/: the notices, in order
  outcomes,     \* deliveries/: what became of a notice at a webhook
  hooks,        \* webhooks.json
  heap,         \* Notifier.heap: the deliveries to be tried
  knownPairs,   \* Notifier.known
  busy,         \* what each worker is delivering
  report,       \* where each thread is with an event
  acked,        \* the events whose report was answered
  sweeping,     \* what the sweep has still to look at, and what it found due
  up,           \* the service runs
  stopped       \* how often it has stopped

noticeVars == <<journal, outcomes, hooks, heap, knownPairs, busy, report, acked,
                sweeping, up, stopped>>
memory == <<heap, knownPairs, busy, report, sweeping>>

Nothing == [stage |-> "nothing"]
NoSweep == [left |-> {}, due |-> {}]
Written == {journal[i] : i \in DOMAIN journal}
\* Mutation: the `once' key is remembered with the answer.
SentAnswered(x) == x \in acked

Sent(x) == \E n \in Written : n.about = x
PairsOf(n) == {<<n.about, h>> : h \in n.targets}

-----------------------------------------------------------------------------
\* hub_event: the `once' key is looked for and the notice written under
\* Book.lock; then it is scheduled for each target.
Notice(x) == [about |-> x, targets |-> hooks]

Report(t, x) ==
  /\ up /\ report[t] = Nothing /\ x \notin acked
  /\ \A u \in Reports : report[u].stage # "schedule"
  /\ IF Sent(x)
     THEN acked' = acked \cup {x} /\ UNCHANGED <<journal, report>>
     ELSE /\ journal' = Append(journal, Notice(x))
          /\ report' = [report EXCEPT ![t] = [stage |-> "schedule", about |-> x,
                                              targets |-> hooks]]
          /\ UNCHANGED acked
  /\ UNCHANGED <<outcomes, hooks, heap, knownPairs, busy, sweeping, up, stopped>>

\* Notifier.schedule
Scheduled(pair, attempt) ==
  /\ knownPairs' = knownPairs \cup {pair}
  /\ heap' = Append(heap, [pair |-> pair, attempt |-> attempt])

Notified(t) ==
  /\ report[t].stage = "schedule"
  /\ \/ \E h \in report[t].targets :
          /\ Scheduled(<<report[t].about, h>>, 0)
          /\ report' = [report EXCEPT ![t].targets = @ \ {h}]
          /\ UNCHANGED acked
     \/ /\ report[t].targets = {}
        /\ report' = [report EXCEPT ![t] = Nothing]
        /\ acked' = acked \cup {report[t].about}
        /\ UNCHANGED <<heap, knownPairs>>
  /\ UNCHANGED <<journal, outcomes, hooks, busy, sweeping, up, stopped>>

\* A command writes its notice and exits; nothing of its own heap is delivered.
Announce(x) ==
  /\ ~Sent(x)
  /\ journal' = Append(journal, Notice(x))
  /\ UNCHANGED <<outcomes, hooks, acked, up, stopped, memory>>

-----------------------------------------------------------------------------
\* Notifier.run and attempt.
Removed(s, i) == SubSeq(s, 1, i - 1) \o SubSeq(s, i + 1, Len(s))

TakeDelivery(w) ==
  /\ busy[w] = Nothing
  /\ \E i \in DOMAIN heap :
       /\ busy' = [busy EXCEPT ![w] = [stage |-> "posting", item |-> heap[i]]]
       /\ heap' = Removed(heap, i)
  /\ UNCHANGED <<journal, outcomes, hooks, knownPairs, report, acked, sweeping, up,
                 stopped>>

Outcome(hook, answered) ==
  IF ~hook THEN "deleted" ELSE IF answered THEN "delivered" ELSE "failed"

Again(hook, answered, attempt) == hook /\ ~answered /\ attempt < Retries

Attempt(w, answered) ==
  LET item == busy[w].item
      hook == item.pair[2] \in hooks
  IN /\ busy[w].stage = "posting"
     /\ busy' = [busy EXCEPT ![w] = Nothing]
     /\ IF Again(hook, answered, item.attempt)
        THEN Scheduled(item.pair, item.attempt + 1) /\ UNCHANGED outcomes
        ELSE /\ outcomes' = outcomes \cup {[pair |-> item.pair,
                                            outcome |-> Outcome(hook, answered)]}
             /\ UNCHANGED <<heap, knownPairs>>
     /\ UNCHANGED <<journal, hooks, report, acked, sweeping, up, stopped>>

-----------------------------------------------------------------------------
\* Mutation: the sweep comes with a start only.
SweepReadsAtStart == FALSE /\ UNCHANGED noticeVars

\* Notifier.sweep: on a start, and with every housekeeping.  A pair is looked
\* up, and scheduled in a step of its own.
SweepReads ==
  /\ up /\ sweeping = NoSweep /\ journal # <<>>
  /\ sweeping' = [left |-> UNION {PairsOf(n) : n \in Written}, due |-> {}]
  /\ UNCHANGED <<journal, outcomes, hooks, heap, knownPairs, busy, report, acked, up,
                 stopped>>

IsDue(pair) == pair \notin knownPairs /\ pair[2] \in hooks

SweepLooks ==
  /\ sweeping.due = {}
  /\ \E pair \in sweeping.left :
       sweeping' = [left |-> sweeping.left \ {pair},
                    due |-> IF IsDue(pair) THEN {pair} ELSE {}]
  /\ UNCHANGED <<journal, outcomes, hooks, heap, knownPairs, busy, report, acked, up,
                 stopped>>

SweepSchedules ==
  /\ \E pair \in sweeping.due : Scheduled(pair, 0)
  /\ sweeping' = [sweeping EXCEPT !.due = {}]
  /\ UNCHANGED <<journal, outcomes, hooks, busy, report, acked, up, stopped>>

-----------------------------------------------------------------------------
\* The account deletes a webhook.
HookDelete(h) ==
  /\ up /\ h \in hooks
  /\ hooks' = hooks \ {h}
  /\ UNCHANGED <<journal, outcomes, acked, up, stopped, memory>>

\* What is in memory is lost, and what the hub was not answered it reports again.
StopService ==
  /\ up /\ stopped < MaxStops
  /\ up' = FALSE /\ stopped' = stopped + 1
  /\ heap' = <<>> /\ knownPairs' = {} /\ sweeping' = NoSweep
  /\ busy' = [w \in Workers |-> Nothing]
  /\ report' = [t \in Reports |-> Nothing]
  /\ UNCHANGED <<journal, outcomes, hooks, acked>>

\* Notifier.__init__ reads the outcomes; start then sweeps.
WithOutcome == {o.pair : o \in outcomes}

\* Mutation: every notice of the journal is taken to be in hand.
StartNotifierKnowing ==
  /\ ~up /\ up' = TRUE
  /\ knownPairs' = UNION {PairsOf(n) : n \in Written}
  /\ sweeping' = NoSweep
  /\ UNCHANGED <<journal, outcomes, hooks, heap, busy, report, acked, stopped>>

StartNotifier ==
  /\ ~up /\ up' = TRUE
  /\ knownPairs' = WithOutcome
  /\ sweeping' = [left |-> UNION {PairsOf(n) : n \in Written}, due |-> {}]
  /\ UNCHANGED <<journal, outcomes, hooks, heap, busy, report, acked, stopped>>

NoticeInit ==
  /\ journal = <<>> /\ outcomes = {} /\ hooks = Hooks /\ heap = <<>> /\ knownPairs = {}
  /\ busy = [w \in Workers |-> Nothing] /\ report = [t \in Reports |-> Nothing]
  /\ acked = {} /\ sweeping = NoSweep /\ up = TRUE /\ stopped = 0

Post(w) == \E answered \in BOOLEAN : Attempt(w, answered)
Sweeps == SweepReads \/ SweepLooks \/ SweepSchedules

NoticeNext ==
  \/ \E t \in Reports : Notified(t) \/ \E x \in Events : Report(t, x)
  \/ \E x \in Announced : Announce(x)
  \/ \E w \in Workers : TakeDelivery(w) \/ Post(w)
  \/ Sweeps
  \/ \E h \in Hooks : HookDelete(h)
  \/ StopService \/ StartNotifier

\* The hub sends an event until it is answered, the threads run, the service is
\* started again and the sweep comes every five minutes.
NoticeFairness ==
  /\ \A t \in Reports : WF_noticeVars(Notified(t))
  /\ \A x \in Events : WF_noticeVars(\E t \in Reports : Report(t, x))
  /\ \A w \in Workers : WF_noticeVars(TakeDelivery(w)) /\ WF_noticeVars(Post(w))
  /\ WF_noticeVars(Sweeps) /\ WF_noticeVars(StartNotifier)

NoticeSpec == NoticeInit /\ [][NoticeNext]_noticeVars
NoticeFairSpec == NoticeSpec /\ NoticeFairness

-----------------------------------------------------------------------------
InWork ==
  {heap[i].pair : i \in DOMAIN heap}
    \cup {busy[w].item.pair : w \in {v \in Workers : busy[v] # Nothing}}

\* Notifier: a delivery the service believes to be in hand has an outcome or is
\* in the heap or with a worker, so that what the sweep passes over is not lost.
KnownIsBacked == up => knownPairs \subseteq WithOutcome \cup InWork

\* Journal.sent, hub_event: an event makes one notice, though it is reported by
\* several threads, again after a lost answer, and across a stop; and what was
\* answered has its notice.
OneNoticePerEvent ==
  /\ \A i, j \in DOMAIN journal : journal[i].about = journal[j].about => i = j
  /\ \A x \in acked : Sent(x)

\* Notifier.sweep: every notice, an operator's command's included, has an
\* outcome in the end at every webhook that stays.
EveryNoticeEnds ==
  \A x \in Events \cup Announced, h \in Hooks :
    (Sent(x) /\ \E n \in Written : n.about = x /\ h \in n.targets)
      ~> (<<x, h>> \in WithOutcome \/ h \notin hooks)

=============================================================================
