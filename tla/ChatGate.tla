------------------------------ MODULE ChatGate ------------------------------
(***************************************************************************)
(* How the chat layer admits requests to one model: the sequence gate      *)
(* (SequenceGate), the admission of a request around it                    *)
(* (Frontend.admitted) and what ends a request early: its client leaves,   *)
(* DELETE /v1/requests cancels it (LiveRequest), or a public key's wait    *)
(* runs out.  Every step between two awaits of the event loop is one       *)
(* action, so a slot granted to a request that has already been cancelled, *)
(* but has not yet heard of either, is a state of this model.              *)
(***************************************************************************)
EXTENDS Integers, Sequences, SequencesExt, FiniteSets

CONSTANTS
  Asks,        \* requests
  SeqSlots,    \* SequenceGate.sequences: replies the engine runs at once
  Reserve,     \* INTERACTIVE_RESERVE: slots only interactive requests take
  ShareNum,    \* FAIR_SHARE = ShareNum / ShareDen of the slots is the most
  ShareDen,    \*   one scope takes while another one waits
  Rushes,      \* sets of requests to try: functions from Asks to the record
               \*   [urgent, scope, member, timed]
  MaxQuits     \* bound on the requests deleted plus the clients gone

ASSUME GateAssumption ==
  /\ IsFiniteSet(Asks)
  /\ {SeqSlots, Reserve, ShareNum, MaxQuits} \subseteq Nat
  /\ SeqSlots > 0
  /\ ShareDen \in Nat \ {0}

VARIABLES
  gate,   \* SequenceGate: [used, held by scope, members, waiters in order]
  work,   \* work[a]: the task that runs acquire for a
  stage,  \* stage[a]: where the handler of a stands (admitted)
  stop,   \* requests whose `cancelled' event is set (DELETE)
  gone,   \* requests whose client has left: the handler was cancelled once
  rush    \* what is asked in this behaviour

gateVars == <<gate, work, stage, stop, gone, rush>>

Scopes == {rush[a].scope : a \in Asks}
Members == {<<rush[a].scope, rush[a].member>> : a \in Asks}
NoMember == "no member"
Of(a) == <<rush[a].scope, rush[a].member>>

Larger(a, b) == IF a >= b THEN a ELSE b

\* SequenceGate.limit and SequenceGate.share.
Limit(a) == IF rush[a].urgent THEN SeqSlots ELSE Larger(1, SeqSlots - Reserve)
Share == Larger(1, (SeqSlots * ShareNum) \div ShareDen)

\* SequenceGate.capped: the scope, or the member within its scope, holds its
\* share and somebody else in the pool waits.
Capped(g, a, pool) ==
  \/ /\ g.held[rush[a].scope] >= Share
     /\ \E b \in pool : rush[b].scope # rush[a].scope
  \/ /\ rush[a].member # NoMember
     /\ g.members[Of(a)] >= Share
     /\ \E b \in pool : /\ rush[b].scope = rush[a].scope
                        /\ rush[b].member # rush[a].member

Ready(g) == {a \in ToSet(g.waiters) : g.used < Limit(a)}

\* The waiter grant chooses among the ready ones: interactive before others,
\* the uncapped before the capped, then the scope and the member that hold
\* least, then the earliest arrival.
Chosen(g) ==
  LET ready == Ready(g)
      urgent == {a \in ready : rush[a].urgent}
      pool == IF urgent # {} THEN urgent ELSE ready
      free == {a \in pool : ~Capped(g, a, pool)}
      fair == IF free # {} THEN free ELSE pool
      place(a) == CHOOSE i \in DOMAIN g.waiters : g.waiters[i] = a
      before(a, b) ==
        LET ka == <<g.held[rush[a].scope], g.members[Of(a)], place(a)>>
            kb == <<g.held[rush[b].scope], g.members[Of(b)], place(b)>>
        IN \/ ka[1] < kb[1]
           \/ ka[1] = kb[1] /\ ka[2] < kb[2]
           \/ ka[1] = kb[1] /\ ka[2] = kb[2] /\ ka[3] <= kb[3]
  IN CHOOSE a \in fair : \A b \in fair : before(a, b)

\* SequenceGate.take.
TakeSlot(g, a) == [g EXCEPT !.used = @ + 1,
                        !.held[rush[a].scope] = @ + 1,
                        !.members[Of(a)] = @ + 1]

Without(g, a) == [g EXCEPT !.waiters = SelectSeq(@, LAMBDA b : b # a)]

GrantOne(g) == IF Ready(g) = {} THEN g
               ELSE Without(TakeSlot(g, Chosen(g)), Chosen(g))

\* SequenceGate.grant: one waiter after another until none is ready.
Grant(g) == FoldLeft(LAMBDA h, i : GrantOne(h), g,
                     [i \in 1 .. Len(g.waiters) |-> i])

\* SequenceGate.free.
FreeSlot(g, a) == Grant([g EXCEPT !.used = @ - 1,
                              !.held[rush[a].scope] = @ - 1,
                              !.members[Of(a)] = @ - 1])

-----------------------------------------------------------------------------
(* The task that runs acquire: fresh, waiting, and then done, refused      *)
(* (429), or cancelled.  `leaving' marks a task on which cancel() has been *)
(* called and that has not run since.                                      *)

Waits(a) == work[a] \in {"waiting", "leaving"}
Granted(a) == a \notin ToSet(gate.waiters)
Final == {"done", "refused", "cancelled"}

\* admitted: the request is tracked, and a task starts to run acquire.
ChatArrives(a) ==
  /\ stage[a] = "new"
  /\ stage' = [stage EXCEPT ![a] = "queued"]
  /\ work' = [work EXCEPT ![a] = "fresh"]
  /\ UNCHANGED <<gate, stop, gone, rush>>

\* acquire up to its await: join the waiters and grant.
Enqueue(a) ==
  /\ work[a] = "fresh"
  /\ gate' = Grant([gate EXCEPT !.waiters = Append(@, a)])
  /\ work' = [work EXCEPT ![a] = "waiting"]
  /\ UNCHANGED <<stage, stop, gone, rush>>

\* acquire returns: its future is done.  A timer that fires at the same time
\* changes nothing.
Acquired(a) ==
  /\ work[a] = "waiting" /\ Granted(a)
  /\ work' = [work EXCEPT ![a] = "done"]
  /\ UNCHANGED <<gate, stage, stop, gone, rush>>

\* acquire's TimeoutError: only a public key's wait is timed.
Busy429(a) ==
  /\ work[a] = "waiting" /\ ~Granted(a) /\ rush[a].timed
  /\ gate' = Grant(Without(gate, a))
  /\ work' = [work EXCEPT ![a] = "refused"]
  /\ UNCHANGED <<stage, stop, gone, rush>>

\* Mutation: a cancelled wait only leaves the queue, granted or not.
AfterCancelLeaky(g, a) == Grant(Without(g, a))

\* What acquire's CancelledError does to the gate.
AfterCancel(g, a) == IF a \in ToSet(g.waiters) THEN Grant(Without(g, a))
                     ELSE FreeSlot(g, a)

\* acquire's CancelledError.
AcquireCancelled(a) ==
  /\ work[a] = "leaving"
  /\ gate' = AfterCancel(gate, a)
  /\ work' = [work EXCEPT ![a] = "cancelled"]
  /\ UNCHANGED <<stage, stop, gone, rush>>

\* work.cancel(): a task that has not begun never does, one that waits is
\* woken with CancelledError, and a finished one is left alone.
CancelWork(a) ==
  work' = [work EXCEPT ![a] = CASE @ = "fresh" -> "cancelled"
                                [] @ = "waiting" -> "leaving"
                                [] OTHER -> @]

-----------------------------------------------------------------------------
(* The handler of a request: LiveRequest.until and withdraw, then answer.  *)

\* until sees that acquire has ended: the request is answered, or refused.
Admitted(a) ==
  /\ stage[a] = "queued" /\ work[a] \in {"done", "refused"}
  /\ stage' = [stage EXCEPT ![a] = IF work[a] = "done" THEN "answering" ELSE "ended"]
  /\ UNCHANGED <<gate, work, stop, gone, rush>>

\* until is woken by DELETE before acquire has ended.
StopsWaiting(a) ==
  /\ stage[a] = "queued" /\ a \in stop /\ work[a] \notin Final
  /\ stage' = [stage EXCEPT ![a] = "withdrawing"]
  /\ CancelWork(a)
  /\ UNCHANGED <<gate, stop, gone, rush>>

\* withdraw: an acquire that had succeeded after all gives its slot back.
WithdrawnGate(g, a) == IF work[a] = "done" THEN FreeSlot(g, a) ELSE g

\* withdraw's gather returns.
Withdrawn(a) ==
  /\ stage[a] = "withdrawing" /\ work[a] \in Final
  /\ gate' = WithdrawnGate(gate, a)
  /\ stage' = [stage EXCEPT ![a] = "ended"]
  /\ UNCHANGED <<work, stop, gone, rush>>

MayQuit == Cardinality(stop) + Cardinality(gone) < MaxQuits

\* The client's connection breaks and the server cancels the handler, which
\* hears of it in the wait, in the withdrawal or in the answer.
ClientGone(a) ==
  /\ stage[a] \in {"queued", "withdrawing", "answering"} /\ a \notin gone
  /\ MayQuit
  /\ gone' = gone \union {a}
  /\ stage' = [stage EXCEPT ![a] = IF @ = "queued" THEN "withdrawing" ELSE "ended"]
  /\ IF stage[a] = "answering"
       THEN gate' = FreeSlot(gate, a) /\ UNCHANGED work
       ELSE CancelWork(a) /\ UNCHANGED gate
  /\ UNCHANGED <<stop, rush>>

\* DELETE /v1/requests/a while the request is tracked.
Delete(a) ==
  /\ stage[a] \in {"queued", "withdrawing", "answering"} /\ a \notin stop
  /\ MayQuit
  /\ stop' = stop \union {a}
  /\ UNCHANGED <<gate, work, stage, gone, rush>>

\* The answer ends, by its last token or by an error.
AnswerEnds(a) ==
  /\ stage[a] = "answering"
  /\ gate' = FreeSlot(gate, a)
  /\ stage' = [stage EXCEPT ![a] = "ended"]
  /\ UNCHANGED <<work, stop, gone, rush>>

\* watch finds `cancelled' in its queue, put there by cancel() or by watch
\* itself when the event was already set.
Hears(a) == a \in stop

\* LiveRequest.watch raises: the reply is cut and its slot given back.
AnswerCut(a) == Hears(a) /\ AnswerEnds(a)

-----------------------------------------------------------------------------
GateInit ==
  /\ rush \in Rushes
  /\ gate = [used |-> 0, held |-> [s \in Scopes |-> 0],
             members |-> [m \in Members |-> 0], waiters |-> <<>>]
  /\ work = [a \in Asks |-> "none"]
  /\ stage = [a \in Asks |-> "new"]
  /\ stop = {} /\ gone = {}

AcquireStep(a) == Enqueue(a) \/ Acquired(a) \/ AcquireCancelled(a)
RequestStep(a) == \/ Admitted(a) \/ StopsWaiting(a) \/ Withdrawn(a)
                  \/ AnswerCut(a)

GateNext == \E a \in Asks :
              \/ ChatArrives(a) \/ AcquireStep(a) \/ RequestStep(a)
              \/ Busy429(a) \/ AnswerEnds(a) \/ ClientGone(a) \/ Delete(a)

GateSpec == GateInit /\ [][GateNext]_gateVars

-----------------------------------------------------------------------------

\* A request holds a slot from the grant until it is freed.
Holds(a) == \/ Waits(a) /\ Granted(a)
            \/ work[a] = "done" /\ stage[a] # "ended"
Holders == {a \in Asks : Holds(a)}

\* SequenceGate's three counters are exactly the slots in use: whatever order
\* a grant, a timeout, a DELETE and a broken connection arrive in, no slot is
\* lost and none is given back twice, and at most SeqSlots are out.
SlotsAccounted ==
  /\ gate.used = Cardinality(Holders)
  /\ \A s \in Scopes :
       gate.held[s] = Cardinality({a \in Holders : rush[a].scope = s})
  /\ \A m \in Members :
       gate.members[m] = Cardinality({a \in Holders : Of(a) = m})
  /\ gate.used <= SeqSlots

=============================================================================
