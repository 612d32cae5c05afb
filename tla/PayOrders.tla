----------------------------- MODULE PayOrders -----------------------------
(***************************************************************************)
(* The orders of tools/sparkpipe_pay.py: hour-credits (HC) bought through  *)
(* CoinPayments, through Toss Payments and by SWIFT, from the order to the *)
(* lot of HC, and the operator's commands.                                 *)
(*                                                                         *)
(* As in FleetMarket, `orders' is the replay of the whole ledger, known[p] *)
(* that of what the process p has read, and owed[p] the lines p still      *)
(* writes while it holds its Book.lock.  The threads of the service (the   *)
(* handlers of the success page and of new orders, and the work thread)    *)
(* ask the processors outside the lock and apply the answer under it: at[t]*)
(* is where thread t is, with the answer it holds.  A webhook only queues a*)
(* job, may be lost and may come late or twice.  A call may fail before or *)
(* after the processor has acted on it.                                    *)
(*                                                                         *)
(* An HC costs one unit, without VAT.  Mail is left out.                   *)
(***************************************************************************)
EXTENDS Integers, Sequences, Book

CONSTANTS
  Orders,       \* the orders
  Total,        \* the total of an order; its HC too
  Cent, Dollar, \* what settle tolerates, and what it counts as a new payment
  Payments,     \* what a customer pays at once
  Handlers,     \* the threads that serve the success page
  Sales         \* see PayInit

ASSUME PayAssumption ==
  /\ Total \in Nat \ {0} /\ Cent \in Nat /\ Dollar \in Nat
  /\ Payments \subseteq Nat \ {0}
  /\ Handlers \cap {"work", Command} = {}

VARIABLES
  orders,   \* the replay of the ledger's order lines
  known,    \* the replay of what each process has read
  owed,     \* the lines each process is about to write under its lock
  alive,    \* the processes that run
  jobs,     \* App.jobs: the orders the work thread will ask about
  at,       \* what each thread is doing
  remote,   \* what CoinPayments and Toss Payments hold of each order
  window,   \* 0, 1 once the payment window is over, 2 once the deposit is due
  crashes,  \* how often the service has stopped
  sale      \* the scenario

payVars == <<orders, known, owed, alive, jobs, at, remote, window, crashes, sale>>

Work == "work"
Threads == Handlers \cup {Work, Command}
Resting == [stage |-> "idle"]

-----------------------------------------------------------------------------
\* Book.apply, for the lines of an order.  `lots' is the HC of each purchase
\* lot that names the order, `left' what is left in them.
NoOrder ==
  [state |-> "none", invoice |-> FALSE, key |-> FALSE, issued |-> FALSE,
   received |-> 0, reason |-> "", refunded |-> 0, excess |-> 0, lots |-> <<>>,
   left |-> 0]

Booked(o, line) ==
  CASE line.type = "order" ->
         [o EXCEPT !.state = IF line.by = "swift" THEN "unpaid" ELSE "created"]
    [] line.type = "invoice" -> [o EXCEPT !.invoice = TRUE, !.state = "unpaid"]
    [] line.type = "state" ->
         [o EXCEPT !.state = line.state, !.reason = line.reason,
                   !.received = IF line.received = 0 THEN @ ELSE line.received]
    [] line.type = "toss_payment" -> [o EXCEPT !.key = TRUE]
    [] line.type = "payment" ->
         [o EXCEPT !.state = "completed", !.received = line.received]
    [] line.type = "hc_issued" -> [o EXCEPT !.issued = TRUE]
    [] line.type = "hc_lot" ->
         [o EXCEPT !.lots = Append(@, line.hc), !.left = @ + line.hc]
    [] line.type = "refund" ->
         [o EXCEPT !.refunded = @ + line.amount,
                   !.excess = IF line.clause = "3.5" THEN @ + line.amount ELSE @,
                   !.state = IF line.balance = 0 THEN "refunded" ELSE @]
    [] line.type \in {"hc_debit", "booking"} -> [o EXCEPT !.left = @ - line.hc]

\* invoice_failed, invoice_state, toss_state and swift_state.
StateLine(state, reason, received) ==
  [type |-> "state", state |-> state, reason |-> reason, received |-> received]

-----------------------------------------------------------------------------
\* What the handlers make of an answer: the lines to write.
\* issue
IssueLines(o, received, hc) ==
  (IF o.state # "completed"
   THEN <<[type |-> "payment", received |-> received]>> ELSE <<>>)
  \o <<[type |-> "hc_issued"], [type |-> "hc_lot", hc |-> hc]>>

Full(r) == r.matches /\ r.received + Cent >= Total
Covered(received) == IF received < Total THEN received ELSE Total

Moved(o, r) == \/ o.received = 0 /\ r.received > 0
               \/ r.received - o.received >= Dollar
               \/ o.received - r.received >= Dollar

\* settle
Worth(r) == IF Full(r) THEN Total ELSE Covered(r.received)
\* Mutation: an order whose HC was issued is settled again.
SettledOpen(o, released) == o.state = "mismatch" /\ ~released
Settled(o, released) == o.issued \/ (o.state = "mismatch" /\ ~released)
SettleLines(o, r, released) ==
  CASE Settled(o, released) -> <<>>
    [] ~Settled(o, released) /\ r.status # "completed" ->
         IF (r.status # o.state /\ o.state # "completed") \/ Moved(o, r)
         THEN <<StateLine(r.status, o.reason, r.received)>> ELSE <<>>
    [] /\ ~Settled(o, released) /\ r.status = "completed"
       /\ ~r.matches /\ ~released ->
         <<StateLine("mismatch", o.reason, r.received)>>
    [] OTHER -> IF Worth(r) > 0 THEN IssueLines(o, r.received, Worth(r)) ELSE <<>>

\* toss_apply
Open == {"unpaid", "pending", "paid"}
TossOpen == {"created", "waiting"}
Refuses(o, r) ==
  /\ ~o.issued /\ ~r.matches /\ r.status \in {"DONE", "WAITING"}
  /\ ~(o.reason = "amount" /\ o.state \in {"cancelled", "mismatch"})
TossLines(o, r) ==
  CASE o.issued \/ (~r.matches /\ r.status \in {"DONE", "WAITING"}) -> <<>>
    [] ~o.issued /\ r.matches /\ r.status = "DONE" ->
         IssueLines(o, Total, Total)
    [] ~o.issued /\ r.matches /\ r.status = "WAITING" ->
         IF o.state = "created" THEN <<StateLine("waiting", o.reason, 0)>> ELSE <<>>
    [] ~o.issued /\ r.status \in {"ABORTED", "EXPIRED", "CANCELED"} ->
         IF o.state \in TossOpen
         THEN <<StateLine(CASE r.status = "ABORTED" -> "failed"
                            [] r.status = "EXPIRED" -> "timedout"
                            [] OTHER -> "cancelled", "other", 0)>>
         ELSE <<>>
    [] OTHER -> <<>>

\* Book.expiry: the payment window, or the deposit deadline of `waiting'.
Expired(x, o) == window[x] >= IF o.state = "waiting" THEN 2 ELSE 1

-----------------------------------------------------------------------------
\* The steps of a process under its Book.lock: a thread that takes the lock
\* leaves the lines it decides on in `owed', and Append writes the next one.
\* Calls to a processor are made outside the lock; as they neither read nor
\* write the ledger, they are taken while nobody holds it.
Locked_(p, x, lines) ==
  owed' = [owed EXCEPT ![p] = [n \in DOMAIN lines |->
                                 [order |-> x, line |-> lines[n]]]]
Free(p) == p \in alive /\ owed[p] = <<>>
Seen(x) == known[Server][x]
Goes(t, where) == at' = [at EXCEPT ![t] = where]
Stage(name, x) == [stage |-> name, order |-> x]
Applies_(x, answer, next) ==
  [stage |-> "apply", order |-> x, answer |-> answer, next |-> next]
After(next, x) == IF next = "idle" THEN Resting ELSE Stage(next, x)

AppendLine(p) ==
  /\ p \in alive /\ owed[p] # <<>>
  /\ LET next == Head(owed[p])
         written == [orders EXCEPT ![next.order] = Booked(@, next.line)]
     IN /\ orders' = written
        /\ known' = [known EXCEPT ![p] = written]
  /\ owed' = [owed EXCEPT ![p] = Tail(@)]
  /\ UNCHANGED <<alive, jobs, at, remote, window, crashes, sale>>

bookVars == <<orders, known, alive, crashes, window, sale>>

\* The order line of a new order, under the lock.
Placed(x) ==
  /\ Free(Server) /\ Seen(x).state = "none"
  /\ Locked_(Server, x, <<[type |-> "order", by |-> sale.by[x]]>>)
  /\ UNCHANGED <<bookVars, jobs, remote>>

\* order, through CoinPayments: the invoice is created outside the lock.
PlaceOrder(h, x) ==
  /\ at[h] = Resting /\ sale.by[x] = "coin" /\ Placed(x)
  /\ Goes(h, Stage("invoice", x))
TossOrder(h, x) ==
  at[h] = Resting /\ sale.by[x] = "toss" /\ Placed(x) /\ UNCHANGED at
SwiftOrder(h, x) ==
  at[h] = Resting /\ sale.by[x] = "swift" /\ Placed(x) /\ UNCHANGED at

\* The call that creates the invoice, and the line for its outcome.
CreateInvoice(h) ==
  /\ Free(Server) /\ at[h].stage = "invoice"
  /\ LET x == at[h].order
         made == [remote EXCEPT ![x].status = "unpaid"]
     IN \/ /\ remote' = made
           /\ Locked_(Server, x, <<[type |-> "invoice"]>>)
        \/ /\ remote' \in {remote, made}
           /\ Locked_(Server, x, <<StateLine("failed", "", 0)>>)
  /\ Goes(h, Resting)
  /\ UNCHANGED <<bookVars, jobs>>

\* toss_success: up to the confirm call, and the call.
TossSuccess(h, x) ==
  /\ Free(Server) /\ at[h] = Resting
  /\ sale.by[x] = "toss" /\ remote[x].status # "none"
  /\ ~Seen(x).issued /\ Seen(x).state = "created"
  /\ IF ~remote[x].asked
     THEN /\ Locked_(Server, x, <<StateLine("failed", "amount", 0)>>)
          /\ UNCHANGED at
     ELSE /\ Locked_(Server, x, IF Seen(x).key THEN <<>>
                                ELSE <<[type |-> "toss_payment"]>>)
          /\ Goes(h, Stage("confirm", x))
  /\ UNCHANGED <<bookVars, jobs, remote>>

\* Toss Payments confirms a payment within its window, or declines.
Captured(r, status) ==
  [r EXCEPT !.status = status,
            !.balance = IF status = "DONE" THEN Total ELSE @,
            !.received = IF status = "DONE" THEN Total ELSE @]
Confirmed(x) ==
  {remote[x]} \cup
  (IF remote[x].status # "IN_PROGRESS" THEN {}
   ELSE {[remote[x] EXCEPT !.status = "ABORTED"]} \cup
        (IF window[x] > 0 THEN {}
         ELSE {Captured(remote[x], IF remote[x].account THEN "WAITING"
                                   ELSE "DONE")}))

ConfirmCall(h) ==
  /\ Free(Server) /\ at[h].stage = "confirm"
  /\ LET x == at[h].order
     IN \E r \in Confirmed(x) :
          /\ remote' = [remote EXCEPT ![x] = r]
          /\ Goes(h, Applies_(x, r, "idle")) \/ Goes(h, Resting)
  /\ UNCHANGED <<bookVars, owed, jobs>>

\* toss_apply, under the lock; toss_refuse follows outside it.
TossApply(t) ==
  /\ Free(Server) /\ t # Command /\ at[t].stage = "apply"
  /\ LET x == at[t].order
         answer == at[t].answer
     IN IF Refuses(Seen(x), answer)
        THEN /\ Goes(t, [at[t] EXCEPT !.stage = "refuse"])
             /\ UNCHANGED owed
        ELSE /\ Goes(t, After(at[t].next, x))
             /\ Locked_(Server, x, TossLines(Seen(x), answer))
  /\ UNCHANGED <<bookVars, jobs, remote>>

\* The cancel API, which needs a refund account once a deposit was made.
Cancelable(r) == r.status = "WAITING" \/ (r.status = "DONE" /\ ~r.account)
Cancelled(x) == [remote EXCEPT ![x].status = "CANCELED", ![x].balance = 0]

TossRefuse(t) ==
  /\ Free(Server) /\ t # Command /\ at[t].stage = "refuse"
  /\ LET x == at[t].order
     IN /\ \/ /\ Cancelable(remote[x]) /\ remote' = Cancelled(x)
              /\ Locked_(Server, x, <<StateLine("cancelled", "amount", 0)>>)
           \/ /\ \/ UNCHANGED remote
                 \/ Cancelable(remote[x]) /\ remote' = Cancelled(x)
              /\ Locked_(Server, x, <<StateLine("mismatch", "amount", 0)>>)
        /\ Goes(t, After(at[t].next, x))
  /\ UNCHANGED <<bookVars, jobs>>

TossFail(x) ==
  /\ Free(Server) /\ sale.by[x] = "toss"
  /\ Seen(x).state = "created" /\ ~Seen(x).key /\ ~Seen(x).issued
  /\ Locked_(Server, x, <<StateLine("cancelled", "other", 0)>>)
  /\ UNCHANGED <<bookVars, jobs, at, remote>>

-----------------------------------------------------------------------------
\* Webhooks, the reconciliation, and the work thread.
Queued(x) ==
  /\ Server \in alive /\ x \notin jobs
  /\ jobs' = jobs \cup {x}
  /\ UNCHANGED <<bookVars, owed, at, remote>>
Webhook(x) == sale.by[x] = "coin" /\ remote[x].status # "none" /\ Queued(x)
TossWebhook(x) == sale.by[x] = "toss" /\ Seen(x).state # "none" /\ Queued(x)

Unsettled(book) ==
  {x \in Orders :
     LET o == book[x]
     IN \/ o.invoice /\ (o.state \in Open \/ (o.state = "completed" /\ ~o.issued))
        \/ sale.by[x] = "toss" /\ ~o.issued /\ o.state \in TossOpen}
Reconcile ==
  /\ Free(Server)
  /\ jobs' = jobs \cup Unsettled(known[Server])
  /\ UNCHANGED <<bookVars, owed, at, remote>>

\* work, with the call of toss_check or of settle: Ask gets an answer.
Ask(x) ==
  /\ Free(Server) /\ at[Work] = Resting /\ x \in jobs
  /\ jobs' = jobs \ {x}
  /\ Goes(Work,
       CASE sale.by[x] = "toss" /\ Seen(x).key ->
              Applies_(x, remote[x], "expiry")
         [] sale.by[x] = "toss" /\ ~Seen(x).key -> Stage("expiry", x)
         [] sale.by[x] = "coin" /\ Seen(x).invoice ->
              [stage |-> "settle", order |-> x, answer |-> remote[x]]
         [] OTHER -> Resting)
  /\ UNCHANGED <<bookVars, owed, remote>>

AskFails(x) ==
  /\ Server \in alive /\ at[Work] = Resting /\ x \in jobs
  /\ jobs' = jobs \ {x}
  /\ UNCHANGED <<bookVars, owed, at, remote>>

Settle ==
  /\ Free(Server) /\ at[Work].stage = "settle"
  /\ Locked_(Server, at[Work].order,
       SettleLines(Seen(at[Work].order), at[Work].answer, FALSE))
  /\ Goes(Work, Resting)
  /\ UNCHANGED <<bookVars, jobs, remote>>

\* The rest of toss_check: an order whose time is up is closed, once its
\* virtual account is cancelled at Toss Payments.
Expiry ==
  /\ Free(Server) /\ at[Work].stage = "expiry"
  /\ LET x == at[Work].order
         o == Seen(x)
     IN Goes(Work, IF o.issued \/ o.state \notin TossOpen \/ ~Expired(x, o)
                   THEN Resting
                   ELSE Stage(IF o.state = "waiting" THEN "cancel" ELSE "close",
                              x))
  /\ UNCHANGED <<bookVars, owed, jobs, remote>>

CancelCall ==
  /\ Free(Server) /\ at[Work].stage = "cancel"
  /\ LET x == at[Work].order
     IN \/ /\ Cancelable(remote[x]) /\ remote' = Cancelled(x)
           /\ Goes(Work, Stage("close", x)) \/ Goes(Work, Resting)
        \/ /\ ~Cancelable(remote[x]) /\ UNCHANGED remote
           /\ Goes(Work, IF remote[x].status = "DONE"
                         THEN Applies_(x, remote[x], "idle")
                         ELSE Stage("close", x))
        \/ Goes(Work, Resting) /\ UNCHANGED remote
  /\ UNCHANGED <<bookVars, owed, jobs>>

Close ==
  /\ Free(Server) /\ at[Work].stage = "close"
  /\ LET x == at[Work].order
     IN Locked_(Server, x,
          IF ~Seen(x).issued /\ Seen(x).state \in TossOpen
          THEN <<StateLine("timedout", "expired", 0)>> ELSE <<>>)
  /\ Goes(Work, Resting)
  /\ UNCHANGED <<bookVars, jobs, remote>>

\* The market books with the HC of the order's lot.
Spend(x) ==
  /\ Free(Server) /\ "spend" \in sale.ops /\ Seen(x).left > 0
  /\ Locked_(Server, x, <<[type |-> "booking", hc |-> 1]>>)
  /\ UNCHANGED <<bookVars, jobs, at, remote>>

-----------------------------------------------------------------------------
\* The operator's commands: a process that reads the ledger when it starts,
\* checks its order, and writes its lines.  The operator releases an order
\* in state mismatch, as they are told to; the command does not check it.
StartCommand_(op, x) ==
  /\ op \in sale.ops \cap {"release", "swift-confirm", "swift-cancel", "refund"}
  /\ Command \notin alive
  /\ sale.beside \/ Server \notin alive
  /\ orders[x].state # "none"
  /\ op = "release" => orders[x].state = "mismatch"
  /\ alive' = alive \cup {Command}
  /\ known' = [known EXCEPT ![Command] = orders]
  /\ Goes(Command, Stage(op, x))
  /\ UNCHANGED <<orders, owed, jobs, remote, window, crashes, sale>>

Runs(op) == Free(Command) /\ at[Command].stage = op
Writes(lines) == /\ Locked_(Command, at[Command].order, lines)
                 /\ Goes(Command, Stage("exit", at[Command].order))
                 /\ UNCHANGED <<bookVars, jobs>>
Its == known[Command][at[Command].order]

Release ==
  /\ Runs("release")
  /\ LET r == remote[at[Command].order]
     IN /\ Its.invoice /\ r.status = "completed"
        /\ Writes(SettleLines(Its, r, TRUE))
  /\ UNCHANGED remote

SwiftConfirm ==
  /\ Runs("swift-confirm")
  /\ LET amount == remote[at[Command].order].received
     IN /\ sale.by[at[Command].order] = "swift"
        /\ ~Its.issued /\ Its.state = "unpaid" /\ amount >= Total
        /\ Writes(<<StateLine("paid", "", amount)>>
                  \o IssueLines(Its, amount, Total))
  /\ UNCHANGED remote

SwiftCancel ==
  /\ Runs("swift-cancel")
  /\ sale.by[at[Command].order] = "swift"
  /\ ~Its.issued /\ Its.state = "unpaid"
  /\ Writes(<<StateLine("cancelled", "other", 0)>>)
  /\ UNCHANGED remote

\* Mutation: what was refunded before is not taken off.
RefundableAgain(swift, r) == IF swift THEN Its.received ELSE r.balance
Refundable(swift, r) == IF swift THEN Its.received - Its.refunded ELSE r.balance
Debit(swift, clause, amount) ==
  IF clause = "3.2" \/ (swift /\ clause = "3.5") THEN 0 ELSE amount
\* refund, with its call to Toss Payments, whose answer may be lost.
\* Clause 3.2 debits no HC, nor does clause 3.5 on a SWIFT order.
Refund(amount, clause) ==
  LET x == at[Command].order
      swift == sale.by[x] = "swift"
      rest == Refundable(swift, remote[x]) - amount
      debit == Debit(swift, clause, amount)
      lines == <<[type |-> "refund", amount |-> amount, clause |-> clause,
                  balance |-> rest]>>
               \o (IF debit = 0 THEN <<>>
                   ELSE <<[type |-> "hc_debit", hc |-> debit]>>)
      after == [remote EXCEPT ![x].balance = rest,
                              ![x].status = IF rest = 0 THEN "CANCELED"
                                            ELSE "PARTIAL_CANCELED"]
  IN /\ Runs("refund") /\ sale.by[x] # "coin" /\ Its.issued
     /\ rest >= 0 /\ debit <= Its.left
     /\ swift /\ clause = "3.5" => amount <= Its.received - Total - Its.excess
     /\ IF swift THEN Writes(lines) /\ UNCHANGED remote
        ELSE /\ remote' = after
             /\ Writes(lines) \/ Writes(<<>>)

\* The command is done, or it has refused.
ExitCommand_ ==
  /\ Command \in alive /\ owed[Command] = <<>>
  /\ alive' = alive \ {Command}
  /\ known' = [known EXCEPT ![Command] = [x \in Orders |-> NoOrder]]
  /\ Goes(Command, Resting)
  /\ UNCHANGED <<orders, owed, jobs, remote, window, crashes, sale>>

-----------------------------------------------------------------------------
\* The customer and the processors.
Outside == UNCHANGED <<orders, known, owed, alive, jobs, at, crashes, sale>>

PayCoin(x, amount) ==
  /\ sale.by[x] = "coin" /\ remote[x].status \in {"unpaid", "pending"}
  /\ remote[x].received + amount <= Total + 1
  /\ remote' = [remote EXCEPT ![x].received = @ + amount, ![x].status = "pending"]
  /\ UNCHANGED window /\ Outside

CompleteCoin(x) ==
  /\ sale.by[x] = "coin" /\ remote[x].status = "pending"
  /\ \E right \in BOOLEAN :
       remote' = [remote EXCEPT ![x].status = "completed", ![x].matches = right]
  /\ UNCHANGED window /\ Outside

TimeOutCoin(x) ==
  /\ sale.by[x] = "coin" /\ remote[x].status \in {"unpaid", "pending"}
  /\ remote' = [remote EXCEPT ![x].status = "timedout"]
  /\ UNCHANGED window /\ Outside

\* The customer pays in Toss Payments' window, which redirects to the
\* success page with the amount (asked: the order's own).
Authorise(x) ==
  /\ sale.by[x] = "toss" /\ orders[x].state # "none"
  /\ remote[x].status = "none" /\ window[x] = 0
  /\ \E asked, right, account \in BOOLEAN :
       remote' = [remote EXCEPT ![x] = [@ EXCEPT !.status = "IN_PROGRESS",
                    !.asked = asked, !.matches = right, !.account = account]]
  /\ UNCHANGED window /\ Outside

Deposit(x) ==
  /\ sale.by[x] = "toss" /\ remote[x].status = "WAITING"
  /\ remote' = [remote EXCEPT ![x] = Captured(@, "DONE")]
  /\ UNCHANGED window /\ Outside

ExpireToss(x) ==
  /\ sale.by[x] = "toss"
  /\ \/ remote[x].status = "IN_PROGRESS" /\ window[x] >= 1
     \/ remote[x].status = "WAITING" /\ window[x] = 2
  /\ remote' = [remote EXCEPT ![x].status = "EXPIRED"]
  /\ UNCHANGED window /\ Outside

Arrive(x, amount) ==
  /\ sale.by[x] = "swift" /\ orders[x].state # "none"
  /\ remote[x].received + amount <= Total + 1
  /\ remote' = [remote EXCEPT ![x].received = @ + amount]
  /\ UNCHANGED window /\ Outside

\* An order's expiry is minutes after Toss Payments' own window, and every
\* call gives up after 30 seconds: no thread is still busy with the order.
PassTime(x) ==
  /\ sale.by[x] = "toss" /\ orders[x].state # "none" /\ window[x] < 2
  /\ \A t \in Threads : at[t] # Resting => at[t].order # x
  /\ window' = [window EXCEPT ![x] = @ + 1]
  /\ UNCHANGED remote /\ Outside

\* A process stops, between two lines if need be; the service starts again
\* and reconciles.
Crash(p) ==
  /\ p \in alive /\ crashes < sale.crashes
  /\ crashes' = crashes + 1
  /\ alive' = alive \ {p}
  /\ known' = [known EXCEPT ![p] = [x \in Orders |-> NoOrder]]
  /\ owed' = [owed EXCEPT ![p] = <<>>]
  /\ at' = [t \in Threads |-> IF t = Command <=> p = Command THEN Resting
                              ELSE at[t]]
  /\ jobs' = IF p = Server THEN {} ELSE jobs
  /\ UNCHANGED <<orders, remote, window, sale>>

StartService ==
  /\ Server \notin alive
  /\ sale.beside \/ Command \notin alive
  /\ alive' = alive \cup {Server}
  /\ known' = [known EXCEPT ![Server] = orders]
  /\ jobs' = Unsettled(orders)
  /\ UNCHANGED <<orders, owed, at, remote, window, crashes, sale>>

-----------------------------------------------------------------------------
\* A scenario gives each order's processor (by), the commands that are run
\* (ops), whether they run while the service runs (beside), and a bound on
\* the stops (crashes).
PayInit ==
  /\ sale \in Sales
  /\ orders = [x \in Orders |-> NoOrder]
  /\ known = [p \in Writers |-> orders]
  /\ owed = [p \in Writers |-> <<>>]
  /\ alive = {Server}
  /\ jobs = {}
  /\ at = [t \in Threads |-> Resting]
  /\ remote = [x \in Orders |->
       [status |-> "none", received |-> 0, balance |-> 0, matches |-> TRUE,
        asked |-> TRUE, account |-> FALSE]]
  /\ window = [x \in Orders |-> 0]
  /\ crashes = 0

HandlerStep(h) == \/ \E x \in Orders : \/ PlaceOrder(h, x) \/ TossOrder(h, x)
                                     \/ SwiftOrder(h, x) \/ TossSuccess(h, x)
                  \/ CreateInvoice(h) \/ ConfirmCall(h)
WorkStep == Settle \/ Expiry \/ CancelCall \/ Close
ApplyStep(t) == TossApply(t) \/ TossRefuse(t)
Jobs == \E x \in Orders : Webhook(x) \/ TossWebhook(x) \/ Ask(x) \/ AskFails(x)

CommandStep ==
  \/ \E x \in Orders : \E op \in sale.ops : StartCommand_(op, x)
  \/ Release \/ SwiftConfirm \/ SwiftCancel
  \/ \E amount \in 1 .. Total + 1, clause \in {"3.2", "3.5", "10.4"} :
       Refund(amount, clause)
  \/ ExitCommand_

World ==
  \/ \E x \in Orders : \/ \E amount \in Payments : PayCoin(x, amount)
                       \/ \E amount \in Payments : Arrive(x, amount)
                       \/ CompleteCoin(x) \/ TimeOutCoin(x)
                       \/ Authorise(x) \/ Deposit(x) \/ ExpireToss(x)
                       \/ PassTime(x)
  \/ \E p \in Writers : Crash(p)
  \/ StartService

PayNext ==
  \/ \E p \in Writers : AppendLine(p)
  \/ \E h \in Handlers : HandlerStep(h)
  \/ \E t \in Threads : ApplyStep(t)
  \/ WorkStep \/ Jobs \/ Reconcile
  \/ \E x \in Orders : TossFail(x) \/ Spend(x)
  \/ CommandStep \/ World

PaySpec == PayInit /\ [][PayNext]_payVars

\* The threads go on, the reconciliation comes round, and a processor that
\* is asked again and again answers some time.
PayFairness ==
  /\ WF_payVars(\E p \in Writers : AppendLine(p))
  /\ \A h \in Handlers : WF_payVars(CreateInvoice(h) \/ ConfirmCall(h))
  /\ \A t \in Threads : WF_payVars(ApplyStep(t))
  /\ WF_payVars(WorkStep)
  /\ WF_payVars(Reconcile)
  /\ \A x \in Orders : SF_payVars(Ask(x))
PayFairSpec == PaySpec /\ PayFairness

-----------------------------------------------------------------------------
\* Properties.
\* issue, settle, toss_apply: an order gets its HC once, whatever answers,
\* webhooks and reloads of the success page cross each other, and stops and
\* restarts between the lines of issue.
IssuedOnce == \A x \in Orders : Len(orders[x].lots) <= 1

\* An order that toss_fail, toss_apply or toss_check has closed cannot be
\* paid any more, nor has it been, unless a thread is about to see to it.
Attended(x) == \/ x \in jobs \/ Server \notin alive \/ owed[Server] # <<>>
               \/ \E t \in Threads : at[t] # Resting /\ at[t].order = x

\* refund: it debits only HC that is still there, and the ledger shows no more
\* refunded than the processor has paid back, or has received.
RefundsBacked ==
  \A x \in Orders :
    /\ orders[x].left >= 0
    /\ orders[x].refunded <= remote[x].received - remote[x].balance

\* reconcile: a payment that counts is answered with HC, even if every webhook
\* is lost.
Payable_(x) ==
  CASE sale.by[x] = "coin" -> /\ orders[x].invoice
                              /\ remote[x].status = "completed" /\ remote[x].matches
    [] sale.by[x] = "toss" -> remote[x].status = "DONE" /\ remote[x].matches
    [] OTHER -> FALSE
=============================================================================
