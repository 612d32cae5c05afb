---------------------------- MODULE FleetMarket ----------------------------
(***************************************************************************)
(* The market of tools/sparkpipe_market.py: hour-credits (HC) in lots that *)
(* lapse, bookings of Fleets by the Hour and by the Week, the waitlist and *)
(* its Sunday round, auto-extend, maintenance, downtime credits, failover, *)
(* and the time-driven events that `advance' runs in order of time.        *)
(*                                                                         *)
(* The ledger is append-only, and a process's state is the replay of the   *)
(* lines it has read, so the model keeps the replay instead of the lines:  *)
(* `market' is the replay of the whole file and seen[p] that of what the   *)
(* process p has read.  Book.append reads the rest of the file before it   *)
(* writes, so p checks its guards on seen[p] and its line is applied to    *)
(* `market'.  Every line is one step: a process may stop between two lines *)
(* and another process may write between them.                             *)
(*                                                                         *)
(* Time is counted in ticks.  A refused request changes nothing and is not *)
(* a step.  Notices are left to Notices.tla.                               *)
(***************************************************************************)
EXTENDS MarketLedger, Book

CONSTANTS
  AccountOrder, FleetOrder,  \* the order of sorted() and of pricing.js
  HourHC,                    \* bookings.hourHC
  MaintenanceHours,          \* bookings.maintenanceHoursPerWeek
  Outage, OutagePass, Gap,   \* OUTAGE, OUTAGE_PASS, UPTIME_GAP_SECONDS
  RebuildHours,              \* REBUILD_HOURS
  Amounts,                   \* the HC that is locked or bought at a time
  Scenarios,                 \* see MarketInit
  Horizon                    \* the clock's bound

VARIABLES
  market,   \* the replay of the ledger
  seen,     \* the replay of what each process has read
  todo,     \* what each process does next while it holds its book.lock
  running,  \* the processes that run
  stuck,    \* the ledger holds a line that cannot be applied
  now,      \* the clock
  probes,   \* Uptime: the last good probe of each Fleet and its down periods
  terms,    \* the accounts that have accepted the current terms
  stops,    \* how often the service has stopped
  offered   \* the scenario: what is asked of the service, where, and up to when

marketVars == <<market, seen, todo, running, stuck, now, probes, terms, stops,
                offered>>

-----------------------------------------------------------------------------
\* The events of `advance'.  An event has the time it happened at, its
\* priority among the events of one instant, and what it does: a sequence
\* of tasks, each of which writes at most one line.
Event(at, rank, tasks) == [at |-> at, rank |-> rank, tasks |-> tasks]
Line(line) == [do |-> "line", line |-> line]
ByAccount(Task(_)) == [n \in DOMAIN AccountOrder |-> Task(AccountOrder[n])]
ByFleet(Task(_)) == [n \in DOMAIN FleetOrder |-> Task(FleetOrder[n])]

LapseEvents(st, t) ==
  LET parts == UNION {{st.locks[a].parts[n] : n \in DOMAIN st.locks[a].parts}
                        : a \in Accounts}
      due == {x \in {st.lots[part.lot].expires : part \in parts} : x <= t}
  IN IF due = {} THEN {}
     ELSE {Event(Min(due), 0,
             [n \in DOMAIN st.queue |->
                [do |-> "lapse", account |-> st.queue[n],
                 moment |-> Min(due)]])}

\* allocate for each Fleet, then the round line.
RoundTasks(holders, sunday) ==
  ByFleet(LAMBDA f : [do |-> "grant", fleet |-> f, sunday |-> sunday,
                      waiting |-> holders])
    \o <<Line([type |-> "round", sunday |-> sunday])>>

RoundEvents(st, t) ==
  LET holders == LockHolders(st)
      since == Larger(Min({st.locks[a].joined : a \in holders}), st.round)
      sunday == SundayAfter(since)
  IN IF holders = {} \/ sunday > t THEN {}
     ELSE {Event(sunday, 1, RoundTasks(holders, sunday))}

\* credit_maintenance: the lots first, then the maintenance_done line.
HoursIn(bs, start, end) ==
  MapThenSumSet(LAMBDA b : Overlap(b.begins, b.ends, start, end) \div Hour, bs)
MaintenanceEvents(st, t) ==
  {LET Owed(a) == Rate[m.fleet] *
             HoursIn({b \in Busy(st, m.fleet, m.begins, m.ends) :
                        b.account = a}, m.begins, m.ends)
       lots == SelectSeq(
         ByAccount(LAMBDA a : Line(LotLine(a, Owed(a), "maintenance", m.id,
                                           m.ends))),
         LAMBDA task : task.line.lot.hc > 0)
   IN Event(m.ends, 2,
        lots \o <<Line([type |-> "maintenance_done", id |-> m.id])>>)
   : m \in {x \in st.maintenance : ~x.done /\ x.ends <= t}}

\* outage_at and credit_outage: a down period is credited in passes.  The
\* lots name the hours they credit; the downtime line comes last.
Spans == UNION {probes[f].spans : f \in Fleets}
SpanEnd(s, t) == IF s.end <= t THEN s.end ELSE Never
Passes(st, s) == {x \in st.downtime : x.span = s.id}
CreditedHours(st) ==
  UNION {st.lots[i].ref : i \in {j \in DOMAIN st.lots :
                                   st.lots[j].source = "downtime"}}


Creditable(st, f, x) == /\ <<f, x>> \notin CreditedHours(st)
                        /\ Maintained(st, f, x, x + Hour) = {}
OutagePassAt(st, s, t) ==
  LET end == SpanEnd(s, t)
  IN CASE Passes(st, s) = {} -> IF end # Never THEN end ELSE s.start + Outage + 1
       [] Passes(st, s) # {} /\ end # Never ->
            IF \E x \in Passes(st, s) : x.end = Never THEN end ELSE t + 1
       [] OTHER -> (CHOOSE x \in Passes(st, s) : TRUE).now + OutagePass
OutageDue(st, s, t) ==
  /\ (IF SpanEnd(s, t) # Never THEN SpanEnd(s, t) ELSE t) - s.start > Outage
  /\ OutagePassAt(st, s, t) <= t

OutageEvents(st, t) ==
  {LET at == OutagePassAt(st, s, t)
       end == SpanEnd(s, t)
       through == IF end # Never THEN SlotCeil(end) ELSE SlotFloor(at) + Hour
       slots == {x \in SlotFloor(s.start) .. through - 1 :
                   x % Hour = 0 /\ Creditable(st, s.fleet, x)}
       Owed(a) == {<<x, b>> \in slots \X OnFleet(st, s.fleet) :
                     b.account = a /\ b \in Busy(st, s.fleet, x, x + Hour)}
       lots == SelectSeq(
         ByAccount(LAMBDA a :
           Line(LotLine(a, Rate[s.fleet] * Cardinality(Owed(a)), "downtime",
                        {<<s.fleet, o[1]>> : o \in Owed(a)}, at))),
         LAMBDA task : task.line.lot.hc > 0)
   IN Event(at, 3, lots \o <<Line([type |-> "downtime",
                               pass |-> [span |-> s.id, end |-> end,
                                         now |-> at]])>>)
   : s \in {x \in Spans : OutageDue(st, x, t)}}

FleetDown(f) == \E s \in probes[f].spans : s.end = Never
FleetUp(f) == probes[f].seen /\ ~FleetDown(f)

\* hold_end: the end of the back-to-back bookings that hold f at t.
HoldEnd(st, a, f, t) ==
  LET mine == {b \in OnFleet(st, f) : b.account = a}
      Covered(x) == \E b \in mine : b.begins <= x /\ x < b.ends
      ends == {b.ends : b \in mine} \cup {t}
  IN Min({x \in ends : /\ x >= t
                       /\ ~Covered(x)
                       /\ \A y \in t .. x - 1 : Covered(y)})

ActiveFailovers(st) == {f \in st.failovers : f.ends = Never}
FailoverEvents(st, t) ==
  UNION {
    LET later == {b.begins : b \in {x \in OnFleet(st, f.to) :
                                      f.begins < x.ends /\ x.begins <= t}}
                 \cup {m.begins : m \in {x \in st.maintenance :
                         /\ x.fleet = f.to
                         /\ f.begins < x.ends /\ x.begins <= t}}
        held == HoldEnd(st, f.account, f.from, f.begins)
        Ends(at) == {Event(at, 4, <<Line([type |-> "failover_end", id |-> f.id,
                                          end |-> at])>>)}
    IN CASE ~FleetDown(f.from) -> Ends(t)
         [] FleetDown(f.from) /\ later # {} -> Ends(Larger(Min(later), f.begins))
         [] FleetDown(f.from) /\ later = {} /\ held <= t ->
              Ends(Larger(held, f.begins))
         [] FleetDown(f.from) /\ later = {} /\ held > t /\ ~FleetUp(f.to) ->
              Ends(t)
         [] OTHER -> {}
    : f \in ActiveFailovers(st)}

\* extend_step: the extension of one Fleet of one account that is due.
ExtendDue(setting, through) ==
  Larger(through - Week * setting.weeks, setting.now)

ExtendStep(st, a, f, t) ==
  LET setting == st.extend[<<a, f>>]
      through == Latest(WeeksOf(st, a, f))
      due == ExtendDue(setting, through)
      waiting == IF setting.through = through THEN setting.waiting ELSE "no"
      at == IF waiting # "no" THEN t ELSE due
      weeks == Larger(1, (WeekStart(at) + Week * (1 + setting.weeks) - through)
                           \div Week)
      plan == WeekPlan(st, a, f, weeks, at)
      blocked == CASE a \notin terms -> "terms"
                   [] a \in terms /\ Balance(st, a, at) < plan.price ->
                        "insufficient_hc"
                   [] OTHER -> "no"
      Stop(x) == {Event(x, 5, <<Line(ExtendLine(a, f, 0, x))>>)}
  IN CASE through <= setting.now -> Stop(t)
       [] through > setting.now /\ due > t -> {}
       [] /\ through > setting.now /\ due <= t
          /\ waiting # "no" /\ through <= t -> Stop(through)
       [] OTHER ->
            IF plan.refused # "no" THEN Stop(at)
            ELSE IF blocked = "no" THEN
              {Event(at, 5, <<Line(BookingLine(a, f, "week", plan.first,
                                   plan.end, plan.price, "hc", at))>>)}
            ELSE IF blocked = waiting THEN {}
            ELSE {Event(at, 5, <<Line([type |-> "auto_extend_wait",
                                       account |-> a, fleet |-> f,
                                       through |-> plan.first,
                                       waiting |-> blocked])>>)}

ExtendEvents(st, t) ==
  UNION {ExtendStep(st, x[1], x[2], t) :
           x \in {y \in Accounts \X Fleets : st.extend[y].weeks # 0}}

Due(st, t) ==
  LapseEvents(st, t) \cup RoundEvents(st, t) \cup MaintenanceEvents(st, t)
    \cup OutageEvents(st, t) \cup FailoverEvents(st, t) \cup ExtendEvents(st, t)

\* The earliest events, those of the lowest rank first.  Ids are random,
\* so that any of several such events may be the one that min() returns.
Earliest(events) ==
  {e \in events :
     \A o \in events : e.at < o.at \/ (e.at = o.at /\ e.rank <= o.rank)}

-----------------------------------------------------------------------------
\* Book.append, and the tasks of an event.
Write(p, line, rest) ==
  IF stuck \/ ~Applies(market, line)
  THEN /\ stuck' = TRUE
       /\ seen' = [seen EXCEPT ![p] = market]
       /\ todo' = [todo EXCEPT ![p] = <<>>]
       /\ UNCHANGED market
  ELSE /\ market' = Apply(market, line)
       /\ seen' = [seen EXCEPT ![p] = Apply(market, line)]
       /\ todo' = [todo EXCEPT ![p] = rest]
       /\ UNCHANGED stuck

Skip(p, rest) == /\ todo' = [todo EXCEPT ![p] = rest]
                 /\ UNCHANGED <<market, seen, stuck>>

\* allocate and grant: the first of the waiting accounts that can pay for
\* a Week of the Fleet gets as many Weeks as its lock pays for.
Payable(st, a, f, sunday) ==
  {w \in 1 .. MaxWeeksAhead :
     WeekPrice(f, w, Discount(WeekCount(st, a, f, sunday) + w))
       <= Locked(st, a)}
Ahead(st, a, b) == \/ Locked(st, a) > Locked(st, b)
                   \/ /\ Locked(st, a) = Locked(st, b)
                      /\ \E m, n \in DOMAIN st.queue :
                           m < n /\ st.queue[m] = a /\ st.queue[n] = b
Without(tasks, a) ==
  [n \in DOMAIN tasks |-> IF tasks[n].do = "grant"
                          THEN [tasks[n] EXCEPT !.waiting = @ \ {a}]
                          ELSE tasks[n]]

Grant(p, task, rest) ==
  LET st == seen[p]
      f == task.fleet
      monday == task.sunday + Day
      able == {a \in task.waiting : Payable(st, a, f, task.sunday) # {}}
  IN IF f \in Demo \/ Busy(st, f, monday, monday + Week) # {} \/ able = {}
     THEN Skip(p, rest)
     ELSE \E a \in able :
       /\ \A b \in able \ {a} : Ahead(st, a, b)
       /\ LET weeks == Max(Payable(st, a, f, task.sunday))
              off == Discount(WeekCount(st, a, f, task.sunday) + weeks)
          IN Write(p, BookingLine(a, f, "week", monday, monday + Week * weeks,
                        WeekPrice(f, weeks, off), "waitlist", task.sunday),
                   <<[do |-> "default_extend", account |-> a, fleet |-> f,
                      moment |-> task.sunday]>> \o Without(rest, a))

DefaultExtend(p, task, rest) ==
  IF seen[p].extend[<<task.account, task.fleet>>].weeks = 0
  THEN Write(p, ExtendLine(task.account, task.fleet, 1, task.moment), rest)
  ELSE Skip(p, rest)

\* lapse, for one account: a lock_lapse line for each of its lapsed lots,
\* and then an unlock line when less than a Week's HC is left.
LapseAccount(p, task, rest) ==
  LET parts == seen[p].locks[task.account].parts
      lots == {i \in {parts[n].lot : n \in DOMAIN parts} :
                 seen[p].lots[i].expires <= task.moment}
      lines == [n \in 1 .. Cardinality(lots) |->
                  LET i == CHOOSE x \in lots :
                             Cardinality({y \in lots : y <= x}) = n
                  IN Line([type |-> "lock_lapse", account |-> task.account,
                           lot |-> i, hc |-> OfLot(parts, i)])]
  IN Skip(p, IF task.account \notin LockHolders(seen[p]) THEN <<>>
             ELSE lines \o <<[do |-> "below", account |-> task.account]>>
                        \o rest)

\* Mutation: a lock that has lapsed whole is unlocked too.
BelowUnheld(p, task, rest) ==
  IF Locked(seen[p], task.account) < WeekHC
  THEN Write(p, [type |-> "unlock", account |-> task.account], rest)
  ELSE Skip(p, rest)

Below(p, task, rest) ==
  IF /\ task.account \in LockHolders(seen[p])
     /\ Locked(seen[p], task.account) < WeekHC
  THEN Write(p, [type |-> "unlock", account |-> task.account], rest)
  ELSE Skip(p, rest)

Perform(p, task, rest) ==
  CASE task.do = "line" -> Write(p, task.line, rest)
    [] task.do = "grant" -> Grant(p, task, rest)
    [] task.do = "default_extend" -> DefaultExtend(p, task, rest)
    [] task.do = "lapse" -> LapseAccount(p, task, rest)
    [] task.do = "below" -> Below(p, task, rest)

-----------------------------------------------------------------------------
\* The steps of a process.  Advance starts the earliest event that is due;
\* Continue goes on with it.
environment == <<running, now, probes, terms, stops, offered>>

Advance(p) ==
  /\ p \in running /\ todo[p] = <<>> /\ ~stuck
  /\ \E e \in Earliest(Due(seen[p], now)) :
       Perform(p, Head(e.tasks), Tail(e.tasks))
  /\ UNCHANGED environment

Continue(p) ==
  /\ p \in running /\ todo[p] \notin {<<>>, <<[do |-> "exit"]>>}
  /\ Perform(p, Head(todo[p]), Tail(todo[p]))
  /\ UNCHANGED environment

\* A request is served once nothing is due any more.
Serves(p, op) == p \in running /\ todo[p] = <<>> /\ ~stuck /\ op \in offered.ops

NothingDue(p) == Due(seen[p], now) = {}

BookHours(a, f, start, hours) ==
  LET st == seen[Server]
      price == hours * HourHC * Rate[f]
  IN /\ Serves(Server, "hours")
     /\ Cardinality(market.bookings) < offered.max.bookings
     /\ HoursOpen(st, a, f, start, start + hours * Hour, now)
     /\ Balance(st, a, now) >= price
     /\ Write(Server, BookingLine(a, f, "hour", start, start + hours * Hour,
                                  price, "hc", now), <<>>)
     /\ UNCHANGED environment

BookWeeks(a, f, weeks) ==
  LET st == seen[Server]
      plan == WeekPlan(st, a, f, weeks, now)
      first == Through(st, a, f, now) = 0
  IN /\ Serves(Server, "weeks")
     /\ Cardinality(market.bookings) < offered.max.bookings
     /\ plan.refused = "no"
     /\ Balance(st, a, now) >= plan.price
     /\ Write(Server, BookingLine(a, f, "week", plan.first, plan.end,
                                  plan.price, "hc", now),
              IF first THEN <<[do |-> "default_extend", account |-> a,
                               fleet |-> f, moment |-> now]>>
              ELSE <<>>)
     /\ UNCHANGED environment

Join(a, amount) ==
  LET st == seen[Server]
  IN /\ Serves(Server, "join")
     /\ a \in LockHolders(st) \/ amount >= WeekHC
     /\ Balance(st, a, now) >= amount
     /\ Write(Server, [type |-> "lock", account |-> a, hc |-> amount,
                       now |-> now], <<>>)
     /\ UNCHANGED environment

Leave(a) ==
  /\ Serves(Server, "leave")
  /\ a \in LockHolders(seen[Server])
  /\ Write(Server, [type |-> "unlock", account |-> a], <<>>)
  /\ UNCHANGED environment

AutoExtend(a, f, weeks) ==
  /\ Serves(Server, "extend")
  /\ weeks # 0 => Through(seen[Server], a, f, now) # 0
  /\ Write(Server, ExtendLine(a, f, weeks, now), <<>>)
  /\ UNCHANGED environment

\* issue: a paid order's lot.  It does not run the events first.
Issue(a, hc) ==
  /\ Server \in running /\ todo[Server] = <<>> /\ ~stuck
  /\ "buy" \in offered.ops
  /\ Len(market.lots) < offered.max.lots
  /\ Write(Server, LotLine(a, hc, "purchase", 0, now), <<>>)
  /\ UNCHANGED environment

\* pair_loss: the credit for working state lost on a Fleet, once for each
\* loss the hub reports.
PairLoss(a, f, event, at) ==
  /\ Serves(Server, "loss")
  /\ Len(market.lots) < offered.max.lots
  /\ at <= now
  /\ \A i \in DOMAIN seen[Server].lots :
       ~(/\ seen[Server].lots[i].source = "rebuild"
         /\ seen[Server].lots[i].ref = <<f, event>>)
  /\ \E b \in OnFleet(seen[Server], f) :
       b.account = a /\ b.begins <= at /\ at < b.ends
  /\ Write(Server, LotLine(a, Rate[f] * RebuildHours, "rebuild", <<f, event>>,
                           now), <<>>)
  /\ UNCHANGED environment

\* route: a request for a Fleet that is down goes to a free one.  admit
\* has seen the hold, but let go of book.lock since: it may have ended.
ServingOther(st, a, t) ==
  {f.to : f \in {x \in st.failovers :
                   x.account # a /\ (x.ends = Never \/ x.ends > SlotFloor(t))}}
FreeNow(st, f, t) ==
  Busy(st, f, t, t + 1) = {} /\ Maintained(st, f, t, t + 1) = {}
Before(f, g) ==
  \/ f \notin Demo /\ g \in Demo
  \/ /\ f \in Demo <=> g \in Demo
     /\ \E m, n \in DOMAIN FleetOrder :
          m < n /\ FleetOrder[m] = f /\ FleetOrder[n] = g

Route(a, f) ==
  LET st == seen[Server]
      choices == {g \in Fleets \ {f} : /\ g \notin ServingOther(st, a, now)
                                       /\ FleetUp(g) /\ FreeNow(st, g, now)}
  IN /\ Serves(Server, "route")
     /\ Cardinality(st.failovers) < offered.max.failovers
     /\ \E b \in OnFleet(st, f) : b.account = a /\ b.begins <= now
     /\ FleetDown(f)
     /\ \A x \in ActiveFailovers(st) : ~(x.account = a /\ x.from = f)
     /\ \E g \in choices :
          /\ \A h \in choices \ {g} : Before(g, h)
          /\ Write(Server, [type |-> "failover", failover |->
               [id |-> Cardinality(st.failovers) + 1, account |-> a, from |-> f,
                to |-> g, begins |-> now, ends |-> Never]], <<>>)
     /\ UNCHANGED environment

-----------------------------------------------------------------------------
\* The maintenance command: a process of its own, which reads the ledger
\* when it starts and runs the events that are due before its own line.
StartCommand ==
  /\ {"maintenance", "credit"} \cap offered.ops # {}
  /\ Command \notin running
  /\ offered.beside \/ Server \notin running
  /\ ~stuck
  /\ running' = running \cup {Command}
  /\ seen' = [seen EXCEPT ![Command] = market]
  /\ UNCHANGED <<market, todo, stuck, now, probes, terms, stops, offered>>

\* quiet_run: any of the runs with the fewest booked hours.  The rotation
\* of the start hour is left open.
QuietRuns(st, f, monday, hours, t) ==
  LET Held_(s) == MapThenSumSet(
                    LAMBDA b : Overlap(b.begins, b.ends, s, s + hours * Hour),
                    Busy(st, f, s, s + hours * Hour))
      starts == {s \in monday .. monday + Week - hours * Hour :
                   /\ s % Hour = 0
                   /\ s >= t + Week
                   /\ Maintained(st, f, s, s + hours * Hour) = {}}
  IN {s \in starts : \A x \in starts : Held_(s) <= Held_(x)}

ScheduleMaintenance(f, monday, hours) ==
  LET st == seen[Command]
      done == MapThenSumSet(LAMBDA m : (m.ends - m.begins) \div Hour,
                {m \in st.maintenance : /\ m.fleet = f /\ monday <= m.begins
                                        /\ m.begins < monday + Week})
  IN /\ Serves(Command, "maintenance")
     /\ monday % Week = 0
     /\ hours >= 1 /\ done + hours <= MaintenanceHours
     /\ \E s \in QuietRuns(st, f, monday, hours, now) :
          Write(Command, [type |-> "maintenance", maintenance |->
            [id |-> Cardinality(st.maintenance) + 1, fleet |-> f, begins |-> s,
             ends |-> s + hours * Hour, done |-> FALSE]],
            <<[do |-> "exit"]>>)
     /\ UNCHANGED environment

\* The credit command: downtime_credit, which runs no events.
Credit(a, hc) ==
  /\ Command \in running /\ todo[Command] = <<>> /\ ~stuck
  /\ "credit" \in offered.ops
  /\ Len(market.lots) < offered.max.lots
  /\ Write(Command, LotLine(a, hc, "credit", 0, now), <<[do |-> "exit"]>>)
  /\ UNCHANGED environment

ExitCommand ==
  /\ Command \in running
  /\ todo[Command] \in {<<>>, <<[do |-> "exit"]>>}
  /\ running' = running \ {Command}
  /\ todo' = [todo EXCEPT ![Command] = <<>>]
  /\ seen' = [seen EXCEPT ![Command] = EmptyState]
  /\ UNCHANGED <<market, stuck, now, probes, terms, stops, offered>>

-----------------------------------------------------------------------------
\* The clock, the probes of Uptime.observe, the customers' terms, and the
\* service stopping and starting.  The lines of an event that has begun
\* depend on none of these, so they step only between events.  The market
\* thread runs every 30 seconds and the probes every health_seconds, so
\* that a running service has done both before the next tick.
Idle == \A p \in Writers : todo[p] \in {<<>>, <<[do |-> "exit"]>>}

Tick ==
  /\ Idle
  /\ Server \in running =>
       /\ stuck \/ Due(seen[Server], now) = {}
       /\ \A f \in offered.watched : FleetDown(f) \/ probes[f].good = now
  /\ now + offered.stride <= offered.until
  /\ now' = now + offered.stride
  /\ UNCHANGED <<market, seen, todo, running, stuck, probes, terms, stops,
                 offered>>

NewSpan(f, start, end) ==
  [id |-> <<f, Cardinality(probes[f].spans) + 1>>, fleet |-> f, start |-> start,
   end |-> end]

Observe(f, up) ==
  LET entry == [probes[f] EXCEPT !.seen = TRUE]
      gap == entry.good # Never /\ now - entry.good > Gap
      closed == {IF s.end = Never THEN [s EXCEPT !.end = now] ELSE s
                   : s \in entry.spans}
      missed == IF gap /\ ~FleetDown(f) THEN {NewSpan(f, entry.good, now)} ELSE {}
      start == IF entry.good # Never THEN entry.good ELSE now
  IN /\ Server \in running /\ f \in offered.watched /\ Idle
     /\ probes' = [probes EXCEPT ![f] =
          IF up THEN [entry EXCEPT !.good = now, !.spans = closed \cup missed]
          ELSE IF FleetDown(f) THEN entry
          ELSE [entry EXCEPT !.spans = @ \cup {NewSpan(f, start, Never)}]]
     /\ probes'[f] # probes[f]
     /\ Cardinality(probes'[f].spans) <= offered.max.spans
     /\ UNCHANGED <<market, seen, todo, running, stuck, now, terms, stops,
                    offered>>

ChangeTerms(a) ==
  /\ "terms" \in offered.ops /\ Idle
  /\ terms' = IF a \in terms THEN terms \ {a} ELSE terms \cup {a}
  /\ UNCHANGED <<market, seen, todo, running, stuck, now, probes, stops,
                 offered>>

\* housekeeping reads what the commands have written.
Refresh ==
  /\ Server \in running /\ todo[Server] = <<>> /\ ~stuck
  /\ seen[Server] # market
  /\ seen' = [seen EXCEPT ![Server] = market]
  /\ UNCHANGED <<market, todo, running, stuck, now, probes, terms, stops,
                 offered>>

Stop ==
  /\ stops < offered.max.stops /\ Server \in running
  /\ stops' = stops + 1
  /\ running' = running \ {Server}
  /\ todo' = [todo EXCEPT ![Server] = <<>>]
  /\ seen' = [seen EXCEPT ![Server] = EmptyState]
  /\ UNCHANGED <<market, stuck, now, probes, terms, offered>>

Start ==
  /\ Server \notin running /\ ~stuck
  /\ offered.beside \/ Command \notin running
  /\ running' = running \cup {Server}
  /\ seen' = [seen EXCEPT ![Server] = market]
  /\ UNCHANGED <<market, todo, stuck, now, probes, terms, stops, offered>>

\* A scenario gives the lines the ledger starts with (ledger), the operations
\* (ops), accounts (who) and Fleets (where) of the requests, the Fleets that
\* are probed (watched), whether commands run beside the service (beside),
\* and the bounds: the clock's stride and last tick, and max.
MarketInit ==
  /\ offered \in Scenarios
  /\ market = FoldLeft(Apply, EmptyState, offered.ledger)
  /\ seen = [p \in Writers |-> IF p = Server THEN market ELSE EmptyState]
  /\ todo = [p \in Writers |-> <<>>]
  /\ running = {Server}
  /\ stuck = FALSE
  /\ now = 0
  /\ probes = [f \in Fleets |->
       [seen |-> f \in offered.watched, spans |-> {},
        good |-> IF f \in offered.watched THEN 0 ELSE Never]]
  /\ terms = Accounts
  /\ stops = 0

Process(p) == Advance(p) \/ Continue(p)

\* The requests that run the events first (advance).
Requests ==
  /\ Server \in running /\ NothingDue(Server)
  /\ \/ \E a \in offered.who, f \in offered.where, start \in 1 .. Horizon,
           hours \in 1 .. offered.max.hours :
          start % Hour = 0 /\ BookHours(a, f, start, hours)
     \/ \E a \in offered.who, f \in offered.where, weeks \in 1 .. MaxWeeksAhead :
          BookWeeks(a, f, weeks)
     \/ \E a \in offered.who, amount \in Amounts : Join(a, amount)
     \/ \E a \in offered.who : Leave(a)
     \/ \E a \in offered.who, f \in offered.where, weeks \in 0 .. MaxWeeksAhead :
          AutoExtend(a, f, weeks)
     \/ \E a \in offered.who, f \in offered.where, event \in 1 .. 1,
           at \in 0 .. Horizon : PairLoss(a, f, event, at)
     \/ \E a \in offered.who, f \in offered.where : Route(a, f)

Commands ==
  \/ StartCommand
  \/ /\ Command \in running /\ NothingDue(Command)
     /\ \E f \in offered.where, monday \in 0 .. Horizon,
           hours \in 1 .. MaintenanceHours :
          ScheduleMaintenance(f, monday, hours)
  \/ \E a \in offered.who, hc \in Amounts : Credit(a, hc)
  \/ ExitCommand

Environment ==
  \/ Tick
  \/ \E f \in Fleets, isUp \in BOOLEAN : Observe(f, isUp)
  \/ \E a \in offered.who : ChangeTerms(a)
  \/ Refresh \/ Stop \/ Start

MarketNext ==
  \/ \E p \in Writers : Process(p)
  \/ Requests \/ Commands \/ Environment
  \/ \E a \in offered.who, hc \in Amounts : Issue(a, hc)

MarketSpec == MarketInit /\ [][MarketNext]_marketVars

-----------------------------------------------------------------------------
\* Properties.
Quiet == /\ todo[Server] = <<>> /\ todo[Command] = <<>>
         /\ Due(market, now) = {}

\* Two bookings never hold the same hour of a Fleet: whatever the events,
\* the requests, a stop between two lines and the round's grants of several
\* Weeks, of which allocate checks only the first one to be free.
NoDoubleBooking ==
  \A b, c \in market.bookings :
    b.fleet = c.fleet /\ b # c => b.ends <= c.begins \/ c.ends <= b.begins

\* Every HC of an account is in a lot, locked, spent on a booking or lapsed
\* while locked: take, spend, give_back and on_lock_lapse lose and create
\* none, and every booking took its whole price.
HCConserved ==
  \A a \in Accounts :
    LET mine == {i \in DOMAIN market.lots : market.lots[i].account = a}
    IN MapThenSumSet(LAMBDA i : market.lots[i].first, mine)
         = MapThenSumSet(LAMBDA i : market.lots[i].hc, mine)
             + Locked(market, a) + market.lapsed[a]
             + MapThenSumSet(LAMBDA b : b.hc,
                             {b \in market.bookings : b.account = a})

\* Nobody books or is granted the Week after a customer's last one before
\* that customer's deadline, Sunday 00:00 (check_first, allocate).
HolderFirst ==
  \A b, c \in market.bookings :
    /\ b.kind = "week" /\ c.kind = "week" /\ b.fleet = c.fleet
    /\ b.account # c.account /\ c.begins = b.ends
    => c.now >= c.begins - Day

\* An hour is credited at most once: in one downtime lot, and not at all
\* for downtime when it is announced maintenance.  A stop between the lots
\* and the downtime line of a pass (credit_outage) does not credit the hours
\* again.  A loss of working state that the hub reports twice is credited
\* once (pair_loss).
DowntimeLots == {i \in DOMAIN market.lots : market.lots[i].source = "downtime"}

\* Once a down period of more than 15 minutes is over and its last pass is
\* written, every booked hour it touched has been credited (outage_at,
\* credit_outage), over passes, stops and new bookings.
DowntimeComplete ==
  \A s \in Spans : \A pass \in Passes(market, s) :
    pass.end # Never =>
      \A x \in SlotFloor(s.start) .. s.end - 1 :
        /\ x % Hour = 0
        /\ Busy(market, s.fleet, x, x + Hour) # {}
        /\ Maintained(market, s.fleet, x, x + Hour) = {}
        => <<s.fleet, x>> \in CreditedHours(market)

\* No process writes a line that the replay cannot apply: on_unlock,
\* on_lock_lapse and on_booking look up a lock that has to be there, and a
\* ledger with a line that fails can never be read again.
LedgerReplays == ~stuck

=============================================================================
