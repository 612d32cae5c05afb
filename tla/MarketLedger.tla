---------------------------- MODULE MarketLedger ----------------------------
(***************************************************************************)
(* State of tools/sparkpipe_market.py: what the market lines of the ledger *)
(* add up to.  A line is a record with the fields its replay reads.  Then  *)
(* the questions a request asks of it: who holds what, what is free, what  *)
(* it costs.  Gates (demoFrom, weeksFrom) count as passed.                 *)
(***************************************************************************)
EXTENDS Integers, Sequences, SequencesExt, FiniteSets, FiniteSetsExt

CONSTANTS
  Accounts, Fleets,       \* the accounts, and the serving Fleets
  Demo,                   \* the Demo Fleets among them
  Rate,                   \* HC for an hour of each Fleet
  Hour, Day, Week,        \* in ticks
  Validity,               \* validityMonths of a lot
  WeekHC,                 \* bookings.weekHC
  Discounts,              \* bookings.discounts: {[weeks, off]}, off in percent
  MaxWeeksAhead,          \* bookings.maxWeeksAhead
  DemoAhead, DemoHours    \* ticks ahead and hours in a Week, on a Demo Fleet

ASSUME MarketTimeAssumption ==
  /\ Hour \in Nat \ {0} /\ Day \in Nat \ {0} /\ Week \in Nat \ {0}
  /\ Day < Week /\ Week % Hour = 0 /\ Day % Hour = 0
  /\ Validity \in Nat \ {0}
ASSUME MarketSetAssumption ==
  /\ Demo \subseteq Fleets
  /\ Rate \in [Fleets -> Nat \ {0}]
  /\ WeekHC \in Nat \ {0} /\ MaxWeeksAhead \in Nat \ {0}

-----------------------------------------------------------------------------
\* Time, and sums.
WeekStart(t) == t - (t % Week)
SundayAfter(t) == LET found == WeekStart(t) + (Week - Day)
                  IN IF found > t THEN found ELSE found + Week
SlotFloor(t) == t - (t % Hour)

\* Mutation: a begun hour is not rounded up.
SlotCeilDown(t) == SlotFloor(t)

SlotCeil(t) == IF SlotFloor(t) < t THEN SlotFloor(t) + Hour ELSE t
Larger(x, y) == IF x > y THEN x ELSE y
Smaller(x, y) == IF x < y THEN x ELSE y
Overlap(begins, ends, start, end) ==
  Larger(0, Smaller(ends, end) - Larger(begins, start))

\* What each entry of caps gives when `amount' is drawn from them in order.
Draw(caps, amount) ==
  [i \in DOMAIN caps |->
     LET before == MapThenSumSet(LAMBDA j : caps[j], 1 .. i - 1)
     IN Smaller(caps[i], Larger(0, amount - before))]

-----------------------------------------------------------------------------
\* State: the replay of the ledger's market lines.
Never == -1     \* None, for a time
NoLock == [parts |-> <<>>, joined |-> 0]
NoExtend == [weeks |-> 0, now |-> 0, through |-> 0, waiting |-> "no"]

EmptyState ==
  [lots |-> <<>>, queue |-> <<>>, locks |-> [a \in Accounts |-> NoLock],
   bookings |-> {},
   lapsed |-> [a \in Accounts |-> 0], maintenance |-> {}, round |-> 0,
   extend |-> [x \in Accounts \X Fleets |-> NoExtend],
   downtime |-> {}, failovers |-> {}]

LockHolders(st) == ToSet(st.queue)     \* in the order they joined

\* The lots of an account that hold HC at t, the one that lapses first
\* first: the order on_hc_lot sorts them in.
LotOrder(st, a, t) ==
  SetToSortSeq({i \in DOMAIN st.lots : /\ st.lots[i].account = a
                                       /\ st.lots[i].expires > t
                                       /\ st.lots[i].hc > 0},
               LAMBDA i, j : \/ st.lots[i].expires < st.lots[j].expires
                             \/ st.lots[i].expires = st.lots[j].expires /\ i < j)

Balance(st, a, t) ==
  MapThenSumSet(LAMBDA i : st.lots[i].hc,
                {i \in DOMAIN st.lots : /\ st.lots[i].account = a
                                        /\ st.lots[i].expires > t})
PartsSum(parts) == MapThenSumSet(LAMBDA i : parts[i].hc, DOMAIN parts)
Locked(st, a) == PartsSum(st.locks[a].parts)

\* take: the parts of the lots that `amount' is taken from.
Taken(st, a, amount, t) ==
  LET order == LotOrder(st, a, t)
      drawn == Draw([n \in DOMAIN order |-> st.lots[order[n]].hc], amount)
  IN SelectSeq([n \in DOMAIN order |-> [lot |-> order[n], hc |-> drawn[n]]],
               LAMBDA part : part.hc > 0)

OfLot(parts, i) ==
  MapThenSumSet(LAMBDA n : parts[n].hc, {n \in DOMAIN parts : parts[n].lot = i})
Less(lots, parts) ==
  [i \in DOMAIN lots |-> [lots[i] EXCEPT !.hc = @ - OfLot(parts, i)]]
GiveBack(lots, parts) ==
  [i \in DOMAIN lots |-> [lots[i] EXCEPT !.hc = @ + OfLot(parts, i)]]

\* Mutation: the lock is spent whole.
UnspentForgotten(parts, amount) == <<>>

\* spend: what is left of the parts of a lock once `amount' is spent.
Unspent(parts, amount) ==
  LET drawn == Draw([n \in DOMAIN parts |-> parts[n].hc], amount)
  IN [n \in DOMAIN parts |-> [parts[n] EXCEPT !.hc = @ - drawn[n]]]

OnHcLot(st, d) == [st EXCEPT !.lots = Append(@, d.lot)]

OnBooking(st, d) ==
  LET b == [d.booking EXCEPT !.id = Cardinality(st.bookings) + 1]
      bookings == st.bookings \cup {b}
  IN IF b.source = "waitlist"
     THEN [st EXCEPT !.bookings = bookings,
                     !.queue = Remove(@, b.account),
                     !.locks[b.account] = NoLock,
                     !.lots = GiveBack(@, Unspent(st.locks[b.account].parts,
                                                  b.hc))]
     ELSE [st EXCEPT !.bookings = bookings,
                     !.lots = Less(@, Taken(st, b.account, b.hc, b.now))]

OnLock(st, d) ==
  LET parts == Taken(st, d.account, d.hc, d.now)
      joins == d.account \notin LockHolders(st)
  IN [st EXCEPT !.lots = Less(@, parts),
                !.queue = IF joins THEN Append(@, d.account) ELSE @,
                !.locks[d.account] =
                  [parts |-> @.parts \o parts,
                   joined |-> IF joins THEN d.now ELSE @.joined]]

OnUnlock(st, d) ==
  [st EXCEPT !.lots = GiveBack(@, st.locks[d.account].parts),
             !.queue = Remove(@, d.account),
             !.locks[d.account] = NoLock]

OnLockLapse(st, d) ==
  LET parts == SelectSeq(st.locks[d.account].parts,
                         LAMBDA part : part.lot # d.lot)
  IN [st EXCEPT !.lapsed[d.account] = @ + d.hc,
                !.queue = IF parts = <<>> THEN Remove(@, d.account) ELSE @,
                !.locks[d.account] = IF parts = <<>> THEN NoLock
                                     ELSE [@ EXCEPT !.parts = parts]]

OnAutoExtend(st, d) ==
  [st EXCEPT !.extend[<<d.account, d.fleet>>] =
     IF d.weeks = 0 THEN NoExtend
     ELSE [NoExtend EXCEPT !.weeks = d.weeks, !.now = d.now]]

OnAutoExtendWait(st, d) ==
  [st EXCEPT !.extend[<<d.account, d.fleet>>] =
     [@ EXCEPT !.through = d.through, !.waiting = d.waiting]]

OnDowntime(st, d) ==
  [st EXCEPT !.downtime = {x \in @ : x.span # d.pass.span} \cup {d.pass}]

OnMaintenanceDone(st, d) ==
  [st EXCEPT !.maintenance = {IF m.id = d.id THEN [m EXCEPT !.done = TRUE]
                              ELSE m : m \in @}]

OnFailoverEnd(st, d) ==
  [st EXCEPT !.failovers = {IF f.id = d.id THEN [f EXCEPT !.ends = d.end]
                            ELSE f : f \in @}]

\* The lines whose replay looks up a lock that is not there: KeyError.
Applies(st, line) ==
  /\ line.type \in {"unlock", "lock_lapse"} => line.account \in LockHolders(st)
  /\ line.type = "booking" /\ line.booking.source = "waitlist" =>
       line.booking.account \in LockHolders(st)

Apply(st, line) ==
  CASE line.type = "hc_lot" -> OnHcLot(st, line)
    [] line.type = "booking" -> OnBooking(st, line)
    [] line.type = "lock" -> OnLock(st, line)
    [] line.type = "unlock" -> OnUnlock(st, line)
    [] line.type = "lock_lapse" -> OnLockLapse(st, line)
    [] line.type = "round" -> [st EXCEPT !.round = line.sunday]
    [] line.type = "auto_extend" -> OnAutoExtend(st, line)
    [] line.type = "auto_extend_wait" -> OnAutoExtendWait(st, line)
    [] line.type = "downtime" -> OnDowntime(st, line)
    [] line.type = "failover" -> [st EXCEPT !.failovers = @ \cup {line.failover}]
    [] line.type = "failover_end" -> OnFailoverEnd(st, line)
    [] line.type = "maintenance" ->
         [st EXCEPT !.maintenance = @ \cup {line.maintenance}]
    [] line.type = "maintenance_done" -> OnMaintenanceDone(st, line)

-----------------------------------------------------------------------------
\* Bookings and prices.
OnFleet(st, f) == {b \in st.bookings : b.fleet = f}

\* Mutation: only the first hour has to be free.
BusyAtStart(st, f, start, end) ==
  {b \in OnFleet(st, f) : b.begins <= start /\ b.ends > start}

Busy(st, f, start, end) ==
  {b \in OnFleet(st, f) : b.begins < end /\ b.ends > start}
Maintained(st, f, start, end) ==
  {m \in st.maintenance : m.fleet = f /\ m.begins < end /\ m.ends > start}
WeeksOf(st, a, f) ==
  {b \in OnFleet(st, f) : b.account = a /\ b.kind = "week"}
Latest(bs) == Max({b.ends : b \in bs} \cup {0})

\* weeks_left: the Weeks an account still holds of a Fleet, and their end.
Held(st, a, f, t) == {b \in WeeksOf(st, a, f) : b.ends > t}
WeekCount(st, a, f, t) ==
  MapThenSumSet(LAMBDA b : (b.ends - Larger(b.begins, WeekStart(t))) \div Week,
                Held(st, a, f, t))
Through(st, a, f, t) == Latest(Held(st, a, f, t))

Discount(count) ==
  Max({d.off : d \in {e \in Discounts : e.weeks <= count}} \cup {0})
WeekPrice(f, weeks, off) == (WeekHC * Rate[f] * weeks * (100 - off)) \div 100

LotLine(a, hc, source, ref, t) ==
  [type |-> "hc_lot",
   lot |-> [account |-> a, hc |-> hc, first |-> hc, expires |-> t + Validity,
            source |-> source, ref |-> ref]]

BookingLine(a, f, kind, start, end, hc, source, t) ==
  [type |-> "booking",
   booking |-> [id |-> 0, account |-> a, fleet |-> f, kind |-> kind, begins |-> start,
                ends |-> end, hc |-> hc, source |-> source, now |-> t]]

ExtendLine(a, f, weeks, t) ==
  [type |-> "auto_extend", account |-> a, fleet |-> f, weeks |-> weeks,
   now |-> t]

\* check_demo: how long and how far ahead a Demo Fleet is booked.
DemoUse(bs, w) ==
  MapThenSumSet(LAMBDA b : Overlap(b.begins, b.ends, w, w + Week), bs)
CheckDemo(st, a, f, start, end, t) ==
  /\ end <= t + DemoAhead
  /\ \A w \in {WeekStart(x) : x \in start .. end - 1} :
       DemoUse({b \in OnFleet(st, f) : b.account = a}, w)
         + Overlap(start, end, w, w + Week) <= DemoHours * Hour

\* hour_price: whether hours of a Fleet can be booked.
HoursOpen(st, a, f, start, end, t) ==
  /\ start > t
  /\ IF f \in Demo THEN CheckDemo(st, a, f, start, end, t)
     ELSE end <= WeekStart(t) + Week
  /\ Busy(st, f, start, end) = {}
  /\ Maintained(st, f, start, end) = {}

\* Mutation: the Week after a customer's last one is not kept for them.
FirstRefusalUnpinned(st, f, first, t) ==
  IF \E a \in LockHolders(st) : Locked(st, a) >= WeekHC * Rate[f]
  THEN "waitlist" ELSE "no"

\* check_first: why a Fleet's first Week cannot be booked, or "no".
FirstRefusal(st, f, first, t) ==
  CASE /\ t < first - Day
       /\ \E b \in Busy(st, f, first - Week, first) : b.kind = "week" -> "pinned"
    [] \E a \in LockHolders(st) : Locked(st, a) >= WeekHC * Rate[f] -> "waitlist"
    [] OTHER -> "no"

\* week_plan: the Weeks that would be booked, and what refuses them.
WeekPlan(st, a, f, weeks, t) ==
  LET through == Through(st, a, f, t)
      first == IF through # 0 THEN through ELSE WeekStart(t) + Week
      end == first + Week * weeks
      off == Discount(WeekCount(st, a, f, t) + weeks)
      barred == IF through # 0 THEN "no" ELSE FirstRefusal(st, f, first, t)
  IN [first |-> first, end |-> end, price |-> WeekPrice(f, weeks, off),
      refused |->
        CASE f \in Demo -> "not_weekly"
          [] f \notin Demo /\ barred # "no" -> barred
          [] /\ f \notin Demo /\ barred = "no"
             /\ end - Week > WeekStart(t) + Week * MaxWeeksAhead -> "too_far"
          [] /\ f \notin Demo /\ barred = "no"
             /\ end - Week <= WeekStart(t) + Week * MaxWeeksAhead
             /\ Busy(st, f, first, end) # {} -> "taken"
          [] OTHER -> "no"]

=============================================================================
