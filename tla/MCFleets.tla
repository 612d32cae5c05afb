------------------------------ MODULE MCFleets ------------------------------
(***************************************************************************)
(* The market of Fleets, and the gateway to them, for TLC.  A behaviour is *)
(* one of one of the two, in one of its scenarios; the other stands still. *)
(***************************************************************************)
EXTENDS FleetMarket, HubGateway, TLC

CONSTANTS Parts, a1, a2, f1, f2, f3

VARIABLE part

-----------------------------------------------------------------------------
(* The market.                                                             *)

MCAccountOrder == <<a1, a2>>
MCFleetOrder == <<f1, f2, f3>>
MCRate == [f \in {f1, f2, f3} |-> 1]
MCDiscounts == {[weeks |-> 2, off |-> 25]}

Bought(x, y) ==
  <<LotLine(a1, x, "purchase", 0, 0), LotLine(a2, y, "purchase", 0, 0)>>

Hours(a, f, start, end) ==
  BookingLine(a, f, "hour", start, end, (end - start) \div Hour, "hc", 0)

Scenario(ops, who, where, watched, ledger, stride, until, max) ==
  [ops |-> ops, beside |-> "credit" \in ops, who |-> who, where |-> where,
   watched |-> watched, ledger |-> ledger, stride |-> stride, until |-> until,
   max |-> max]

AtMost(lots, bookings, stop, spans) ==
  [lots |-> lots, bookings |-> bookings, stops |-> stop, spans |-> spans,
   failovers |-> 2, hours |-> 2]

\* Weeks: booked, waited for, given up, and extended.
Weeks ==
  {Scenario({"weeks", "join"}, {a1, a2}, {f1}, {}, Bought(4, 4), 2, 12,
            AtMost(3, 2, 1, 0)),
   Scenario({"leave", "join", "buy"}, {a1, a2}, {f1}, {}, Bought(2, 3), 2, 12,
            AtMost(3, 2, 1, 0)),
   Scenario({"weeks", "extend", "terms"}, {a1, a2}, {f1}, {}, Bought(4, 2), 2,
            12, AtMost(3, 2, 1, 0))}

\* Hours, on a Fleet and on a Demo Fleet, beside Weeks.
HoursAndWeeks ==
  {Scenario({"hours", "weeks"}, {a1, a2}, {f1, f3}, {}, Bought(3, 3), 2, 8,
            AtMost(3, 2, 1, 0))}

\* Fleets that fail: outages and maintenance are credited, requests go to
\* another Fleet, a pair is lost while an operator credits an account.
Failures ==
  {Scenario({}, {}, {}, {f1},
            Bought(2, 1) \o <<Hours(a1, f1, 0, 4), Hours(a2, f1, 4, 6)>>, 1, 7,
            AtMost(3, 2, 1, 2)),
   Scenario({"maintenance"}, {a1}, {f1}, {f1},
            Bought(3, 1) \o <<BookingLine(a1, f1, "week", 6, 12, 2, "hc", 0)>>,
            2, 12, AtMost(3, 1, 1, 1)),
   Scenario({"route"}, {a1, a2}, {f1, f2}, {f1, f2, f3},
            Bought(2, 2) \o <<Hours(a1, f1, 0, 4), Hours(a2, f2, 0, 4)>>, 1, 2,
            AtMost(3, 2, 0, 1)),
   Scenario({"route"}, {a1}, {f1}, {f1, f3},
            Bought(2, 2) \o <<Hours(a1, f1, 0, 4), Hours(a2, f3, 2, 4)>>, 1, 3,
            AtMost(3, 2, 1, 1)),
   Scenario({"loss", "credit", "hours"}, {a1}, {f1}, {},
            Bought(1, 1) \o <<Hours(a1, f1, 0, 2)>>, 2, 4,
            AtMost(5, 3, 1, 0))}

NoScenario == Scenario({}, {}, {}, {}, <<>>, 1, 0, AtMost(0, 0, 0, 0))

\* An operator schedules maintenance, by a process of its own, as the round
\* of the waitlist comes due.
CommandBeside ==
  {[Scenario({"join", "maintenance"}, {a1, a2}, {f1}, {}, Bought(2, 2), 2, 4,
             AtMost(2, 2, 0, 1)) EXCEPT !.beside = TRUE]}

MCScenarios == {NoScenario} \cup Weeks \cup HoursAndWeeks \cup Failures

-----------------------------------------------------------------------------
MCFleetList == <<f1, f2>>

vars == <<part, marketVars, gatewayVars>>

\* The part that stands still starts in one state only.
Init ==
  /\ part \in Parts
  /\ MarketInit /\ GatewayInit
  /\ part # "market" => offered = NoScenario
  /\ part # "gateway" => held = {}

Next ==
  \/ part = "market" /\ MarketNext /\ UNCHANGED <<part, gatewayVars>>
  \/ part = "gateway" /\ GatewayNext /\ UNCHANGED <<part, marketVars>>

Spec == Init /\ [][Next]_vars

\* The accounts of the gateway are alike.
Symmetry == Permutations(Holders)
=============================================================================
