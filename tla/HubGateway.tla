----------------------------- MODULE HubGateway -----------------------------
(***************************************************************************)
(* The gateway of tools/sparkpipe_pay.py: a request of an account that     *)
(* holds a Fleet goes to that Fleet's hub or, while the Fleet is down, to a*)
(* free one (failover), and the Guard watches every connection: it looks   *)
(* at the credential and at the hold again every TUNNEL_CHECK seconds and  *)
(* cuts the connection when they end.                                      *)
(*                                                                         *)
(* A tick is GUARD_STEP, one second; an hour of the calendar is HourTicks. *)
(* The Guard's thread sweeps every tick, Lag ticks late at most.  The      *)
(* market's own state is in FleetMarket: here an account has bookings of   *)
(* hours, made before they start, and a credential that may be revoked.    *)
(* The request's body, its throttle and what goes through the connection   *)
(* are left out.                                                           *)
(***************************************************************************)
EXTENDS Integers, FiniteSets, FiniteSetsExt, Sequences

CONSTANTS
  Holders,     \* the accounts
  FleetList,   \* the Fleets, in the order of pricing.js
  Conns,       \* the handler threads, one connection each
  GraceTicks,  \* GRACE_SECONDS
  CheckTicks,  \* TUNNEL_CHECK
  HourTicks, Lag,
  LastTick,    \* the clock's bound
  MaxHours,    \* how many hours are booked
  MaxProbes,   \* how often the probes find a Fleet changed
  MaxRevoked   \* how many accounts have their credential revoked

ASSUME GatewayAssumption ==
  /\ GraceTicks \in Nat /\ CheckTicks \in Nat \ {0} /\ HourTicks \in Nat \ {0}
  /\ Lag \in Nat \ {0} /\ LastTick \in Nat
  /\ MaxHours \in Nat /\ MaxProbes \in Nat /\ MaxRevoked \in Nat
  /\ GraceTicks < HourTicks

VARIABLES
  tick,      \* the clock
  held,      \* the booked hours: sets of [account, fleet, begins]
  revoked,   \* when the credential of an account was revoked, Never if not
  downs,     \* the Fleets whose Uptime entry has an open period
  failovers, \* the failovers that have not ended
  conns,     \* the entry of each connection in Guard.active
  swept,     \* when the Guard swept last
  probed     \* how often a probe has found a Fleet changed

gatewayVars == <<tick, held, revoked, downs, failovers, conns, swept, probed>>

FleetIds == {FleetList[i] : i \in DOMAIN FleetList}
Forever == LastTick + GraceTicks + HourTicks
NoConn == [stage |-> "closed"]

-----------------------------------------------------------------------------
\* What the gateway asks of the market.
Booked_(a, f, t) ==
  \E b \in held : b.account = a /\ b.fleet = f /\ b.begins <= t /\ t < b.begins + HourTicks

HeldNow(a, f) == Booked_(a, f, tick)
Ends(a, f) == {b.begins + HourTicks : b \in {x \in held : x.account = a /\ x.fleet = f}}


\* hold_left: from now through back-to-back hours, or since the last hour that
\* has ended.
HoldEnds(a, f) ==
  IF HeldNow(a, f)
  THEN Min({e \in Ends(a, f) : e > tick /\ ~Booked_(a, f, e)})
  ELSE Max({e \in Ends(a, f) : e <= tick} \cup {tick - GraceTicks})

HoldLeft(a, f) == HoldEnds(a, f) - tick + GraceTicks

\* failover_left: until the next booking of the free Fleet.
FailoverLeft(f) ==
  LET next == {b.begins : b \in {x \in held : x.fleet = f /\ x.begins > tick}} IN
  IF next = {} THEN Forever ELSE Min(next) - tick + GraceTicks

\* advance, as far as failovers go: they end when the held Fleet serves again,
\* when a booking of the free Fleet starts, when the hold ends and when the free
\* Fleet is down too.
Ongoing(fo) ==
  /\ fo.from \in downs /\ fo.to \notin downs
  /\ \A a \in Holders : ~HeldNow(a, fo.to)
  /\ HeldNow(fo.account, fo.from)

\* route: the held Fleet, the one that serves the account's failover already, or
\* the first free one.
FreeFor(a, f, live) ==
  {i \in DOMAIN FleetList :
     /\ FleetList[i] # f /\ FleetList[i] \notin downs
     /\ \A other \in Holders : ~HeldNow(other, FleetList[i])
     /\ \A fo \in live : fo.to = FleetList[i] => fo.account = a}

RouteTo(a, f) ==
  LET live == {fo \in failovers : Ongoing(fo)}
      mine == {fo \in live : fo.account = a /\ fo.from = f}
  IN  IF f \notin downs THEN [to |-> f, failovers |-> live]
      ELSE IF mine # {} THEN [to |-> (CHOOSE fo \in mine : TRUE).to, failovers |-> live]
      ELSE IF FreeFor(a, f, live) = {} THEN [to |-> "none", failovers |-> live]
      ELSE LET to == FleetList[Min(FreeFor(a, f, live))] IN
           [to |-> to, failovers |-> live \cup {[account |-> a, from |-> f, to |-> to]}]

-----------------------------------------------------------------------------
\* Guard.watch
Watched(a, f, to) ==
  [stage |-> "connecting", account |-> a, fleet |-> f, served |-> to,
   since |-> tick, check |-> tick + CheckTicks, cut |-> Forever]

\* hub: principal, admit, route, watch.
Request(c, a, f) ==
  /\ conns[c] = NoConn
  /\ revoked[a] = Forever /\ HeldNow(a, f)
  /\ failovers' = RouteTo(a, f).failovers
  /\ conns' = [conns EXCEPT ![c] = IF RouteTo(a, f).to = "none" THEN NoConn
                                   ELSE Watched(a, f, RouteTo(a, f).to)]
  /\ UNCHANGED <<tick, held, revoked, downs, swept, probed>>

\* forward: the hub takes the connection, or the gateway notes that the Fleet is
\* down and looks for another, once.
Connect(c) ==
  /\ conns[c].stage = "connecting"
  /\ conns' = [conns EXCEPT ![c].stage = "open"]
  /\ UNCHANGED <<tick, held, revoked, downs, failovers, swept, probed>>

\* hub's loop: the Fleet is observed to be down before it routes again.
ConnectFails(c) ==
  /\ conns[c].stage = "connecting"
  /\ conns[c].fleet = conns[c].served
  /\ conns[c].fleet \notin downs
  /\ downs' = downs \cup {conns[c].fleet}
  /\ conns' = [conns EXCEPT ![c].stage = "again"]
  /\ UNCHANGED <<tick, held, revoked, failovers, swept, probed>>

RouteAgain(c) ==
  LET found == RouteTo(conns[c].account, conns[c].fleet) IN
  /\ conns[c].stage = "again"
  /\ failovers' = found.failovers
  /\ conns' = [conns EXCEPT ![c] = IF found.to = "none" THEN NoConn
                                   ELSE Watched(@.account, @.fleet, found.to)]
  /\ UNCHANGED <<tick, held, revoked, downs, swept, probed>>

\* The connection of a failover that fails is an error.
FailoverFails(c) ==
  /\ conns[c].stage = "connecting"
  /\ conns[c].fleet # conns[c].served
  /\ conns' = [conns EXCEPT ![c] = NoConn]
  /\ UNCHANGED <<tick, held, revoked, downs, failovers, swept, probed>>

\* The answer is complete, or one side closes.
Finish(c) ==
  /\ conns[c].stage = "open"
  /\ conns' = [conns EXCEPT ![c] = NoConn]
  /\ UNCHANGED <<tick, held, revoked, downs, failovers, swept, probed>>

\* still: how long the connection may stay; nothing once the credential is no
\* longer good.
Still(c) ==
  LET x == conns[c] IN
  IF revoked[x.account] # Forever THEN 0
  ELSE IF x.served = x.fleet THEN HoldLeft(x.account, x.fleet)
  ELSE Min({HoldLeft(x.account, x.fleet), FailoverLeft(x.served)})

\* Guard.sweep, for one entry: the check first, when it is due, and then the cut.
Swept(c) ==
  LET x == conns[c]
      y == IF tick >= x.check
           THEN [x EXCEPT !.check = tick + CheckTicks, !.cut = tick + Still(c)] ELSE x
  IN  IF tick >= y.cut THEN NoConn ELSE y

Sweep ==
  /\ swept < tick
  /\ swept' = tick
  /\ conns' = [c \in Conns |-> IF conns[c].stage \in {"connecting", "open"}
                               THEN Swept(c) ELSE conns[c]]
  /\ UNCHANGED <<tick, held, revoked, downs, failovers, probed>>

-----------------------------------------------------------------------------
\* The rest of the system.
BookHour(a, f, hour) ==
  /\ Cardinality(held) < MaxHours
  /\ hour * HourTicks > tick /\ hour * HourTicks < LastTick
  /\ \A b \in held : b.fleet = f => b.begins # hour * HourTicks
  /\ held' = held \cup {[account |-> a, fleet |-> f, begins |-> hour * HourTicks]}
  /\ UNCHANGED <<tick, revoked, downs, failovers, conns, swept, probed>>

Revoke(a) ==
  /\ revoked[a] = Forever
  /\ Cardinality({b \in Holders : revoked[b] # Forever}) < MaxRevoked
  /\ revoked' = [revoked EXCEPT ![a] = tick]
  /\ UNCHANGED <<tick, held, downs, failovers, conns, swept, probed>>

\* Uptime.observe, by the probes.
Probe(f, isUp) ==
  /\ downs' = IF isUp THEN downs \ {f} ELSE downs \cup {f}
  /\ downs' # downs
  /\ probed < MaxProbes /\ probed' = probed + 1
  /\ UNCHANGED <<tick, held, revoked, failovers, conns, swept>>

Second ==
  /\ tick < LastTick /\ tick + 1 - swept <= Lag
  /\ tick' = tick + 1
  /\ UNCHANGED <<held, revoked, downs, failovers, conns, swept, probed>>

GatewayInit ==
  /\ tick = 0 /\ swept = 0 /\ probed = 0
  /\ \E a \in Holders, hours \in 0 .. 2 :
       held = {[account |-> a, fleet |-> FleetList[1], begins |-> h * HourTicks] :
                 h \in 0 .. hours - 1}
  /\ revoked = [a \in Holders |-> Forever]
  /\ downs = {} /\ failovers = {}
  /\ conns = [c \in Conns |-> NoConn]

ConnStep(c) ==
  Connect(c) \/ ConnectFails(c) \/ RouteAgain(c) \/ FailoverFails(c) \/ Finish(c)

GatewayNext ==
  \/ \E c \in Conns, a \in Holders, f \in FleetIds : Request(c, a, f)
  \/ \E c \in Conns : ConnStep(c)
  \/ Sweep
  \/ \E a \in Holders, f \in FleetIds, hour \in 1 .. LastTick : BookHour(a, f, hour)
  \/ \E a \in Holders : Revoke(a)
  \/ \E f \in FleetIds, isUp \in BOOLEAN : Probe(f, isUp)
  \/ Second

GatewaySpec == GatewayInit /\ [][GatewayNext]_gatewayVars

-----------------------------------------------------------------------------
Streams(c) == conns[c].stage \in {"connecting", "open"}


=============================================================================
