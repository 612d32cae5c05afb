-------------------------- MODULE PayOrdersProofs --------------------------
(***************************************************************************)
(* An order gets its HC once, for any number of orders and threads, any    *)
(* total and tolerances, and whether or not commands run beside the        *)
(* service.                                                                *)
(*                                                                         *)
(* The argument: each order has one process that may issue it (Issues), as *)
(* its processor and the answer of the processor decide.  That process's   *)
(* Book agrees with the ledger on whether the order was issued (Agreed),   *)
(* so the lines of issue are decided on only when it was not, and no other *)
(* process writes any (LinesSound, IssueWhole).                            *)
(***************************************************************************)
EXTENDS PayOrders, TLAPS

-----------------------------------------------------------------------------
(* The inductive invariant.                                                *)

IsOrder(o) ==
  o = [state |-> o.state, invoice |-> o.invoice, key |-> o.key, issued |-> o.issued,
       received |-> o.received, reason |-> o.reason, refunded |-> o.refunded,
       excess |-> o.excess, lots |-> o.lots, left |-> o.left]

IsRemote(r) ==
  r = [status |-> r.status, received |-> r.received, balance |-> r.balance,
       matches |-> r.matches, asked |-> r.asked, account |-> r.account]

CoinStatuses == {"none", "unpaid", "pending", "completed", "timedout"}
LineTypes == {"order", "invoice", "state", "toss_payment", "payment", "hc_issued",
              "hc_lot", "refund", "hc_debit", "booking"}

\* An invoice that was paid with another amount or currency than the order's.
Mismatched(x) == remote[x].status = "completed" /\ ~remote[x].matches

\* The process that may issue an order: settle and toss_apply in the service,
\* release and swift-confirm in a command.
Issues(p, x) ==
  \/ /\ sale.by[x] = "coin" /\ remote[x].status = "completed"
     /\ IF p = Server THEN remote[x].matches ELSE ~remote[x].matches
  \/ sale.by[x] = "toss" /\ p = Server
  \/ sale.by[x] = "swift" /\ p = Command

RemoteInv ==
  /\ DOMAIN remote = Orders
  /\ \A x \in Orders :
       /\ IsRemote(remote[x])
       /\ sale.by[x] = "coin" => remote[x].status \in CoinStatuses

\* What a replay of the ledger, whole or of what a process has read, may say.
BookSound(book) ==
  /\ DOMAIN book = Orders
  /\ \A x \in Orders :
       /\ IsOrder(book[x]) /\ book[x].issued \in BOOLEAN
       /\ book[x].issued => orders[x].issued
       /\ book[x].invoice => sale.by[x] = "coin" /\ remote[x].status # "none"

LedgerSound ==
  \A x \in Orders :
    /\ ~orders[x].issued => orders[x].lots = <<>>
    /\ Len(orders[x].lots) <= 1
    /\ sale.by[x] = "coin" =>
         /\ orders[x].issued => remote[x].status = "completed"
         /\ orders[x].state = "mismatch" => Mismatched(x)
         /\ remote[x].status # "none" => orders[x].state # "none"

\* What the Books of the processes that run agree on with the ledger.
Agreed ==
  \A x \in Orders :
    /\ \A p \in alive : Issues(p, x) => known[p][x].issued = orders[x].issued
    /\ Server \in alive /\ known[Server][x].state = "none" => orders[x].state = "none"

BooksInv ==
  /\ DOMAIN known = Writers /\ alive \subseteq Writers
  /\ BookSound(orders) /\ \A p \in Writers : BookSound(known[p])
  /\ LedgerSound /\ Agreed

IsIssue(line) == line.type \in {"hc_issued", "hc_lot"}

LineSound(p, x, line) ==
  /\ x \in Orders /\ line.type \in LineTypes
  /\ line.type = "order" => p = Server
  /\ line.type = "invoice" => sale.by[x] = "coin" /\ remote[x].status # "none"
  /\ line.type = "state" =>
       /\ line.state # "none"
       /\ line.state = "mismatch" /\ sale.by[x] = "coin" => Mismatched(x)
  /\ IsIssue(line) => Issues(p, x)

\* A sequence of lines; what its elements are is said elsewhere.
Elements(s) == {s[n] : n \in DOMAIN s}
IsSequence(s) == s \in Seq(Elements(s))

LinesSound ==
  /\ DOMAIN owed = Writers
  /\ \A p \in Writers :
       /\ IsSequence(owed[p])
       /\ p \notin alive => owed[p] = <<>>
       /\ \A n \in DOMAIN owed[p] : LineSound(p, owed[p][n].order, owed[p][n].line)

\* hc_issued is followed by its hc_lot, which is the last line, and neither is
\* owed for an order that has them.
IssueAt(lines, n) ==
  LET x == lines[n].order
      type == lines[n].line.type
  IN  /\ type = "hc_issued" =>
           /\ ~orders[x].issued
           /\ n + 1 = Len(lines) /\ lines[n + 1].order = x
           /\ lines[n + 1].line.type = "hc_lot"
      /\ type = "hc_lot" =>
           /\ n = Len(lines) /\ orders[x].lots = <<>>
           /\ IF n = 1 THEN orders[x].issued
              ELSE /\ lines[n - 1].order = x
                   /\ lines[n - 1].line.type = "hc_issued"

IssueWhole == \A p \in Writers : \A n \in DOMAIN owed[p] : IssueAt(owed[p], n)

\* What a thread is at.
TossStages == {"confirm", "apply", "refuse", "expiry", "cancel", "close"}
OrderOwed(x) == \E n \in DOMAIN owed[Server] :
                  owed[Server][n].order = x /\ owed[Server][n].line.type = "order"

Applied(stage, x, answer, next) ==
  [stage |-> stage, order |-> x, answer |-> answer, next |-> next]

StageSound(t) ==
  /\ at[t].stage = "invoice" =>
       /\ at[t].order \in Orders /\ sale.by[at[t].order] = "coin"
       /\ Server \in alive /\ remote[at[t].order].status = "none"
       /\ orders[at[t].order].state # "none" \/ OrderOwed(at[t].order)
  /\ at[t].stage \in TossStages =>
       at[t].order \in Orders /\ sale.by[at[t].order] = "toss"
  /\ at[t].stage \in {"apply", "refuse"} =>
       /\ at[t] = Applied(at[t].stage, at[t].order, at[t].answer, at[t].next)
       /\ at[t].next \in {"idle", "expiry"}
  /\ at[t].stage = "settle" =>
       /\ at[t].order \in Orders /\ sale.by[at[t].order] = "coin"
       /\ at[t].answer.status \in CoinStatuses \ {"none"}
       /\ at[t].answer.status = "completed" =>
            /\ remote[at[t].order].status = "completed"
            /\ remote[at[t].order].matches = at[t].answer.matches

CommandSound ==
  Command \in alive =>
    /\ at[Command].stage \in {"release", "swift-confirm", "swift-cancel", "refund", "exit"}
    /\ at[Command].order \in Orders
    /\ orders[at[Command].order].state # "none"
    /\ at[Command].stage = "release" /\ sale.by[at[Command].order] = "coin" =>
         Mismatched(at[Command].order)
    /\ \A n \in DOMAIN owed[Command] : owed[Command][n].order = at[Command].order

StagesInv ==
  /\ DOMAIN at = Threads
  /\ \A t \in Threads : t # Command => StageSound(t)
  /\ \A t, u \in Threads \ {Command} :
       /\ at[t].stage = "invoice" /\ at[u].stage = "invoice"
       /\ at[t].order = at[u].order
       => t = u
  /\ CommandSound

PayInv == RemoteInv /\ BooksInv /\ LinesSound /\ IssueWhole /\ StagesInv

-----------------------------------------------------------------------------
(* Sequences of lines.                                                     *)

LEMMA SequenceOf ==
  ASSUME NEW S, NEW s \in Seq(S)
  PROVE  IsSequence(s)
<1>1. Len(s) \in Nat /\ s \in [1 .. Len(s) -> S] /\ DOMAIN s = 1 .. Len(s)
  OBVIOUS
<1>2. s \in [1 .. Len(s) -> Elements(s)]
  BY <1>1 DEF Elements
<1> QED
  BY <1>1, <1>2 DEF IsSequence

LEMMA SequenceIs ==
  ASSUME NEW s, IsSequence(s)
  PROVE  Len(s) \in Nat /\ DOMAIN s = 1 .. Len(s)
BY DEF IsSequence

LEMMA EmptySequence == IsSequence(<<>>) /\ Len(<<>>) = 0 /\ DOMAIN <<>> = {}
<1>1. <<>> \in Seq({0}) /\ Len(<<>>) = 0
  OBVIOUS
<1>2. IsSequence(<<>>)
  BY <1>1, SequenceOf, Zenon
<1>3. DOMAIN <<>> = 1 .. 0
  BY <1>1, <1>2, SequenceIs
<1> QED
  BY <1>1, <1>2, <1>3

LEMMA TailIs ==
  ASSUME NEW s, IsSequence(s), s # <<>>
  PROVE  /\ IsSequence(Tail(s)) /\ Head(s) = s[1]
         /\ Len(s) \in Nat \ {0} /\ DOMAIN s = 1 .. Len(s)
         /\ Len(Tail(s)) = Len(s) - 1 /\ DOMAIN Tail(s) = 1 .. Len(s) - 1
         /\ \A n \in 1 .. Len(s) - 1 : Tail(s)[n] = s[n + 1]
<1> DEFINE S == Elements(s)
<1>1. s \in Seq(S)
  BY DEF IsSequence
<1> HIDE DEF S
<1>2. /\ Tail(s) \in Seq(S) /\ Len(Tail(s)) = Len(s) - 1
      /\ \A n \in 1 .. Len(Tail(s)) : Tail(s)[n] = s[n + 1]
  BY <1>1
<1>3. Len(s) \in Nat \ {0} /\ DOMAIN s = 1 .. Len(s)
  <2>1. Len(s) \in Nat /\ DOMAIN s = 1 .. Len(s)
    BY <1>1
  <2>2. Len(s) # 0
    BY <1>1
  <2> QED
    BY <2>1, <2>2
<1>4. IsSequence(Tail(s)) /\ DOMAIN Tail(s) = 1 .. Len(Tail(s))
  BY <1>2, SequenceOf, SequenceIs, Zenon
<1>5. Head(s) = s[1]
  BY <1>1
<1> QED
  BY <1>2, <1>3, <1>4, <1>5

\* The lines that a process owes for an order.
OwedFor(x, lines) == [n \in DOMAIN lines |-> [order |-> x, line |-> lines[n]]]

LEMMA OwedForIs ==
  ASSUME NEW x, NEW lines, IsSequence(lines)
  PROVE  /\ IsSequence(OwedFor(x, lines)) /\ Len(OwedFor(x, lines)) = Len(lines)
         /\ DOMAIN OwedFor(x, lines) = DOMAIN lines
         /\ \A n \in DOMAIN lines : /\ OwedFor(x, lines)[n].order = x
                                    /\ OwedFor(x, lines)[n].line = lines[n]
<1> DEFINE o == OwedFor(x, lines)
           S == {o[n] : n \in DOMAIN lines}
<1>1. Len(lines) \in Nat /\ DOMAIN lines = 1 .. Len(lines)
  BY SequenceIs
<1>2. o \in [1 .. Len(lines) -> S] /\ DOMAIN o = 1 .. Len(lines)
  BY <1>1 DEF OwedFor
<1>3. \A n \in DOMAIN lines : o[n].order = x /\ o[n].line = lines[n]
  BY DEF OwedFor
<1> HIDE DEF o, S
<1>4. o \in Seq(S)
  BY <1>1, <1>2
<1>5. IsSequence(o) /\ Len(o) = Len(lines)
  BY SMTT(60), <1>1, <1>2, <1>4, SequenceOf
<1> QED
  BY <1>1, <1>2, <1>3, <1>5 DEF o

-----------------------------------------------------------------------------
(* Book.apply.                                                             *)

LEMMA BookedIs ==
  ASSUME NEW o, IsOrder(o), o.issued \in BOOLEAN, NEW line, line.type \in LineTypes
  PROVE  /\ IsOrder(Booked(o, line)) /\ Booked(o, line).issued \in BOOLEAN
         /\ Booked(o, line).issued <=> o.issued \/ line.type = "hc_issued"
         /\ Booked(o, line).invoice => o.invoice \/ line.type = "invoice"
         /\ line.type # "hc_lot" => Booked(o, line).lots = o.lots
         /\ line.type = "hc_lot" => Booked(o, line).lots = Append(o.lots, line.hc)
         /\ \/ Booked(o, line).state = o.state /\ line.type # "order"
            \/ Booked(o, line).state \in {"unpaid", "created", "completed", "refunded"}
            \/ line.type = "state" /\ Booked(o, line).state = line.state
<1>1. CASE line.type = "order"
  BY <1>1 DEF Booked, IsOrder
<1>2. CASE line.type = "invoice"
  BY <1>2, Zenon DEF Booked, IsOrder
<1>3. CASE line.type = "state"
  BY <1>3, Zenon DEF Booked, IsOrder
<1>4. CASE line.type = "toss_payment"
  BY <1>4, Zenon DEF Booked, IsOrder
<1>5. CASE line.type = "payment"
  BY <1>5, Zenon DEF Booked, IsOrder
<1>6. CASE line.type = "hc_issued"
  BY <1>6, Zenon DEF Booked, IsOrder
<1>7. CASE line.type = "hc_lot"
  BY <1>7, Zenon DEF Booked, IsOrder
<1>8. CASE line.type = "refund"
  BY <1>8, ZenonT(60) DEF Booked, IsOrder
<1>9. CASE line.type \in {"hc_debit", "booking"}
  BY <1>9 DEF Booked, IsOrder
<1> QED
  BY <1>1, <1>2, <1>3, <1>4, <1>5, <1>6, <1>7, <1>8, <1>9 DEF LineTypes

-----------------------------------------------------------------------------
(* The lines of issue.                                                     *)

\* hc_issued and hc_lot are the last two lines, if they are there at all.
IssueShape(lines) ==
  /\ IsSequence(lines)
  /\ \A n \in DOMAIN lines :
       /\ lines[n].type \in LineTypes
       /\ lines[n].type = "hc_issued" =>
            n + 1 = Len(lines) /\ lines[n + 1].type = "hc_lot"
       /\ lines[n].type = "hc_lot" =>
            n > 1 /\ n = Len(lines) /\ lines[n - 1].type = "hc_issued"

LEMMA OneLine ==
  ASSUME NEW line
  PROVE  /\ IsSequence(<<line>>) /\ Len(<<line>>) = 1
         /\ DOMAIN <<line>> = {1} /\ <<line>>[1] = line
<1>1. <<line>> \in Seq({line})
  OBVIOUS
<1>2. IsSequence(<<line>>)
  BY <1>1, SequenceOf, Zenon
<1> QED
  BY <1>2

LEMMA PlainShape ==
  ASSUME NEW lines, IsSequence(lines),
         \A n \in DOMAIN lines : lines[n].type \in LineTypes /\ ~IsIssue(lines[n])
  PROVE  IssueShape(lines)
BY DEF IssueShape, IsIssue

\* c is a followed by b.
IsJoin(a, b, c) ==
  /\ IsSequence(c) /\ Len(c) = Len(a) + Len(b)
  /\ \A n \in DOMAIN c :
       \/ n \in DOMAIN a /\ c[n] = a[n]
       \/ n > Len(a) /\ n - Len(a) \in DOMAIN b /\ c[n] = b[n - Len(a)]
  /\ \A n \in DOMAIN b : c[Len(a) + n] = b[n]

LEMMA JoinedDomain ==
  ASSUME NEW a, NEW b, NEW c, NEW k \in Nat, NEW m \in Nat,
         DOMAIN a = 1 .. k, DOMAIN b = 1 .. m, DOMAIN c = 1 .. k + m,
         \A n \in 1 .. k + m : c[n] = IF n <= k THEN a[n] ELSE b[n - k]
  PROVE  /\ \A n \in DOMAIN c : \/ n \in DOMAIN a /\ c[n] = a[n]
                                \/ n > k /\ n - k \in DOMAIN b /\ c[n] = b[n - k]
         /\ \A n \in DOMAIN b : c[k + n] = b[n]
<1>1. ASSUME NEW n \in DOMAIN c
      PROVE  \/ n \in DOMAIN a /\ c[n] = a[n]
             \/ n > k /\ n - k \in DOMAIN b /\ c[n] = b[n - k]
  OBVIOUS
<1>2. ASSUME NEW n \in DOMAIN b
      PROVE  c[k + n] = b[n]
  <2>1. k + n \in 1 .. k + m /\ ~(k + n <= k) /\ (k + n) - k = n
    OBVIOUS
  <2> QED
    BY <2>1
<1> QED
  BY <1>1, <1>2

LEMMA Joined ==
  ASSUME NEW a, NEW b, IsSequence(a), IsSequence(b)
  PROVE  IsJoin(a, b, a \o b)
<1> DEFINE S == Elements(a) \cup Elements(b)
           c == a \o b
<1>1. a \in Seq(S) /\ b \in Seq(S)
  <2>1. a \in [1 .. Len(a) -> Elements(a)] /\ Len(a) \in Nat
    BY DEF IsSequence
  <2>2. b \in [1 .. Len(b) -> Elements(b)] /\ Len(b) \in Nat
    BY DEF IsSequence
  <2>3. a \in [1 .. Len(a) -> S] /\ b \in [1 .. Len(b) -> S]
    BY <2>1, <2>2
  <2> QED
    BY <2>1, <2>2, <2>3
<1> HIDE DEF S
<1>2. c \in Seq(S) /\ Len(c) = Len(a) + Len(b)
  BY <1>1
<1>3. \A n \in 1 .. Len(a) + Len(b) :
        c[n] = IF n <= Len(a) THEN a[n] ELSE b[n - Len(a)]
  BY <1>1
<1> HIDE DEF c
<1>4. IsSequence(c)
  BY <1>2, SequenceOf, Zenon
<1>5. Len(a) \in Nat /\ DOMAIN a = 1 .. Len(a) /\ Len(b) \in Nat /\ DOMAIN b = 1 .. Len(b)
  BY SequenceIs, Zenon
<1>6. DOMAIN c = 1 .. Len(a) + Len(b)
  BY <1>2, <1>4, SequenceIs, Zenon
<1>7. /\ \A n \in DOMAIN c :
           \/ n \in DOMAIN a /\ c[n] = a[n]
           \/ n > Len(a) /\ n - Len(a) \in DOMAIN b /\ c[n] = b[n - Len(a)]
      /\ \A n \in DOMAIN b : c[Len(a) + n] = b[n]
  <2> DEFINE k == Len(a)
             m == Len(b)
  <2>1. /\ k \in Nat /\ m \in Nat /\ DOMAIN a = 1 .. k /\ DOMAIN b = 1 .. m
        /\ DOMAIN c = 1 .. k + m
        /\ \A n \in 1 .. k + m : c[n] = IF n <= k THEN a[n] ELSE b[n - k]
    BY <1>3, <1>5, <1>6, Zenon
  <2> HIDE DEF k, m
  <2>2. /\ \A n \in DOMAIN c : \/ n \in DOMAIN a /\ c[n] = a[n]
                               \/ n > k /\ n - k \in DOMAIN b /\ c[n] = b[n - k]
        /\ \A n \in DOMAIN b : c[k + n] = b[n]
    BY SMTT(60), <2>1, JoinedDomain
  <2> QED
    BY <2>2 DEF k
<1>8. IsJoin(a, b, c)
  BY <1>2, <1>4, <1>7, Zenon DEF IsJoin
<1> QED
  BY <1>8 DEF c

LEMMA JoinedShape ==
  ASSUME NEW a, NEW b, NEW c, IsJoin(a, b, c), IsSequence(a), IssueShape(b),
         \A n \in DOMAIN a : a[n].type \in LineTypes /\ ~IsIssue(a[n])
  PROVE  IssueShape(c)
<1>1. PICK k : k = Len(a) /\ k \in Nat
  BY SequenceIs, Zenon
<1>2. PICK m : m = Len(b) /\ m \in Nat /\ DOMAIN b = 1 .. m
  BY SequenceIs, Zenon DEF IssueShape
<1>3. /\ IsSequence(c) /\ Len(c) = k + m
      /\ \A n \in DOMAIN c :
           \/ n \in DOMAIN a /\ c[n] = a[n]
           \/ n > k /\ n - k \in DOMAIN b /\ c[n] = b[n - k]
      /\ \A n \in DOMAIN b : c[k + n] = b[n]
  BY <1>1, <1>2, Zenon DEF IsJoin
<1>4. DOMAIN c = 1 .. k + m
  BY <1>3, SequenceIs, Zenon
<1>5. ASSUME NEW n \in DOMAIN c
      PROVE  /\ c[n].type \in LineTypes
             /\ c[n].type = "hc_issued" => n + 1 = k + m /\ c[n + 1].type = "hc_lot"
             /\ c[n].type = "hc_lot" =>
                  n > 1 /\ n = k + m /\ c[n - 1].type = "hc_issued"
  <2>1. CASE n \in DOMAIN a /\ c[n] = a[n]
    BY <2>1, Zenon DEF IsIssue
  <2>2. CASE n > k /\ n - k \in DOMAIN b /\ c[n] = b[n - k]
    <3>1. PICK i \in DOMAIN b : i \in 1 .. m /\ n = k + i /\ c[n] = b[i]
      <4>1. n - k \in 1 .. m /\ n = k + (n - k)
        BY <1>1, <1>2, <1>4, <2>2
      <4> QED
        BY <2>2, <4>1, Zenon
    <3>2. /\ b[i].type \in LineTypes
          /\ b[i].type = "hc_issued" => i + 1 = m /\ b[i + 1].type = "hc_lot"
          /\ b[i].type = "hc_lot" =>
               i > 1 /\ i = m /\ b[i - 1].type = "hc_issued"
      BY <1>2, <3>1, Zenon DEF IssueShape
    <3>3. b[i].type = "hc_issued" => c[n + 1] = b[i + 1] /\ n + 1 = k + m
      <4>1. SUFFICES ASSUME i + 1 = m
                     PROVE  i + 1 \in DOMAIN b /\ n + 1 = k + (i + 1) /\ n + 1 = k + m
        BY <1>3, <3>2
      <4> QED
        BY <1>1, <1>2, <3>1, <4>1
    <3>4. b[i].type = "hc_lot" => c[n - 1] = b[i - 1] /\ n > 1 /\ n = k + m
      <4>1. SUFFICES ASSUME i > 1, i = m
                     PROVE  /\ i - 1 \in DOMAIN b /\ n - 1 = k + (i - 1)
                            /\ n > 1 /\ n = k + m
        BY <1>3, <3>2
      <4> QED
        BY <1>1, <1>2, <3>1, <4>1
    <3> QED
      BY <3>1, <3>2, <3>3, <3>4
  <2> QED
    BY <1>3, <2>1, <2>2, Zenon
<1> QED
  BY <1>3, <1>5, Zenon DEF IssueShape

LEMMA IssueLinesAre ==
  ASSUME NEW o, NEW received, NEW hc
  PROVE  /\ IssueShape(IssueLines(o, received, hc))
         /\ \A n \in DOMAIN IssueLines(o, received, hc) :
              IssueLines(o, received, hc)[n].type \in {"payment", "hc_issued", "hc_lot"}
<1> DEFINE b == <<[type |-> "hc_issued"], [type |-> "hc_lot", hc |-> hc]>>
           a == IF o.state # "completed"
                THEN <<[type |-> "payment", received |-> received]>> ELSE <<>>
<1>1. /\ DOMAIN b = {1, 2} /\ Len(b) = 2
      /\ b[1].type = "hc_issued" /\ b[2].type = "hc_lot"
  OBVIOUS
<1>2. IsSequence(b)
  <2>1. b \in Seq({b[1], b[2]})
    OBVIOUS
  <2> QED
    BY <2>1, SequenceOf, Zenon
<1>3. IsSequence(a) /\ \A n \in DOMAIN a : a[n].type = "payment"
  <2>1. CASE o.state = "completed"
    BY <2>1, EmptySequence
  <2>2. CASE o.state # "completed"
    BY <2>2, OneLine
  <2> QED
    BY <2>1, <2>2
<1>4. IssueLines(o, received, hc) = a \o b
  BY DEF IssueLines
<1> HIDE DEF a, b
<1>5. IssueShape(b)
  BY <1>1, <1>2 DEF IssueShape, LineTypes
<1>6. IsJoin(a, b, a \o b)
  BY <1>2, <1>3, Joined, Zenon
<1>7. IssueShape(a \o b)
  BY <1>3, <1>5, <1>6, JoinedShape, Zenon DEF LineTypes, IsIssue
<1>8. \A n \in DOMAIN (a \o b) : (a \o b)[n].type \in {"payment", "hc_issued", "hc_lot"}
  <2>1. ASSUME NEW n \in DOMAIN b
        PROVE  b[n].type \in {"payment", "hc_issued", "hc_lot"}
    BY <1>1, Zenon
  <2> QED
    BY <1>3, <1>6, <2>1, Zenon DEF IsJoin
<1> QED
  BY <1>4, <1>7, <1>8, Zenon

-----------------------------------------------------------------------------
(* What the steps have in common.                                          *)

\* What a processor holds of an order goes on as CoinPayments has it.
Steady ==
  /\ sale' = sale /\ RemoteInv'
  /\ \A x \in Orders : sale.by[x] = "coin" =>
       /\ remote[x].status = "completed" =>
            /\ remote'[x].status = "completed"
            /\ remote'[x].matches = remote[x].matches
       /\ remote[x].status # "none" => remote'[x].status # "none"
       /\ remote'[x].status # "none" => orders[x].state # "none"

LEMMA Untouched ==
  ASSUME PayInv, UNCHANGED <<remote, sale>>
  PROVE  Steady
BY Zenon DEF PayInv, RemoteInv, BooksInv, LedgerSound, Steady

LEMMA Touched ==
  ASSUME PayInv, sale' = sale, NEW x \in Orders, DOMAIN remote' = Orders,
         IsRemote(remote'[x]), \A y \in Orders : y # x => remote'[y] = remote[y],
         sale.by[x] = "coin" =>
           /\ remote'[x].status \in CoinStatuses \ {"none"}
           /\ remote[x].status # "completed" /\ orders[x].state # "none"
  PROVE  Steady
<1>2. ASSUME NEW y \in Orders
      PROVE  IsRemote(remote'[y]) /\ (sale'.by[y] = "coin" => remote'[y].status \in CoinStatuses)
  BY Zenon DEF PayInv, RemoteInv
<1>3. RemoteInv'
  BY <1>2, Zenon DEF RemoteInv, IsRemote
<1>4. ASSUME NEW y \in Orders, sale.by[y] = "coin"
      PROVE  /\ remote[y].status = "completed" =>
                  /\ remote'[y].status = "completed"
                  /\ remote'[y].matches = remote[y].matches
             /\ remote[y].status # "none" => remote'[y].status # "none"
             /\ remote'[y].status # "none" => orders[y].state # "none"
  <2>1. CASE y = x
    BY <1>4, <2>1, Zenon
  <2>2. CASE y # x
    BY <1>4, <2>2, Zenon DEF PayInv, BooksInv, LedgerSound
  <2> QED
    BY <2>1, <2>2
<1> QED
  BY <1>3, <1>4, Zenon DEF Steady

\* At most one process issues an order.
LEMMA IssuesAlone ==
  ASSUME NEW p \in Writers, NEW q \in Writers, NEW x \in Orders,
         Issues(p, x), Issues(q, x)
  PROVE  p = q
BY DEF Issues, Writers, Server, Command

LEMMA IssuesSteady ==
  ASSUME Steady, NEW p \in Writers, NEW x \in Orders
  PROVE  /\ Issues(p, x) => Issues(p, x)'
         /\ Issues(p, x)' => \/ Issues(p, x)
                             \/ sale.by[x] = "coin" /\ remote[x].status # "completed"
BY Zenon DEF Steady, Issues

LEMMA LineSteady ==
  ASSUME Steady, NEW p \in Writers, NEW x, NEW line, LineSound(p, x, line)
  PROVE  LineSound(p, x, line)'
<1>1. x \in Orders /\ (IsIssue(line) => Issues(p, x)')
  BY IssuesSteady, Zenon DEF LineSound
<1>2. sale.by[x] = "coin" /\ remote[x].status # "none" =>
        sale'.by[x] = "coin" /\ remote'[x].status # "none"
  BY <1>1, Zenon DEF Steady
<1>3. sale'.by[x] = "coin" /\ Mismatched(x) => Mismatched(x)'
  BY <1>1, Zenon DEF Steady, Mismatched
<1>4. sale' = sale
  BY DEF Steady
<1> QED
  BY <1>1, <1>2, <1>3, <1>4, Zenon DEF LineSound

LEMMA BooksSteady ==
  ASSUME PayInv, Steady, UNCHANGED <<orders, known, alive>>
  PROVE  BooksInv'
<1>1. ASSUME NEW book, BookSound(book)
      PROVE  BookSound(book)'
  BY <1>1, Zenon DEF BookSound, Steady
<1>2. BookSound(orders)' /\ \A p \in Writers : BookSound(known[p])'
  BY <1>1, Zenon DEF PayInv, BooksInv
<1>3. LedgerSound'
  <2>1. \A x \in Orders : sale.by[x] = "coin" /\ Mismatched(x) => Mismatched(x)'
    BY Zenon DEF Steady, Mismatched
  <2> QED
    BY <2>1, Zenon DEF PayInv, BooksInv, LedgerSound, Steady
<1>4. Agreed'
  <2>1. ASSUME NEW x \in Orders, NEW p \in alive, Issues(p, x)'
        PROVE  known[p][x].issued = orders[x].issued
    <3>1. p \in Writers /\ BookSound(known[p]) /\ BookSound(orders)
      BY Zenon DEF PayInv, BooksInv
    <3>2. CASE Issues(p, x)
      BY <3>2, Zenon DEF PayInv, BooksInv, Agreed
    <3>3. CASE sale.by[x] = "coin" /\ remote[x].status # "completed"
      <4>1. ~orders[x].issued
        BY <3>3, Zenon DEF PayInv, BooksInv, LedgerSound
      <4> QED
        BY <3>1, <4>1, Zenon DEF BookSound
    <3> QED
      BY <2>1, <3>1, <3>2, <3>3, IssuesSteady, Zenon
  <2> QED
    BY <2>1, Zenon DEF PayInv, BooksInv, Agreed
<1> QED
  BY <1>2, <1>3, <1>4, Zenon DEF PayInv, BooksInv

\* A process that takes its lock leaves lines that are sound.
LEMMA LockKeeps ==
  ASSUME PayInv, Steady, UNCHANGED <<orders, known, alive>>,
         NEW p \in Writers, p \in alive, NEW x \in Orders, NEW lines,
         owed' = [owed EXCEPT ![p] = OwedFor(x, lines)], IssueShape(lines),
         \A n \in DOMAIN lines :
           /\ \/ LineSound(p, x, lines[n])
              \/ lines[n].type = "invoice" /\ sale.by[x] = "coin" /\ remote'[x].status # "none"
           /\ IsIssue(lines[n]) => ~orders[x].issued
  PROVE  BooksInv' /\ LinesSound' /\ IssueWhole'
<1> DEFINE o == OwedFor(x, lines)
<1>1. /\ IsSequence(o) /\ Len(o) = Len(lines) /\ DOMAIN o = DOMAIN lines
      /\ \A n \in DOMAIN lines : o[n].order = x /\ o[n].line = lines[n]
  <2>1. IsSequence(lines)
    BY Zenon DEF IssueShape
  <2> QED
    BY <2>1, OwedForIs
<1> HIDE DEF o
<1>2. /\ DOMAIN owed' = Writers /\ owed'[p] = o
      /\ \A q \in Writers : q # p => owed'[q] = owed[q]
  <2>1. DOMAIN owed = Writers
    BY Zenon DEF PayInv, LinesSound
  <2> QED
    BY <2>1, Zenon DEF o
<1>3. BooksInv'
  BY BooksSteady, Zenon
<1>4. \A n \in DOMAIN lines : LineSound(p, x, lines[n])'
  <2>1. SUFFICES ASSUME NEW n \in DOMAIN lines
                 PROVE  LineSound(p, x, lines[n])'
    BY Zenon
  <2>2. CASE LineSound(p, x, lines[n])
    BY <2>2, LineSteady, Zenon
  <2>3. CASE lines[n].type = "invoice" /\ sale.by[x] = "coin" /\ remote'[x].status # "none"
    <3>1. sale' = sale
      BY DEF Steady
    <3> QED
      BY <2>3, <3>1, Zenon DEF LineSound, LineTypes, IsIssue
  <2> QED
    BY <2>2, <2>3, Zenon
<1>5. LinesSound'
  <2>1. ASSUME NEW q \in Writers
        PROVE  IsSequence(owed'[q]) /\ (q \notin alive' => owed'[q] = <<>>)
    BY <1>1, <1>2, Zenon DEF PayInv, LinesSound
  <2>2. ASSUME NEW q \in Writers, NEW n \in DOMAIN owed'[q], NEW y, NEW line,
               y = owed'[q][n].order, line = owed'[q][n].line
        PROVE  LineSound(q, y, line)'
    <3>1. CASE q = p
      <4>1. n \in DOMAIN lines /\ y = x /\ line = lines[n]
        BY <1>1, <1>2, <2>2, <3>1, Zenon
      <4> QED
        BY <1>4, <3>1, <4>1, Zenon
    <3>2. CASE q # p
      <4>1. LineSound(q, y, line)
        BY <1>2, <2>2, <3>2, Zenon DEF PayInv, LinesSound
      <4> QED
        BY <4>1, LineSteady, Zenon
    <3> QED
      BY <3>1, <3>2
  <2> QED
    BY <1>2, <2>1, <2>2, ZenonT(60) DEF LinesSound
<1>6. IssueWhole'
  <2>1. ASSUME NEW q \in Writers, NEW s, s = owed'[q], NEW n \in DOMAIN s
        PROVE  IssueAt(s, n)'
    <3>1. CASE q # p
      <4>1. IssueAt(s, n)
        BY <1>2, <2>1, <3>1, Zenon DEF PayInv, IssueWhole
      <4> QED
        BY <4>1, Zenon DEF IssueAt
    <3>2. CASE q = p
      <4>1. s = o /\ n \in DOMAIN lines
        BY <1>1, <1>2, <2>1, <3>2, Zenon
      <4>2. /\ o[n].order = x /\ o[n].line = lines[n]
            /\ lines[n].type \in {"hc_issued", "hc_lot"} =>
                 ~orders[x].issued /\ orders[x].lots = <<>>
        BY <1>1, <4>1, Zenon DEF IsIssue, PayInv, BooksInv, LedgerSound
      <4>3. /\ lines[n].type = "hc_issued" =>
                 n + 1 = Len(lines) /\ lines[n + 1].type = "hc_lot"
            /\ lines[n].type = "hc_lot" =>
                 n > 1 /\ n = Len(lines) /\ lines[n - 1].type = "hc_issued"
        BY <4>1, Zenon DEF IssueShape
      <4>4. /\ lines[n].type = "hc_issued" => n + 1 \in DOMAIN lines
            /\ lines[n].type = "hc_lot" => n - 1 \in DOMAIN lines /\ n # 1
        <5>1. PICK k \in Nat : k = Len(lines) /\ DOMAIN lines = 1 .. k
          BY SequenceIs, Zenon DEF IssueShape
        <5> QED
          BY <4>1, <4>3, <5>1
      <4>5. /\ lines[n].type = "hc_issued" => o[n + 1].order = x /\ o[n + 1].line = lines[n + 1]
            /\ lines[n].type = "hc_lot" => o[n - 1].order = x /\ o[n - 1].line = lines[n - 1]
        BY <1>1, <4>4, Zenon
      <4>6. /\ s[n].line.type = "hc_issued" =>
                 /\ ~orders[x].issued /\ n + 1 = Len(s) /\ s[n + 1].order = x
                 /\ s[n + 1].line.type = "hc_lot"
            /\ s[n].line.type = "hc_lot" =>
                 /\ n = Len(s) /\ orders[x].lots = <<>> /\ n # 1 /\ s[n - 1].order = x
                 /\ s[n - 1].line.type = "hc_issued"
        BY <1>1, <4>1, <4>2, <4>3, <4>4, <4>5, Zenon
      <4> QED
        BY <4>1, <4>2, <4>6, Zenon DEF IssueAt
    <3> QED
      BY <3>1, <3>2
  <2> QED
    BY <2>1, Zenon DEF IssueWhole
<1> QED
  BY <1>3, <1>5, <1>6

LEMMA OwedSteady ==
  ASSUME PayInv, Steady, UNCHANGED <<orders, known, alive, owed>>
  PROVE  BooksInv' /\ LinesSound' /\ IssueWhole'
<1>1. BooksInv'
  BY BooksSteady, Zenon
<1>2. ASSUME NEW q \in Writers, NEW n \in DOMAIN owed[q], NEW y, NEW line,
             y = owed[q][n].order, line = owed[q][n].line
      PROVE  LineSound(q, y, line)'
  <2>1. LineSound(q, y, line)
    BY <1>2, Zenon DEF PayInv, LinesSound
  <2> QED
    BY <2>1, LineSteady, Zenon
<1>3. LinesSound'
  BY <1>2, Zenon DEF PayInv, LinesSound, IsSequence
<1>4. IssueWhole'
  BY ZenonT(60) DEF PayInv, IssueWhole, IssueAt
<1> QED
  BY <1>1, <1>3, <1>4

-----------------------------------------------------------------------------
(* What the threads are at.                                                *)

LEMMA StageIs ==
  ASSUME NEW name, NEW x
  PROVE  Stage(name, x).stage = name /\ Stage(name, x).order = x
BY Zenon DEF Stage

LEMMA StageSteady ==
  ASSUME Steady, NEW t, NEW y, StageSound(t), at'[t] = at[t], at[t].order = y,
         at[t].stage = "invoice" =>
           /\ Server \in alive' /\ remote'[y].status = "none"
           /\ orders'[y].state # "none" \/ OrderOwed(y)'
  PROVE  StageSound(t)'
<1>1. sale' = sale
  BY DEF Steady
<1>2. at'[t].order = y
  OBVIOUS
<1>3. at[t].stage = "settle" =>
        /\ y \in Orders /\ sale.by[y] = "coin"
        /\ at[t].answer.status \in CoinStatuses \ {"none"}
        /\ at[t].answer.status = "completed" =>
             remote'[y].status = "completed" /\ remote'[y].matches = at[t].answer.matches
  BY Zenon DEF StageSound, Steady
<1>4. at[t].stage = "invoice" => y \in Orders /\ sale.by[y] = "coin"
  BY Zenon DEF StageSound
<1>5. /\ at[t].stage \in TossStages => y \in Orders /\ sale.by[y] = "toss"
      /\ at[t].stage \in {"apply", "refuse"} =>
           /\ at[t] = Applied(at[t].stage, y, at[t].answer, at[t].next)
           /\ at[t].next \in {"idle", "expiry"}
  BY Zenon DEF StageSound
<1> QED
  BY <1>1, <1>2, <1>3, <1>4, <1>5, Zenon DEF StageSound

LEMMA CommandSteady ==
  ASSUME PayInv, Steady, Command \in alive' => Command \in alive,
         at'[Command] = at[Command],
         \A y \in Orders : orders[y].state # "none" => orders'[y].state # "none",
         \A n \in DOMAIN owed'[Command] : \E m \in DOMAIN owed[Command] :
           owed'[Command][n] = owed[Command][m]
  PROVE  CommandSound'
<1>1. SUFFICES ASSUME Command \in alive' PROVE CommandSound'
  BY Zenon DEF CommandSound
<1>2. PICK y : y = at[Command].order /\ y = at'[Command].order
  OBVIOUS
<1>3. /\ at[Command].stage \in {"release", "swift-confirm", "swift-cancel", "refund", "exit"}
      /\ y \in Orders /\ orders[y].state # "none"
      /\ at[Command].stage = "release" /\ sale.by[y] = "coin" => Mismatched(y)
      /\ \A n \in DOMAIN owed[Command] : owed[Command][n].order = y
  BY <1>1, <1>2, Zenon DEF PayInv, StagesInv, CommandSound
<1>4. sale' = sale
  BY DEF Steady
<1>5. at[Command].stage = "release" /\ sale'.by[y] = "coin" => Mismatched(y)'
  BY <1>3, <1>4, Zenon DEF Steady, Mismatched
<1>6. orders'[y].state # "none" /\ \A n \in DOMAIN owed'[Command] : owed'[Command][n].order = y
  BY <1>3, Zenon
<1> QED
  BY <1>2, <1>3, <1>5, <1>6, Zenon DEF CommandSound

\* The threads of T move, the others stay where they are.
LEMMA ThreadsKeep ==
  ASSUME PayInv, Steady, NEW T, DOMAIN at' = Threads, CommandSound',
         \A u \in Threads \ T : at'[u] = at[u],
         \A t \in (Threads \cap T) \ {Command} : StageSound(t)',
         \A t \in (Threads \cap T) \ {Command}, u \in Threads \ {Command} :
           /\ at'[t].stage = "invoice" /\ at'[u].stage = "invoice"
           /\ at'[t].order = at'[u].order
           => t = u,
         \A u \in Threads \ (T \cup {Command}) : at[u].stage = "invoice" =>
           Server \in alive' /\ remote'[at[u].order].status = "none",
         \A y \in Orders : orders[y].state # "none" \/ OrderOwed(y) =>
           orders'[y].state # "none" \/ OrderOwed(y)'
  PROVE  StagesInv'
<1>1. ASSUME NEW t \in Threads, t # Command
      PROVE  StageSound(t)'
  <2>1. CASE t \in T
    BY <1>1, <2>1, Zenon
  <2>2. CASE t \notin T
    <3>1. PICK y : y = at[t].order
      OBVIOUS
    <3>2. StageSound(t) /\ at'[t] = at[t]
      BY <1>1, <2>2, Zenon DEF PayInv, StagesInv
    <3>3. at[t].stage = "invoice" =>
            y \in Orders /\ (orders[y].state # "none" \/ OrderOwed(y))
      BY <3>1, <3>2, Zenon DEF StageSound
    <3>4. at[t].stage = "invoice" => Server \in alive' /\ remote'[y].status = "none"
      BY <1>1, <2>2, <3>1, Zenon
    <3> QED
      BY <3>1, <3>2, <3>3, <3>4, StageSteady, Zenon
  <2> QED
    BY <2>1, <2>2
<1>2. ASSUME NEW t \in Threads \ {Command}, NEW u \in Threads \ {Command},
             at'[t].stage = "invoice", at'[u].stage = "invoice",
             at'[t].order = at'[u].order
      PROVE  t = u
  <2>1. CASE t \in T
    BY <1>2, <2>1, Zenon
  <2>2. CASE u \in T
    BY <1>2, <2>2, Zenon
  <2>3. CASE t \notin T /\ u \notin T
    <3>1. at'[t] = at[t] /\ at'[u] = at[u]
      BY <2>3, Zenon
    <3> QED
      BY <1>2, <3>1, Zenon DEF PayInv, StagesInv
  <2> QED
    BY <2>1, <2>2, <2>3
<1> QED
  BY <1>1, <1>2, Zenon DEF StagesInv

\* A step that appends no line and starts or stops no process: the threads
\* of the service, with T the ones that move.
LEMMA ServiceKeeps ==
  ASSUME PayInv, Steady, BooksInv', LinesSound', IssueWhole',
         UNCHANGED <<orders, alive>>, owed'[Command] = owed[Command],
         owed'[Server] = owed[Server] \/ owed[Server] = <<>>,
         NEW T, Command \notin T, DOMAIN at' = Threads,
         \A u \in Threads \ T : at'[u] = at[u],
         \A t \in Threads \cap T : StageSound(t)',
         \A t \in Threads \cap T, u \in Threads \ {Command} :
           /\ at'[t].stage = "invoice" /\ at'[u].stage = "invoice"
           /\ at'[t].order = at'[u].order
           => t = u,
         \A u \in Threads \ (T \cup {Command}) : at[u].stage = "invoice" =>
           remote'[at[u].order].status = "none"
  PROVE  PayInv'
<1>1. Command \in Threads
  BY DEF Threads
<1>2. CommandSound'
  BY <1>1, CommandSteady, Zenon
<1>3. \A y \in Orders : OrderOwed(y) => OrderOwed(y)'
  <2>1. CASE owed'[Server] = owed[Server]
    BY <2>1, Zenon DEF OrderOwed
  <2>2. CASE owed[Server] = <<>>
    BY <2>2, EmptySequence, Zenon DEF OrderOwed
  <2> QED
    BY <2>1, <2>2
<1>4. \A u \in Threads \ {Command} : at[u].stage = "invoice" => Server \in alive'
  BY Zenon DEF PayInv, StagesInv, StageSound
<1>5. StagesInv'
  BY <1>2, <1>3, <1>4, ThreadsKeep, ZenonT(60)
<1> QED
  BY <1>5, Zenon DEF PayInv, Steady

-----------------------------------------------------------------------------
(* Book.append.                                                            *)

\* The line that is appended, and what it makes of the ledger.
LEMMA Appended ==
  ASSUME PayInv, NEW p \in Writers, AppendLine(p), NEW x, NEW line,
         x = owed[p][1].order, line = owed[p][1].line
  PROVE  /\ p \in alive /\ owed[p] # <<>> /\ 1 \in DOMAIN owed[p]
         /\ x \in Orders /\ LineSound(p, x, line) /\ IssueAt(owed[p], 1)
         /\ DOMAIN orders' = Orders /\ orders'[x] = Booked(orders[x], line)
         /\ \A y \in Orders : y # x => orders'[y] = orders[y]
         /\ DOMAIN known' = Writers /\ known'[p] = orders'
         /\ \A q \in Writers : q # p => known'[q] = known[q]
         /\ DOMAIN owed' = Writers /\ owed'[p] = Tail(owed[p])
         /\ \A q \in Writers : q # p => owed'[q] = owed[q]
<1>1. p \in alive /\ owed[p] # <<>> /\ IsSequence(owed[p])
  BY Zenon DEF AppendLine, PayInv, LinesSound
<1>2. Head(owed[p]) = owed[p][1] /\ 1 \in DOMAIN owed[p]
  <2>1. PICK k \in Nat \ {0} : DOMAIN owed[p] = 1 .. k /\ Head(owed[p]) = owed[p][1]
    BY <1>1, TailIs, Zenon
  <2> QED
    BY <2>1
<1>3. LineSound(p, x, line) /\ IssueAt(owed[p], 1)
  BY <1>2, Zenon DEF PayInv, LinesSound, IssueWhole
<1>4. x \in Orders
  BY <1>3, Zenon DEF LineSound
<1>5. /\ orders' = [orders EXCEPT ![x] = Booked(orders[x], line)]
      /\ known' = [known EXCEPT ![p] = orders']
      /\ owed' = [owed EXCEPT ![p] = Tail(owed[p])]
  BY <1>2, Zenon DEF AppendLine
<1>6. DOMAIN orders = Orders /\ DOMAIN known = Writers /\ DOMAIN owed = Writers
  BY Zenon DEF PayInv, BooksInv, BookSound, LinesSound
<1> QED
  BY <1>1, <1>2, <1>3, <1>4, <1>5, <1>6, Zenon

\* What a line changes in its order.
LEMMA BookedLine ==
  ASSUME PayInv, NEW p \in Writers, NEW x \in Orders, NEW line, LineSound(p, x, line),
         NEW o, o = Booked(orders[x], line)
  PROVE  /\ IsOrder(o) /\ o.issued \in BOOLEAN
         /\ orders[x].issued => o.issued
         /\ o.issued => orders[x].issued \/ line.type = "hc_issued"
         /\ line.type = "hc_issued" => o.issued
         /\ o.invoice => sale.by[x] = "coin" /\ remote[x].status # "none"
         /\ line.type # "hc_lot" => o.lots = orders[x].lots
         /\ line.type = "hc_lot" => o.lots = Append(orders[x].lots, line.hc)
         /\ o.state = "mismatch" /\ sale.by[x] = "coin" => Mismatched(x)
         /\ orders[x].state # "none" \/ line.type = "order" => o.state # "none"
<1>1. /\ IsOrder(orders[x]) /\ orders[x].issued \in BOOLEAN
      /\ orders[x].invoice => sale.by[x] = "coin" /\ remote[x].status # "none"
      /\ sale.by[x] = "coin" /\ orders[x].state = "mismatch" => Mismatched(x)
  BY Zenon DEF PayInv, BooksInv, BookSound, LedgerSound
<1>2. /\ line.type \in LineTypes
      /\ line.type = "invoice" => sale.by[x] = "coin" /\ remote[x].status # "none"
      /\ line.type = "state" => line.state # "none"
      /\ line.type = "state" /\ line.state = "mismatch" /\ sale.by[x] = "coin" => Mismatched(x)
  BY Zenon DEF LineSound
<1>3. /\ IsOrder(o) /\ o.issued \in BOOLEAN
      /\ o.issued <=> orders[x].issued \/ line.type = "hc_issued"
      /\ o.invoice => orders[x].invoice \/ line.type = "invoice"
      /\ line.type # "hc_lot" => o.lots = orders[x].lots
      /\ line.type = "hc_lot" => o.lots = Append(orders[x].lots, line.hc)
      /\ \/ o.state = orders[x].state /\ line.type # "order"
         \/ o.state \in {"unpaid", "created", "completed", "refunded"}
         \/ line.type = "state" /\ o.state = line.state
  BY <1>1, <1>2, BookedIs, Zenon
<1>4. o.state = "mismatch" /\ sale.by[x] = "coin" => Mismatched(x)
  BY <1>1, <1>2, <1>3, Zenon
<1>5. orders[x].state # "none" \/ line.type = "order" => o.state # "none"
  BY <1>2, <1>3, Zenon
<1> QED
  BY <1>1, <1>2, <1>3, <1>4, <1>5, Zenon

LEMMA AppendBooks ==
  ASSUME PayInv, NEW p \in Writers, AppendLine(p)
  PROVE  BooksInv'
<1>1. PICK x, line : x = owed[p][1].order /\ line = owed[p][1].line
  OBVIOUS
<1>2. /\ p \in alive /\ x \in Orders /\ LineSound(p, x, line) /\ IssueAt(owed[p], 1)
      /\ DOMAIN orders' = Orders /\ orders'[x] = Booked(orders[x], line)
      /\ \A y \in Orders : y # x => orders'[y] = orders[y]
      /\ DOMAIN known' = Writers /\ known'[p] = orders'
      /\ \A q \in Writers : q # p => known'[q] = known[q]
      /\ 1 \in DOMAIN owed[p]
  BY <1>1, Appended
<1>3. PICK o : o = orders'[x]
  BY SMTT(60)
<1>4. /\ IsOrder(o) /\ o.issued \in BOOLEAN
      /\ orders[x].issued => o.issued
      /\ o.issued => orders[x].issued \/ line.type = "hc_issued"
      /\ o.invoice => sale.by[x] = "coin" /\ remote[x].status # "none"
      /\ line.type # "hc_lot" => o.lots = orders[x].lots
      /\ line.type = "hc_lot" => o.lots = Append(orders[x].lots, line.hc)
      /\ o.state = "mismatch" /\ sale.by[x] = "coin" => Mismatched(x)
      /\ orders[x].state # "none" \/ line.type = "order" => o.state # "none"
  BY <1>2, <1>3, BookedLine
<1>5. UNCHANGED <<alive, remote, sale>>
  BY Zenon DEF AppendLine
<1>6. BookSound(orders)'
  <2>1. \A y \in Orders : /\ IsOrder(orders[y]) /\ orders[y].issued \in BOOLEAN
                          /\ orders[y].invoice => sale.by[y] = "coin" /\ remote[y].status # "none"
    BY Zenon DEF PayInv, BooksInv, BookSound
  <2>2. ASSUME NEW y \in Orders
        PROVE  /\ IsOrder(orders'[y]) /\ orders'[y].issued \in BOOLEAN
               /\ orders'[y].invoice => sale.by[y] = "coin" /\ remote[y].status # "none"
    BY <1>2, <1>3, <1>4, <2>1, Zenon
  <2> QED
    BY <1>2, <1>5, <2>2, Zenon DEF BookSound
<1>7. ASSUME NEW y \in Orders PROVE orders[y].issued => orders'[y].issued
  BY <1>2, <1>3, <1>4, Zenon
<1>8. ASSUME NEW q \in Writers
      PROVE  BookSound(known[q])'
  <2>1. CASE q = p
    BY <1>2, <1>6, <2>1, Zenon
  <2>2. CASE q # p
    <3>1. BookSound(known[q]) /\ known'[q] = known[q]
      BY <1>2, <2>2, Zenon DEF PayInv, BooksInv
    <3> QED
      BY <1>5, <1>7, <3>1, Zenon DEF BookSound
  <2> QED
    BY <2>1, <2>2
<1>9. LedgerSound'
  <2>1. line.type = "hc_issued" /\ sale.by[x] = "coin" => remote[x].status = "completed"
    BY <1>2, Zenon DEF LineSound, IsIssue, Issues
  <2>2. line.type = "hc_lot" => orders[x].issued /\ orders[x].lots = <<>>
    BY <1>1, <1>2, Zenon DEF IssueAt
  <2>3. line.type = "hc_lot" => o.issued /\ Len(o.lots) = 1
    <3>1. SUFFICES ASSUME line.type = "hc_lot" PROVE Len(o.lots) = 1
      BY <1>4, <2>2, Zenon
    <3>2. o.lots = Append(<<>>, line.hc)
      BY <1>4, <2>2, <3>1, Zenon
    <3> QED
      BY <3>2
  <2>4. /\ ~orders[x].issued => orders[x].lots = <<>>
        /\ Len(orders[x].lots) <= 1
        /\ sale.by[x] = "coin" =>
             /\ orders[x].issued => remote[x].status = "completed"
             /\ remote[x].status # "none" => orders[x].state # "none"
    BY <1>2, Zenon DEF PayInv, BooksInv, LedgerSound
  <2>5. /\ ~o.issued => o.lots = <<>>
        /\ Len(o.lots) <= 1
        /\ sale.by[x] = "coin" =>
             /\ o.issued => remote[x].status = "completed"
             /\ o.state = "mismatch" => Mismatched(x)
             /\ remote[x].status # "none" => o.state # "none"
    <3>1. Len(o.lots) <= 1
      <4>1. CASE line.type = "hc_lot"
        <5>1. 1 <= 1
          OBVIOUS
        <5> QED
          BY <2>3, <4>1, <5>1, Zenon
      <4>2. CASE line.type # "hc_lot"
        BY <1>4, <2>4, <4>2, Zenon
      <4> QED
        BY <4>1, <4>2
    <3> QED
      BY <1>4, <2>1, <2>3, <2>4, <3>1, Zenon
  <2>6. \A y \in Orders : Mismatched(y)' <=> Mismatched(y)
    BY <1>5, Zenon DEF Mismatched
  <2>7. ASSUME NEW y \in Orders
        PROVE  /\ ~orders'[y].issued => orders'[y].lots = <<>>
               /\ Len(orders'[y].lots) <= 1
               /\ sale.by[y] = "coin" =>
                    /\ orders'[y].issued => remote[y].status = "completed"
                    /\ orders'[y].state = "mismatch" => Mismatched(y)
                    /\ remote[y].status # "none" => orders'[y].state # "none"
    <3>1. CASE y = x
      BY <1>3, <2>5, <3>1, Zenon
    <3>2. CASE y # x
      <4>1. orders'[y] = orders[y]
        BY <1>2, <3>2, Zenon
      <4> QED
        BY <4>1, Zenon DEF PayInv, BooksInv, LedgerSound
    <3> QED
      BY <3>1, <3>2
  <2> QED
    BY <1>5, <2>6, <2>7, Zenon DEF LedgerSound
<1>10. Agreed'
  <2>1. ASSUME NEW y \in Orders, NEW q \in alive, Issues(q, y)
        PROVE  known'[q][y].issued = orders'[y].issued
    <3>1. q \in Writers
      BY Zenon DEF PayInv, BooksInv
    <3>2. CASE q = p
      BY <1>2, <3>2, Zenon
    <3>3. CASE q # p
      <4>1. known'[q][y].issued = orders[y].issued
        BY <1>2, <2>1, <3>1, <3>3, ZenonT(60) DEF PayInv, BooksInv, Agreed
      <4>2. y = x => line.type # "hc_issued"
        BY <1>2, <2>1, <3>1, <3>3, IssuesAlone, Zenon DEF LineSound, IsIssue
      <4>3. orders'[y].issued = orders[y].issued
        <5>1. CASE y # x
          BY <1>2, <5>1, Zenon
        <5>2. CASE y = x
          <6>1. orders[x].issued \in BOOLEAN
            BY <1>2, Zenon DEF PayInv, BooksInv, BookSound
          <6> QED
            BY <1>3, <1>4, <4>2, <5>2, <6>1, Zenon
        <5> QED
          BY <5>1, <5>2
      <4> QED
        BY <4>1, <4>3, Zenon
    <3> QED
      BY <3>2, <3>3
  <2>2. ASSUME NEW y \in Orders, Server \in alive, known'[Server][y].state = "none"
        PROVE  orders'[y].state = "none"
    <3>1. CASE p = Server
      BY <1>2, <2>2, <3>1, Zenon
    <3>2. CASE p # Server
      <4>1. p = Command /\ known'[Server] = known[Server] /\ Server \in Writers
        BY <1>2, <3>2, Zenon DEF Writers
      <4>2. orders[y].state = "none"
        BY <2>2, <4>1, Zenon DEF PayInv, BooksInv, Agreed
      <4>3. orders[x].state # "none"
        BY <1>1, <1>2, <4>1, Zenon DEF PayInv, StagesInv, CommandSound
      <4> QED
        BY <1>2, <4>2, <4>3, Zenon
    <3> QED
      BY <3>1, <3>2
  <2>3. \A y \in Orders, q \in alive : Issues(q, y)' <=> Issues(q, y)
    BY <1>5, ZenonT(60) DEF Issues
  <2> QED
    BY <1>5, <2>1, <2>2, <2>3, Zenon DEF Agreed
<1> QED
  BY <1>2, <1>5, <1>6, <1>8, <1>9, <1>10, Zenon DEF PayInv, BooksInv

\* The lines that are left.
LEMMA AppendLines ==
  ASSUME PayInv, NEW p \in Writers, AppendLine(p)
  PROVE  LinesSound'
<1>1. /\ p \in alive /\ owed[p] # <<>> /\ DOMAIN owed' = Writers
      /\ owed'[p] = Tail(owed[p]) /\ \A q \in Writers : q # p => owed'[q] = owed[q]
  BY Appended
<1>2. UNCHANGED <<alive, remote, sale>>
  BY Zenon DEF AppendLine
<1>3. Steady
  BY <1>2, Untouched, Zenon
<1>4. IsSequence(owed[p])
  BY Zenon DEF PayInv, LinesSound
<1>5. PICK k \in Nat \ {0} :
        /\ DOMAIN owed[p] = 1 .. k /\ DOMAIN owed'[p] = 1 .. k - 1
        /\ \A n \in 1 .. k - 1 : owed'[p][n] = owed[p][n + 1]
        /\ IsSequence(owed'[p])
  BY <1>1, <1>4, TailIs
<1>6. ASSUME NEW q \in Writers
      PROVE  IsSequence(owed'[q]) /\ (q \notin alive' => owed'[q] = <<>>)
  BY <1>1, <1>2, <1>5, Zenon DEF PayInv, LinesSound
<1>7. ASSUME NEW q \in Writers, NEW n \in DOMAIN owed'[q]
      PROVE  \E m \in DOMAIN owed[q] : owed'[q][n] = owed[q][m]
  <2>1. CASE q = p
    <3>1. n \in 1 .. k - 1 /\ n + 1 \in 1 .. k
      BY <1>5, <1>7, <2>1
    <3> QED
      BY <1>5, <2>1, <3>1, Zenon
  <2>2. CASE q # p
    BY <1>1, <1>7, <2>2, Zenon
  <2> QED
    BY <2>1, <2>2
<1>8. ASSUME NEW q \in Writers, NEW n \in DOMAIN owed'[q], NEW y, NEW line,
             y = owed'[q][n].order, line = owed'[q][n].line
      PROVE  LineSound(q, y, line)'
  <2>1. LineSound(q, y, line)
    BY <1>7, <1>8, ZenonT(60) DEF PayInv, LinesSound
  <2> QED
    BY <1>3, <2>1, LineSteady, Zenon
<1> QED
  BY <1>1, <1>6, <1>8, Zenon DEF LinesSound

LEMMA AppendIssue ==
  ASSUME PayInv, NEW p \in Writers, AppendLine(p)
  PROVE  IssueWhole'
<1>1. PICK x, line : x = owed[p][1].order /\ line = owed[p][1].line
  OBVIOUS
<1>2. /\ owed[p] # <<>> /\ x \in Orders /\ LineSound(p, x, line) /\ IssueAt(owed[p], 1)
      /\ orders'[x] = Booked(orders[x], line)
      /\ \A y \in Orders : y # x => orders'[y] = orders[y]
      /\ DOMAIN owed' = Writers /\ owed'[p] = Tail(owed[p])
      /\ \A q \in Writers : q # p => owed'[q] = owed[q]
  BY SMTT(60), <1>1, Appended
<1>3. /\ orders[x].issued => orders'[x].issued
      /\ orders'[x].issued => orders[x].issued \/ line.type = "hc_issued"
      /\ line.type = "hc_issued" => orders'[x].issued
      /\ line.type # "hc_lot" => orders'[x].lots = orders[x].lots
  BY SMTT(60), <1>2, BookedLine
<1>4. IsSequence(owed[p])
  BY Zenon DEF PayInv, LinesSound
<1>5. PICK k \in Nat \ {0} :
        /\ k = Len(owed[p]) /\ DOMAIN owed[p] = 1 .. k
        /\ k - 1 = Len(owed'[p]) /\ DOMAIN owed'[p] = 1 .. k - 1
        /\ \A n \in 1 .. k - 1 : owed'[p][n] = owed[p][n + 1]
  BY SMTT(60), <1>2, <1>4, TailIs
<1>6. /\ line.type = "hc_issued" => 2 = k /\ owed[p][2].line.type = "hc_lot"
      /\ line.type = "hc_lot" => 1 = k
  <2>1. 1 + 1 = 2
    OBVIOUS
  <2> QED
    BY <1>1, <1>2, <1>5, <2>1, Zenon DEF IssueAt
\* Another process owes lines of issue for other orders only.
<1>7. ASSUME NEW q \in Writers, q # p, NEW s, s = owed'[q], NEW n \in DOMAIN s
      PROVE  IssueAt(s, n)'
  <2>1. PICK y : y = s[n].order
    OBVIOUS
  <2>2. /\ s = owed[q] /\ IssueAt(s, n)
        /\ LineSound(q, y, s[n].line)
    BY <1>2, <1>7, <2>1, Zenon DEF PayInv, LinesSound, IssueWhole
  <2>3. IsIssue(s[n].line) =>
          orders'[y].issued = orders[y].issued /\ orders'[y].lots = orders[y].lots
    <3>1. SUFFICES ASSUME IsIssue(s[n].line), y = x
                   PROVE  /\ orders'[y].issued = orders[y].issued
                          /\ orders'[y].lots = orders[y].lots
      BY <1>2, <2>2, Zenon DEF LineSound
    <3>2. line.type \notin {"hc_issued", "hc_lot"}
      BY <1>2, <1>7, <2>2, <3>1, IssuesAlone, ZenonT(60) DEF LineSound, IsIssue
    <3>3. orders[x].issued \in BOOLEAN /\ orders'[x].issued \in BOOLEAN
      <4>1. orders[x].issued \in BOOLEAN
        BY <1>2, ZenonT(60) DEF PayInv, BooksInv, BookSound
      <4>2. orders'[x].issued \in BOOLEAN
        BY <1>2, BookedLine
      <4> QED
        BY <4>1, <4>2
    <3> QED
      BY <1>3, <3>1, <3>2, <3>3, Zenon
  <2> QED
    BY <2>1, <2>2, <2>3, Zenon DEF IssueAt, IsIssue
\* Its own lines move up.
<1>8. ASSUME NEW s, s = owed'[p], NEW n \in DOMAIN s
      PROVE  IssueAt(s, n)'
  <2>1. PICK y : y = s[n].order
    BY SMTT(60)
  <2>2. /\ n \in 1 .. k - 1 /\ n + 1 \in 1 .. k /\ k > 1 /\ n + 1 # 1
        /\ (n + 1) - 1 = n /\ (n + 1 = 2 => n = 1)
    BY <1>5, <1>8
  <2>3. s[n] = owed[p][n + 1] /\ IssueAt(owed[p], n + 1) /\ n + 1 \in DOMAIN owed[p]
    BY <1>5, <1>8, <2>2, Zenon DEF PayInv, IssueWhole
  <2>4. y \in Orders
    BY <2>1, <2>3, ZenonT(60) DEF PayInv, LinesSound, LineSound
  <2>5. line.type # "hc_lot"
    BY <1>6, <2>2
  <2>6. orders'[y].lots = orders[y].lots
    BY <1>2, <1>3, <2>4, <2>5, Zenon
  <2>7. ASSUME s[n].line.type = "hc_issued"
        PROVE  /\ ~orders'[y].issued /\ n + 1 = Len(s) /\ s[n + 1].order = y
               /\ s[n + 1].line.type = "hc_lot"
    <3>1. /\ ~orders[y].issued /\ (n + 1) + 1 = k /\ owed[p][(n + 1) + 1].order = y
          /\ owed[p][(n + 1) + 1].line.type = "hc_lot"
      BY <1>5, <2>1, <2>3, <2>7, ZenonT(60) DEF IssueAt
    <3>2. n + 1 = k - 1 /\ n + 1 \in 1 .. k - 1 /\ 2 # k
      BY <2>2, <3>1
    <3>3. s[n + 1] = owed[p][(n + 1) + 1]
      BY <1>5, <1>8, <3>2, Zenon
    <3>4. ~orders'[y].issued
      BY <1>2, <1>3, <1>6, <2>4, <3>1, <3>2, Zenon
    <3> QED
      BY <1>5, <1>8, <3>1, <3>2, <3>3, <3>4, Zenon
  <2>8. ASSUME s[n].line.type = "hc_lot"
        PROVE  /\ n = Len(s) /\ orders'[y].lots = <<>>
               /\ IF n = 1 THEN orders'[y].issued
                  ELSE s[n - 1].order = y /\ s[n - 1].line.type = "hc_issued"
    <3>1. /\ n + 1 = k /\ orders[y].lots = <<>>
          /\ owed[p][n].order = y /\ owed[p][n].line.type = "hc_issued"
      BY <1>5, <2>1, <2>2, <2>3, <2>8, ZenonT(60) DEF IssueAt
    <3>2. n = k - 1 /\ (n # 1 => n - 1 \in 1 .. k - 1 /\ (n - 1) + 1 = n)
      BY <2>2, <3>1
    <3>3. n # 1 => s[n - 1] = owed[p][n]
      BY <1>5, <1>8, <3>2, Zenon
    <3>4. n = 1 => y = x /\ line.type = "hc_issued"
      BY <1>1, <3>1, Zenon
    <3> QED
      BY <1>3, <1>5, <1>8, <2>6, <3>1, <3>2, <3>3, <3>4, Zenon
  <2> QED
    BY <2>1, <2>7, <2>8, Zenon DEF IssueAt
<1> QED
  BY <1>7, <1>8, Zenon DEF IssueWhole

LEMMA AppendKeeps ==
  ASSUME PayInv, NEW p \in Writers, AppendLine(p)
  PROVE  PayInv'
<1>1. PICK x, line : x = owed[p][1].order /\ line = owed[p][1].line
  OBVIOUS
<1>2. /\ p \in alive /\ owed[p] # <<>> /\ x \in Orders /\ LineSound(p, x, line)
      /\ orders'[x] = Booked(orders[x], line)
      /\ \A y \in Orders : y # x => orders'[y] = orders[y]
      /\ owed'[p] = Tail(owed[p]) /\ \A q \in Writers : q # p => owed'[q] = owed[q]
  BY SMTT(60), <1>1, Appended
<1>3. orders[x].state # "none" \/ line.type = "order" => orders'[x].state # "none"
  BY <1>2, BookedLine
<1>4. UNCHANGED <<alive, at, remote, sale>>
  BY Zenon DEF AppendLine
<1>5. Steady
  BY <1>4, Untouched, Zenon
<1>6. BooksInv' /\ LinesSound' /\ IssueWhole'
  BY AppendBooks, AppendLines, AppendIssue
<1>7. \A y \in Orders : orders[y].state # "none" => orders'[y].state # "none"
  BY <1>2, <1>3, ZenonT(60)
<1>8. IsSequence(owed[p])
  BY Zenon DEF PayInv, LinesSound
<1>9. PICK k \in Nat \ {0} :
        /\ DOMAIN owed[p] = 1 .. k /\ DOMAIN owed'[p] = 1 .. k - 1
        /\ \A n \in 1 .. k - 1 : owed'[p][n] = owed[p][n + 1]
  BY <1>2, <1>8, TailIs
<1>10. Server \in Writers /\ Command \in Writers /\ Command \in Threads
  BY DEF Writers, Threads
<1>11. CommandSound'
  <2>1. ASSUME NEW n \in DOMAIN owed'[Command]
        PROVE  \E m \in DOMAIN owed[Command] : owed'[Command][n] = owed[Command][m]
    <3>1. CASE p = Command
      <4>1. n \in 1 .. k - 1 /\ n + 1 \in 1 .. k
        BY <1>9, <2>1, <3>1
      <4> QED
        BY <1>9, <3>1, <4>1, Zenon
    <3>2. CASE p # Command
      BY <1>2, <1>10, <2>1, <3>2, Zenon
    <3> QED
      BY <3>1, <3>2
  <2> QED
    BY <1>4, <1>5, <1>7, <2>1, CommandSteady, Zenon
<1>12. ASSUME NEW y \in Orders, OrderOwed(y)
       PROVE  orders'[y].state # "none" \/ OrderOwed(y)'
  <2>1. PICK n \in DOMAIN owed[Server] :
          owed[Server][n].order = y /\ owed[Server][n].line.type = "order"
    BY <1>12, Zenon DEF OrderOwed
  <2>2. CASE p # Server
    BY <1>2, <1>10, <2>1, <2>2, Zenon DEF OrderOwed
  <2>3. CASE p = Server /\ n = 1
    BY <1>1, <1>3, <2>1, <2>3, Zenon
  <2>4. CASE p = Server /\ n # 1
    <3>1. PICK m \in 1 .. k - 1 : m + 1 = n
      <4>1. n \in 1 .. k /\ n # 1
        BY <1>9, <2>1, <2>4, Zenon
      <4>2. n - 1 \in 1 .. k - 1 /\ (n - 1) + 1 = n
        BY <4>1
      <4> QED
        BY <4>2, Zenon
    <3>2. m \in DOMAIN owed'[Server] /\ owed'[Server][m] = owed[Server][n]
      BY <1>9, <2>4, <3>1, Zenon
    <3> QED
      BY <2>1, <3>2, Zenon DEF OrderOwed
  <2> QED
    BY <2>2, <2>3, <2>4
<1>13. StagesInv'
  <2>1. DOMAIN at' = Threads
    BY <1>4, Zenon DEF PayInv, StagesInv
  <2>2. ASSUME NEW u \in Threads \ {Command}, at[u].stage = "invoice"
        PROVE  Server \in alive' /\ remote'[at[u].order].status = "none"
    BY <1>4, <2>2, Zenon DEF PayInv, StagesInv, StageSound
  <2>3. \A y \in Orders : orders[y].state # "none" \/ OrderOwed(y) =>
          orders'[y].state # "none" \/ OrderOwed(y)'
    BY <1>7, <1>12, Zenon
  <2>4. PICK T : T = {}
    BY Zenon
  <2>5. /\ \A u \in Threads \ T : at'[u] = at[u]
        /\ \A t \in (Threads \cap T) \ {Command} : StageSound(t)'
        /\ \A t \in (Threads \cap T) \ {Command}, u \in Threads \ {Command} :
             /\ at'[t].stage = "invoice" /\ at'[u].stage = "invoice"
             /\ at'[t].order = at'[u].order
             => t = u
        /\ \A u \in Threads \ (T \cup {Command}) : at[u].stage = "invoice" =>
             Server \in alive' /\ remote'[at[u].order].status = "none"
    BY <1>4, <2>2, <2>4, Zenon
  <2> QED
    BY <1>5, <1>11, <2>1, <2>3, <2>5, ThreadsKeep, ZenonT(30)
<1> QED
  BY <1>5, <1>6, <1>13, ZenonT(60) DEF PayInv, Steady

-----------------------------------------------------------------------------
(* Processes start and stop.                                               *)

\* A Book that is the ledger's, and one that is empty.
LEMMA BooksReplaced ==
  ASSUME PayInv, UNCHANGED <<orders, remote, sale>>, NEW p \in Writers, NEW book,
         known' = [known EXCEPT ![p] = book], alive' \subseteq Writers,
         alive' \ {p} \subseteq alive,
         \/ book = orders
         \/ p \notin alive' /\ book = [x \in Orders |-> NoOrder]
  PROVE  BooksInv'
<1>1. /\ DOMAIN known' = Writers /\ known'[p] = book
      /\ \A q \in Writers : q # p => known'[q] = known[q]
  BY Zenon DEF PayInv, BooksInv
<1>2. BookSound(orders) /\ \A q \in Writers : BookSound(known[q])
  BY Zenon DEF PayInv, BooksInv
<1>3. BookSound(book)
  <2>1. CASE book = orders
    BY <1>2, <2>1, Zenon
  <2>2. CASE book = [x \in Orders |-> NoOrder]
    <3>1. IsOrder(NoOrder) /\ NoOrder.issued = FALSE /\ NoOrder.invoice = FALSE
      BY Zenon DEF IsOrder, NoOrder
    <3> QED
      BY <2>2, <3>1, Zenon DEF BookSound
  <2> QED
    BY <2>1, <2>2
<1>4. ASSUME NEW b, BookSound(b)
      PROVE  BookSound(b)'
  BY <1>4, Zenon DEF BookSound
<1>5. BookSound(orders)' /\ \A q \in Writers : BookSound(known[q])'
  BY <1>1, <1>2, <1>3, <1>4, Zenon
<1>6. LedgerSound'
  BY Zenon DEF PayInv, BooksInv, LedgerSound, Mismatched
<1>7. Agreed'
  <2>1. ASSUME NEW x \in Orders, NEW q \in alive', Issues(q, x)
        PROVE  known'[q][x].issued = orders[x].issued
    BY <1>1, <2>1, Zenon DEF PayInv, BooksInv, Agreed
  <2>2. ASSUME NEW x \in Orders, Server \in alive', known'[Server][x].state = "none"
        PROVE  orders[x].state = "none"
    BY <1>1, <2>2, Zenon DEF PayInv, BooksInv, Agreed
  <2>3. \A x \in Orders, q \in alive' : Issues(q, x)' <=> Issues(q, x)
    BY ZenonT(60) DEF Issues
  <2> QED
    BY <2>1, <2>2, <2>3, Zenon DEF Agreed
<1> QED
  BY <1>1, <1>5, <1>6, <1>7, Zenon DEF BooksInv

\* No line is owed anew.
LEMMA LinesKept ==
  ASSUME PayInv, UNCHANGED <<orders, remote, sale>>, DOMAIN owed' = Writers,
         \A q \in Writers : owed'[q] = owed[q] \/ owed'[q] = <<>>,
         \A q \in Writers : q \notin alive' => owed'[q] = <<>>
  PROVE  LinesSound' /\ IssueWhole'
<1>1. Steady
  BY Untouched, Zenon
<1>2. ASSUME NEW q \in Writers PROVE IsSequence(owed'[q])
  BY EmptySequence, Zenon DEF PayInv, LinesSound
<1>3. ASSUME NEW q \in Writers, NEW n \in DOMAIN owed'[q] PROVE owed'[q] = owed[q]
  BY <1>3, EmptySequence, Zenon
<1>4. ASSUME NEW q \in Writers, NEW n \in DOMAIN owed'[q], NEW y, NEW line,
             y = owed'[q][n].order, line = owed'[q][n].line
      PROVE  LineSound(q, y, line)'
  <2>1. LineSound(q, y, line)
    BY <1>3, <1>4, Zenon DEF PayInv, LinesSound
  <2> QED
    BY <1>1, <2>1, LineSteady, Zenon
<1>5. LinesSound'
  BY <1>2, <1>4, Zenon DEF LinesSound
<1>6. ASSUME NEW q \in Writers, NEW s, s = owed'[q], NEW n \in DOMAIN s
      PROVE  IssueAt(s, n)'
  <2>1. IssueAt(s, n)
    BY <1>3, <1>6, Zenon DEF PayInv, IssueWhole
  <2> QED
    BY <2>1, Zenon DEF IssueAt
<1> QED
  BY <1>5, <1>6, Zenon DEF IssueWhole

\* The threads of the service stay where they are while a command starts, ends
\* or is stopped.
LEMMA CommandOnly ==
  ASSUME PayInv, Steady, UNCHANGED orders, CommandSound',
         \A y \in Orders : sale.by[y] = "coin" => remote'[y] = remote[y],
         Server \in alive => Server \in alive', owed'[Server] = owed[Server],
         DOMAIN at' = Threads, \A u \in Threads \ {Command} : at'[u] = at[u]
  PROVE  StagesInv'
<1>1. PICK T : T = {Command}
  BY Zenon
<1>2. ASSUME NEW u \in Threads \ {Command}, at[u].stage = "invoice"
      PROVE  Server \in alive' /\ remote'[at[u].order].status = "none"
  BY <1>2, Zenon DEF PayInv, StagesInv, StageSound
<1>3. \A y \in Orders : orders[y].state # "none" \/ OrderOwed(y) =>
        orders'[y].state # "none" \/ OrderOwed(y)'
  BY Zenon DEF OrderOwed
<1>4. /\ \A u \in Threads \ T : at'[u] = at[u]
      /\ \A t \in (Threads \cap T) \ {Command} : StageSound(t)'
      /\ \A t \in (Threads \cap T) \ {Command}, u \in Threads \ {Command} :
           /\ at'[t].stage = "invoice" /\ at'[u].stage = "invoice"
           /\ at'[t].order = at'[u].order
           => t = u
      /\ \A u \in Threads \ (T \cup {Command}) : at[u].stage = "invoice" =>
           Server \in alive' /\ remote'[at[u].order].status = "none"
  BY <1>1, <1>2, Zenon
<1> QED
  BY <1>3, <1>4, ThreadsKeep, ZenonT(30)

LEMMA CrashKeeps ==
  ASSUME PayInv, NEW p \in Writers, Crash(p)
  PROVE  PayInv'
<1>1. /\ UNCHANGED <<orders, remote, sale>> /\ alive' = alive \ {p}
      /\ known' = [known EXCEPT ![p] = [x \in Orders |-> NoOrder]]
      /\ owed' = [owed EXCEPT ![p] = <<>>]
      /\ at' = [t \in Threads |-> IF t = Command <=> p = Command THEN Resting
                                  ELSE at[t]]
  BY Zenon DEF Crash
<1>2. Steady
  BY <1>1, Untouched, Zenon
<1>3. BooksInv'
  <2>1. alive' \subseteq Writers /\ alive' \ {p} \subseteq alive /\ p \notin alive'
    BY <1>1, Zenon DEF PayInv, BooksInv
  <2> QED
    BY <1>1, <2>1, BooksReplaced, Zenon
<1>4. /\ DOMAIN owed' = Writers /\ owed'[p] = <<>>
      /\ \A q \in Writers : q # p => owed'[q] = owed[q]
  BY <1>1, Zenon DEF PayInv, LinesSound
<1>5. LinesSound' /\ IssueWhole'
  <2>1. \A q \in Writers : owed'[q] = owed[q] \/ owed'[q] = <<>>
    BY <1>4, Zenon
  <2>2. \A q \in Writers : q \notin alive' => owed'[q] = <<>>
    BY <1>1, <1>4, Zenon DEF PayInv, LinesSound
  <2> QED
    BY <1>1, <1>4, <2>1, <2>2, LinesKept, Zenon
<1>6. DOMAIN at' = Threads /\ Command \in Threads /\ Command \in Writers /\ Server \in Writers
  BY <1>1, Zenon DEF Threads, Writers
<1>7. Server # Command
  BY DEF Server, Command
<1>8. CASE p = Command
  <2>1. CommandSound'
    BY <1>1, <1>8, Zenon DEF CommandSound
  <2>2. \A u \in Threads \ {Command} : at'[u] = at[u]
    BY <1>1, <1>8, Zenon
  <2>3. StagesInv'
    BY <1>1, <1>2, <1>4, <1>6, <1>7, <1>8, <2>1, <2>2, CommandOnly, ZenonT(60)
  <2> QED
    BY <1>2, <1>3, <1>5, <2>3, Zenon DEF PayInv, Steady
<1>9. CASE p = Server
  <2>1. at'[Command] = at[Command] /\ owed'[Command] = owed[Command]
    BY <1>1, <1>4, <1>6, <1>7, <1>9, Zenon
  <2>2. CommandSound'
    BY <1>1, <1>2, <2>1, CommandSteady, Zenon
  <2>3. ASSUME NEW t \in Threads, t # Command
        PROVE  at'[t].stage = "idle"
    BY <1>1, <1>7, <1>9, <2>3, Zenon DEF Resting
  <2>4. \A t \in Threads : t # Command => StageSound(t)'
    BY <2>3, Zenon DEF StageSound, TossStages
  <2>5. StagesInv'
    BY <1>6, <2>2, <2>3, <2>4, Zenon DEF StagesInv
  <2> QED
    BY <1>2, <1>3, <1>5, <2>5, Zenon DEF PayInv, Steady
<1> QED
  BY <1>8, <1>9, Zenon DEF Writers

LEMMA StartServiceKeeps ==
  ASSUME PayInv, StartService
  PROVE  PayInv'
<1>1. /\ Server \notin alive /\ UNCHANGED <<orders, owed, at, remote, sale>>
      /\ alive' = alive \cup {Server} /\ known' = [known EXCEPT ![Server] = orders]
  BY Zenon DEF StartService
<1>2. Steady
  BY <1>1, Untouched, Zenon
<1>3. Server \in Writers /\ Command \in Threads /\ Server # Command
  BY DEF Writers, Threads, Server, Command
<1>4. BooksInv'
  <2>1. alive' \subseteq Writers /\ alive' \ {Server} \subseteq alive
    BY <1>1, <1>3, Zenon DEF PayInv, BooksInv
  <2> QED
    BY <1>1, <1>3, <2>1, BooksReplaced, Zenon
<1>5. LinesSound' /\ IssueWhole'
  <2>1. DOMAIN owed' = Writers /\ \A q \in Writers : q \notin alive' => owed'[q] = <<>>
    BY <1>1, Zenon DEF PayInv, LinesSound
  <2> QED
    BY <1>1, <2>1, LinesKept, Zenon
<1>6. CommandSound'
  BY <1>1, <1>2, <1>3, CommandSteady, Zenon
<1>7. StagesInv'
  BY <1>1, <1>2, <1>6, CommandOnly, Zenon DEF PayInv, StagesInv
<1> QED
  BY <1>2, <1>4, <1>5, <1>7, Zenon DEF PayInv, Steady

LEMMA StartCommandKeeps ==
  ASSUME PayInv, NEW x \in Orders, NEW op, StartCommand_(op, x)
  PROVE  PayInv'
<1>1. /\ op \in {"release", "swift-confirm", "swift-cancel", "refund"}
      /\ Command \notin alive /\ orders[x].state # "none"
      /\ op = "release" => orders[x].state = "mismatch"
      /\ alive' = alive \cup {Command} /\ known' = [known EXCEPT ![Command] = orders]
      /\ at' = [at EXCEPT ![Command] = Stage(op, x)]
      /\ UNCHANGED <<orders, owed, remote, sale>>
  BY Zenon DEF StartCommand_, Goes
<1>2. Steady
  BY <1>1, Untouched, Zenon
<1>3. Command \in Writers /\ Command \in Threads
  BY DEF Writers, Threads
<1>4. BooksInv'
  <2>1. alive' \subseteq Writers /\ alive' \ {Command} \subseteq alive
    BY <1>1, <1>3, Zenon DEF PayInv, BooksInv
  <2> QED
    BY <1>1, <1>3, <2>1, BooksReplaced, Zenon
<1>5. LinesSound' /\ IssueWhole'
  <2>1. DOMAIN owed' = Writers /\ \A q \in Writers : q \notin alive' => owed'[q] = <<>>
    BY <1>1, Zenon DEF PayInv, LinesSound
  <2> QED
    BY <1>1, <2>1, LinesKept, Zenon
<1>6. /\ DOMAIN at' = Threads /\ at'[Command] = Stage(op, x)
      /\ \A u \in Threads \ {Command} : at'[u] = at[u]
  BY <1>1, <1>3, Zenon DEF PayInv, StagesInv
<1>7. at'[Command].stage = op /\ at'[Command].order = x
  BY <1>6, StageIs
<1>8. owed'[Command] = <<>>
  BY <1>1, <1>3, Zenon DEF PayInv, LinesSound
<1>9. op = "release" /\ sale.by[x] = "coin" => Mismatched(x)'
  BY <1>1, Zenon DEF PayInv, BooksInv, LedgerSound, Mismatched
<1>10. CommandSound'
  BY <1>1, <1>7, <1>8, <1>9, EmptySequence, Zenon DEF CommandSound
<1>11. StagesInv'
  BY <1>1, <1>2, <1>6, <1>10, CommandOnly, ZenonT(60)
<1> QED
  BY <1>2, <1>4, <1>5, <1>11, Zenon DEF PayInv, Steady

LEMMA ExitCommandKeeps ==
  ASSUME PayInv, ExitCommand_
  PROVE  PayInv'
<1>1. /\ alive' = alive \ {Command} /\ owed[Command] = <<>>
      /\ known' = [known EXCEPT ![Command] = [x \in Orders |-> NoOrder]]
      /\ at' = [at EXCEPT ![Command] = Resting]
      /\ UNCHANGED <<orders, owed, remote, sale>>
  BY Zenon DEF ExitCommand_, Goes
<1>2. Steady
  BY <1>1, Untouched, Zenon
<1>3. Command \in Writers /\ Command \in Threads /\ Server # Command
  BY DEF Writers, Threads, Server, Command
<1>4. BooksInv'
  <2>1. alive' \subseteq Writers /\ alive' \ {Command} \subseteq alive /\ Command \notin alive'
    BY <1>1, Zenon DEF PayInv, BooksInv
  <2> QED
    BY <1>1, <1>3, <2>1, BooksReplaced, Zenon
<1>5. LinesSound' /\ IssueWhole'
  <2>1. DOMAIN owed' = Writers /\ \A q \in Writers : q \notin alive' => owed'[q] = <<>>
    BY <1>1, Zenon DEF PayInv, LinesSound
  <2> QED
    BY <1>1, <2>1, LinesKept, Zenon
<1>6. DOMAIN at' = Threads /\ \A u \in Threads \ {Command} : at'[u] = at[u]
  BY <1>1, <1>3, Zenon DEF PayInv, StagesInv
<1>7. CommandSound'
  BY <1>1, Zenon DEF CommandSound
<1>8. StagesInv'
  BY <1>1, <1>2, <1>3, <1>6, <1>7, CommandOnly, Zenon
<1> QED
  BY <1>2, <1>4, <1>5, <1>8, Zenon DEF PayInv, Steady

-----------------------------------------------------------------------------
(* The threads of the service, and the world.                              *)

\* No thread moves.
LEMMA StillKeeps ==
  ASSUME PayInv, Steady, BooksInv', LinesSound', IssueWhole',
         UNCHANGED <<orders, alive, at>>, owed'[Command] = owed[Command],
         owed'[Server] = owed[Server] \/ owed[Server] = <<>>,
         \A y \in Orders : sale.by[y] = "coin" /\ remote[y].status = "none" =>
           remote'[y].status = "none"
  PROVE  PayInv'
<1>1. PICK T : T = {}
  BY Zenon
<1>2. DOMAIN at' = Threads
  BY Zenon DEF PayInv, StagesInv
<1>3. ASSUME NEW u \in Threads \ {Command}, at[u].stage = "invoice"
      PROVE  remote'[at[u].order].status = "none"
  BY <1>3, Zenon DEF PayInv, StagesInv, StageSound
<1>4. /\ Command \notin T /\ \A u \in Threads \ T : at'[u] = at[u]
      /\ \A t \in Threads \cap T : StageSound(t)'
      /\ \A t \in Threads \cap T, u \in Threads \ {Command} :
           /\ at'[t].stage = "invoice" /\ at'[u].stage = "invoice"
           /\ at'[t].order = at'[u].order
           => t = u
      /\ \A u \in Threads \ (T \cup {Command}) : at[u].stage = "invoice" =>
           remote'[at[u].order].status = "none"
  BY <1>1, <1>3, ZenonT(60)
<1> QED
  BY <1>2, <1>4, ServiceKeeps, ZenonT(30)

\* One thread moves, and not to the call for an invoice.
LEMMA MoveKeeps ==
  ASSUME PayInv, Steady, BooksInv', LinesSound', IssueWhole',
         UNCHANGED <<orders, alive>>, owed'[Command] = owed[Command],
         owed'[Server] = owed[Server] \/ owed[Server] = <<>>,
         NEW h \in Threads \ {Command}, NEW where, at' = [at EXCEPT ![h] = where],
         StageSound(h)', where.stage # "invoice",
         \A u \in Threads \ {h, Command} : at[u].stage = "invoice" =>
           remote'[at[u].order].status = "none"
  PROVE  PayInv'
<1>1. PICK T : T = {h}
  BY Zenon
<1>2. /\ DOMAIN at' = Threads /\ at'[h].stage # "invoice"
      /\ \A u \in Threads \ {h} : at'[u] = at[u]
  BY Zenon DEF PayInv, StagesInv
<1>3. Command \notin T
  BY <1>1, Zenon
<1>4. \A u \in Threads \ T : at'[u] = at[u]
  BY <1>1, <1>2, Zenon
<1>5. \A t \in Threads \cap T : StageSound(t)'
  BY <1>1, Zenon
<1>6. \A t \in Threads \cap T, u \in Threads \ {Command} :
        /\ at'[t].stage = "invoice" /\ at'[u].stage = "invoice"
        /\ at'[t].order = at'[u].order
        => t = u
  BY <1>1, <1>2, ZenonT(60)
<1>7. \A u \in Threads \ (T \cup {Command}) : at[u].stage = "invoice" =>
        remote'[at[u].order].status = "none"
  BY <1>1, Zenon
<1> QED
  BY <1>2, <1>3, <1>4, <1>5, <1>6, <1>7, ServiceKeeps

\* One order's remote record changes, and nothing else.
LEMMA WorldTouches ==
  ASSUME PayInv, NEW x \in Orders, Outside, DOMAIN remote' = Orders,
         IsRemote(remote'[x]), \A y \in Orders : y # x => remote'[y] = remote[y],
         sale.by[x] = "coin" =>
           /\ remote'[x].status \in CoinStatuses \ {"none"}
           /\ remote[x].status \notin {"none", "completed"}
  PROVE  PayInv'
<1>1. UNCHANGED <<orders, known, owed, alive, at, sale>>
  BY Zenon DEF Outside
<1>2. sale.by[x] = "coin" => remote[x].status # "completed" /\ orders[x].state # "none"
  BY Zenon DEF PayInv, BooksInv, LedgerSound
<1>3. Steady
  BY <1>1, <1>2, Touched, Zenon
<1>4. BooksInv' /\ LinesSound' /\ IssueWhole'
  BY <1>1, <1>3, OwedSteady, Zenon
<1>5. \A y \in Orders : sale.by[y] = "coin" /\ remote[y].status = "none" =>
        remote'[y].status = "none"
  BY Zenon
<1> QED
  BY <1>1, <1>3, <1>4, <1>5, StillKeeps, Zenon

LEMMA WorldKeeps ==
  ASSUME PayInv, World
  PROVE  PayInv'
<1>1. DOMAIN remote = Orders /\ \A x \in Orders : IsRemote(remote[x])
  BY Zenon DEF PayInv, RemoteInv
<1>2. ASSUME NEW x \in Orders, NEW amount \in Payments, PayCoin(x, amount)
      PROVE  PayInv'
  <2>1. /\ remote[x].status \in {"unpaid", "pending"} /\ Outside
        /\ remote' = [remote EXCEPT ![x].received = @ + amount, ![x].status = "pending"]
    BY <1>2, Zenon DEF PayCoin
  <2>2. /\ DOMAIN remote' = Orders /\ IsRemote(remote'[x])
        /\ remote'[x].status = "pending"
        /\ \A y \in Orders : y # x => remote'[y] = remote[y]
    <3>1. /\ DOMAIN remote' = Orders
          /\ remote'[x] = [remote[x] EXCEPT !.received = @ + amount, !.status = "pending"]
          /\ \A y \in Orders : y # x => remote'[y] = remote[y]
      BY <1>1, <2>1
    <3> QED
      BY <1>1, <3>1, Zenon DEF IsRemote
  <2> QED
    BY <2>1, <2>2, WorldTouches, Zenon DEF CoinStatuses
<1>3. ASSUME NEW x \in Orders, NEW amount \in Payments, Arrive(x, amount)
      PROVE  PayInv'
  <2>1. /\ sale.by[x] = "swift" /\ Outside
        /\ remote' = [remote EXCEPT ![x].received = @ + amount]
    BY <1>3, Zenon DEF Arrive
  <2>2. /\ DOMAIN remote' = Orders /\ IsRemote(remote'[x])
        /\ \A y \in Orders : y # x => remote'[y] = remote[y]
    BY <1>1, <2>1 DEF IsRemote
  <2> QED
    BY <2>1, <2>2, WorldTouches, Zenon
<1>4. ASSUME NEW x \in Orders, CompleteCoin(x)
      PROVE  PayInv'
  <2>1. PICK right \in BOOLEAN :
          /\ remote[x].status = "pending" /\ Outside
          /\ remote' = [remote EXCEPT ![x].status = "completed", ![x].matches = right]
    BY <1>4, Zenon DEF CompleteCoin
  <2>2. /\ DOMAIN remote' = Orders /\ IsRemote(remote'[x])
        /\ remote'[x].status = "completed"
        /\ \A y \in Orders : y # x => remote'[y] = remote[y]
    <3>1. /\ DOMAIN remote' = Orders
          /\ remote'[x] = [remote[x] EXCEPT !.status = "completed", !.matches = right]
          /\ \A y \in Orders : y # x => remote'[y] = remote[y]
      BY <1>1, <2>1
    <3> QED
      BY <1>1, <3>1, Zenon DEF IsRemote
  <2> QED
    BY <2>1, <2>2, WorldTouches, Zenon DEF CoinStatuses
<1>5. ASSUME NEW x \in Orders, TimeOutCoin(x)
      PROVE  PayInv'
  <2>1. /\ remote[x].status \in {"unpaid", "pending"} /\ Outside
        /\ remote' = [remote EXCEPT ![x].status = "timedout"]
    BY <1>5, Zenon DEF TimeOutCoin
  <2>2. /\ DOMAIN remote' = Orders /\ IsRemote(remote'[x])
        /\ remote'[x].status = "timedout"
        /\ \A y \in Orders : y # x => remote'[y] = remote[y]
    BY <1>1, <2>1 DEF IsRemote
  <2> QED
    BY <2>1, <2>2, WorldTouches, Zenon DEF CoinStatuses
<1>6. ASSUME NEW x \in Orders, Authorise(x)
      PROVE  PayInv'
  <2>1. PICK asked \in BOOLEAN, right \in BOOLEAN, account \in BOOLEAN :
          /\ sale.by[x] = "toss" /\ Outside
          /\ remote' = [remote EXCEPT ![x] = [@ EXCEPT !.status = "IN_PROGRESS",
                          !.asked = asked, !.matches = right, !.account = account]]
    BY <1>6, Zenon DEF Authorise
  <2>2. /\ DOMAIN remote' = Orders /\ IsRemote(remote'[x])
        /\ \A y \in Orders : y # x => remote'[y] = remote[y]
    BY <1>1, <2>1, Zenon DEF IsRemote
  <2> QED
    BY <2>1, <2>2, WorldTouches, Zenon
<1>7. ASSUME NEW x \in Orders, Deposit(x)
      PROVE  PayInv'
  <2>1. /\ sale.by[x] = "toss" /\ Outside
        /\ remote' = [remote EXCEPT ![x] = Captured(@, "DONE")]
    BY <1>7, Zenon DEF Deposit
  <2>2. /\ DOMAIN remote' = Orders /\ IsRemote(remote'[x])
        /\ \A y \in Orders : y # x => remote'[y] = remote[y]
    BY <1>1, <2>1, Zenon DEF IsRemote, Captured
  <2> QED
    BY <2>1, <2>2, WorldTouches, Zenon
<1>8. ASSUME NEW x \in Orders, ExpireToss(x)
      PROVE  PayInv'
  <2>1. /\ sale.by[x] = "toss" /\ Outside
        /\ remote' = [remote EXCEPT ![x].status = "EXPIRED"]
    BY <1>8, Zenon DEF ExpireToss
  <2>2. /\ DOMAIN remote' = Orders /\ IsRemote(remote'[x])
        /\ \A y \in Orders : y # x => remote'[y] = remote[y]
    BY <1>1, <2>1 DEF IsRemote
  <2> QED
    BY <2>1, <2>2, WorldTouches, Zenon
<1>9. ASSUME NEW x \in Orders, PassTime(x)
      PROVE  PayInv'
  <2>1. UNCHANGED <<orders, known, owed, alive, at, remote, sale>>
    BY <1>9, Zenon DEF PassTime, Outside
  <2>2. Steady
    BY <2>1, Untouched, Zenon
  <2>3. BooksInv' /\ LinesSound' /\ IssueWhole'
    BY <2>1, <2>2, OwedSteady, Zenon
  <2> QED
    BY <2>1, <2>2, <2>3, StillKeeps, Zenon
<1> QED
  BY <1>2, <1>3, <1>4, <1>5, <1>6, <1>7, <1>8, <1>9, CrashKeeps, StartServiceKeeps, ZenonT(60)
     DEF World

-----------------------------------------------------------------------------
(* What a process decides on under its lock.                               *)

Decided(p, x, lines) ==
  /\ IssueShape(lines)
  /\ \A n \in DOMAIN lines :
       LineSound(p, x, lines[n]) /\ (IsIssue(lines[n]) => ~orders[x].issued)

LEMMA DecidedNone ==
  ASSUME NEW p, NEW x
  PROVE  Decided(p, x, <<>>)
<1>1. IssueShape(<<>>)
  BY EmptySequence, PlainShape, Zenon
<1> QED
  BY <1>1, EmptySequence, Zenon DEF Decided

LEMMA DecidedOne ==
  ASSUME NEW p, NEW x, NEW line, LineSound(p, x, line), ~IsIssue(line)
  PROVE  Decided(p, x, <<line>>)
<1>1. IsSequence(<<line>>) /\ \A n \in DOMAIN <<line>> : <<line>>[n] = line
  BY OneLine, Zenon
<1>2. line.type \in LineTypes
  BY Zenon DEF LineSound
<1>3. IssueShape(<<line>>)
  BY <1>1, <1>2, PlainShape, ZenonT(60)
<1> QED
  BY <1>1, <1>3, Zenon DEF Decided

LEMMA StateDecided ==
  ASSUME NEW p, NEW x \in Orders, NEW state, NEW reason, NEW received, state # "none",
         state = "mismatch" /\ sale.by[x] = "coin" => Mismatched(x)
  PROVE  /\ LineSound(p, x, StateLine(state, reason, received))
         /\ Decided(p, x, <<StateLine(state, reason, received)>>)
<1> DEFINE line == StateLine(state, reason, received)
<1>1. line.type = "state" /\ line.state = state
  BY Zenon DEF StateLine
<1> HIDE DEF line
<1>2. LineSound(p, x, line) /\ ~IsIssue(line)
  BY <1>1, Zenon DEF LineSound, LineTypes, IsIssue
<1>3. Decided(p, x, <<line>>)
  BY <1>2, DecidedOne, Zenon
<1> QED
  BY <1>2, <1>3 DEF line

LEMMA IssueDecided ==
  ASSUME NEW p, NEW x \in Orders, Issues(p, x), ~orders[x].issued,
         NEW o, NEW received, NEW hc
  PROVE  Decided(p, x, IssueLines(o, received, hc))
<1> DEFINE lines == IssueLines(o, received, hc)
<1>1. IssueShape(lines) /\ \A n \in DOMAIN lines :
        lines[n].type \in {"payment", "hc_issued", "hc_lot"}
  BY IssueLinesAre, Zenon
<1> HIDE DEF lines
<1>2. \A n \in DOMAIN lines : LineSound(p, x, lines[n])
  BY <1>1, Zenon DEF LineSound, LineTypes
<1>3. Decided(p, x, lines)
  BY <1>1, <1>2, Zenon DEF Decided
<1> QED
  BY <1>3 DEF lines

LEMMA Locks ==
  ASSUME PayInv, Steady, UNCHANGED <<orders, known, alive>>,
         NEW p \in Writers, Free(p), NEW x \in Orders, NEW lines,
         Locked_(p, x, lines), Decided(p, x, lines)
  PROVE  /\ BooksInv' /\ LinesSound' /\ IssueWhole' /\ owed[p] = <<>>
         /\ \A q \in Writers : q # p => owed'[q] = owed[q]
<1>1. owed' = [owed EXCEPT ![p] = OwedFor(x, lines)]
  BY Zenon DEF Locked_, OwedFor
<1>2. p \in alive /\ owed[p] = <<>> /\ DOMAIN owed = Writers
  BY Zenon DEF Free, PayInv, LinesSound
<1>3. IssueShape(lines) /\ \A n \in DOMAIN lines :
        LineSound(p, x, lines[n]) /\ (IsIssue(lines[n]) => ~orders[x].issued)
  BY Zenon DEF Decided
<1>4. BooksInv' /\ LinesSound' /\ IssueWhole'
  BY <1>1, <1>2, <1>3, LockKeeps, Zenon
<1>5. \A q \in Writers : q # p => owed'[q] = owed[q]
  BY <1>1, <1>2, Zenon
<1> QED
  BY <1>2, <1>4, <1>5

\* settle, with the answer of the processor.
LEMMA SettleDecided ==
  ASSUME NEW p, NEW x \in Orders, NEW o, NEW r, NEW released \in BOOLEAN,
         sale.by[x] = "coin", r.status \in CoinStatuses \ {"none"},
         r.status = "completed" => remote[x].status = "completed" /\ remote[x].matches = r.matches,
         ~o.issued => ~orders[x].issued \/ ~Issues(p, x),
         IF released THEN p = Command /\ r.status = "completed" /\ ~r.matches ELSE p = Server
  PROVE  Decided(p, x, SettleLines(o, r, released))
<1> DEFINE lines == SettleLines(o, r, released)
<1>1. CASE Settled(o, released)
  <2>1. lines = <<>>
    BY <1>1, Zenon DEF SettleLines
  <2> QED
    BY <2>1, DecidedNone, Zenon
<1>2. CASE ~Settled(o, released) /\ r.status # "completed"
  <2>1. lines \in {<<>>, <<StateLine(r.status, o.reason, r.received)>>}
    BY <1>2, Zenon DEF SettleLines
  <2>2. r.status # "none" /\ r.status # "mismatch"
    BY Zenon DEF CoinStatuses
  <2>3. Decided(p, x, <<StateLine(r.status, o.reason, r.received)>>)
    BY <2>2, StateDecided, Zenon
  <2> QED
    BY <2>1, <2>3, DecidedNone, Zenon
<1>3. CASE ~Settled(o, released) /\ r.status = "completed" /\ ~r.matches /\ ~released
  <2>1. lines = <<StateLine("mismatch", o.reason, r.received)>>
    BY <1>3, Zenon DEF SettleLines
  <2>2. Mismatched(x)
    BY <1>3, Zenon DEF Mismatched
  <2>3. Decided(p, x, <<StateLine("mismatch", o.reason, r.received)>>)
    BY <2>2, StateDecided, Zenon
  <2> QED
    BY <2>1, <2>3, Zenon
<1>4. CASE ~Settled(o, released) /\ r.status = "completed" /\ (r.matches \/ released)
  <2>1. lines \in {<<>>, IssueLines(o, r.received, Worth(r))}
    BY <1>4, Zenon DEF SettleLines
  <2>2. Issues(p, x)
    <3>1. Server # Command
      BY DEF Server, Command
    <3> QED
      BY <1>4, <3>1, Zenon DEF Issues
  <2>3. ~orders[x].issued
    BY <1>4, <2>2, Zenon DEF Settled
  <2>4. Decided(p, x, IssueLines(o, r.received, Worth(r)))
    BY <2>2, <2>3, IssueDecided, Zenon
  <2> QED
    BY <2>1, <2>4, DecidedNone, Zenon
<1> QED
  BY <1>1, <1>2, <1>3, <1>4, Zenon

\* toss_apply, with the answer of Toss Payments.
LEMMA TossDecided ==
  ASSUME NEW x \in Orders, NEW o, NEW r, sale.by[x] = "toss",
         ~o.issued => ~orders[x].issued
  PROVE  Decided(Server, x, TossLines(o, r))
<1> DEFINE lines == TossLines(o, r)
           ended == CASE r.status = "ABORTED" -> "failed"
                      [] r.status = "EXPIRED" -> "timedout"
                      [] OTHER -> "cancelled"
<1>1. CASE o.issued \/ (~r.matches /\ r.status \in {"DONE", "WAITING"})
  <2>1. lines = <<>>
    BY <1>1, Zenon DEF TossLines
  <2> QED
    BY <2>1, DecidedNone, Zenon
<1>2. CASE ~o.issued /\ r.matches /\ r.status = "DONE"
  <2>1. lines = IssueLines(o, Total, Total)
    BY <1>2, Zenon DEF TossLines
  <2>2. Issues(Server, x) /\ ~orders[x].issued
    BY <1>2, Zenon DEF Issues
  <2> QED
    BY <2>1, <2>2, IssueDecided, Zenon
<1>3. CASE ~o.issued /\ r.matches /\ r.status = "WAITING"
  <2>1. lines \in {<<>>, <<StateLine("waiting", o.reason, 0)>>}
    BY <1>3, Zenon DEF TossLines
  <2>2. Decided(Server, x, <<StateLine("waiting", o.reason, 0)>>)
    BY StateDecided, Zenon
  <2> QED
    BY <2>1, <2>2, DecidedNone, Zenon
<1>4. CASE ~o.issued /\ r.status \in {"ABORTED", "EXPIRED", "CANCELED"}
  <2>1. lines \in {<<>>, <<StateLine(ended, "other", 0)>>}
    BY <1>4, Zenon DEF TossLines
  <2>2. ended # "none" /\ ended # "mismatch"
    BY Zenon
  <2> HIDE DEF ended
  <2>3. Decided(Server, x, <<StateLine(ended, "other", 0)>>)
    BY <2>2, StateDecided, Zenon
  <2> QED
    BY <2>1, <2>3, DecidedNone, Zenon
<1>5. CASE r.status \notin {"DONE", "WAITING", "ABORTED", "EXPIRED", "CANCELED"}
  <2>1. lines = <<>>
    BY <1>5, Zenon DEF TossLines
  <2> QED
    BY <2>1, DecidedNone, Zenon
<1> QED
  BY <1>1, <1>2, <1>3, <1>4, <1>5, Zenon

-----------------------------------------------------------------------------
(* Where a thread goes.                                                    *)

\* A thread rests, or is at a stage of an order at Toss Payments.
TossWhere(where) ==
  \/ where.stage = "idle"
  \/ /\ where.stage \in TossStages
     /\ where.order \in Orders /\ sale.by[where.order] = "toss"
     /\ where.stage \in {"apply", "refuse"} =>
          /\ where = Applied(where.stage, where.order, where.answer, where.next)
          /\ where.next \in {"idle", "expiry"}

LEMMA RestingIs == TossWhere(Resting)
BY Zenon DEF TossWhere, Resting

LEMMA StageIsToss ==
  ASSUME NEW name \in TossStages \ {"apply", "refuse"}, NEW x \in Orders, sale.by[x] = "toss"
  PROVE  TossWhere(Stage(name, x))
<1> DEFINE w == Stage(name, x)
<1>1. w.stage = name /\ w.order = x
  BY StageIs, Zenon
<1> HIDE DEF w
<1>2. TossWhere(w)
  BY <1>1, Zenon DEF TossWhere
<1> QED
  BY <1>2 DEF w

LEMMA AppliedIsToss ==
  ASSUME NEW name \in {"apply", "refuse"}, NEW x \in Orders, sale.by[x] = "toss",
         NEW answer, NEW next \in {"idle", "expiry"}
  PROVE  TossWhere(Applied(name, x, answer, next))
<1> DEFINE w == Applied(name, x, answer, next)
<1>1. w.stage = name /\ w.order = x /\ w.answer = answer /\ w.next = next
  BY Zenon DEF Applied
<1>2. w = Applied(w.stage, w.order, w.answer, w.next)
  BY <1>1, Zenon
<1> HIDE DEF w
<1>3. TossWhere(w)
  BY <1>1, <1>2, Zenon DEF TossWhere, TossStages
<1> QED
  BY <1>3 DEF w

LEMMA AfterIsToss ==
  ASSUME NEW next \in {"idle", "expiry"}, NEW x \in Orders, sale.by[x] = "toss"
  PROVE  TossWhere(After(next, x))
<1>1. CASE next = "idle"
  BY <1>1, RestingIs, Zenon DEF After
<1>2. CASE next = "expiry"
  BY <1>2, StageIsToss, Zenon DEF After, TossStages
<1> QED
  BY <1>1, <1>2

\* One thread moves to such a stage.
LEMMA TossMoves ==
  ASSUME PayInv, Steady, BooksInv', LinesSound', IssueWhole',
         UNCHANGED <<orders, alive>>, owed'[Command] = owed[Command],
         owed'[Server] = owed[Server] \/ owed[Server] = <<>>,
         NEW h \in Threads \ {Command}, NEW where, Goes(h, where), TossWhere(where),
         \A u \in Threads \ {h, Command} : at[u].stage = "invoice" =>
           remote'[at[u].order].status = "none"
  PROVE  PayInv'
<1>1. at' = [at EXCEPT ![h] = where]
  BY Zenon DEF Goes
<1>2. at'[h] = where
  BY <1>1, ZenonT(60) DEF PayInv, StagesInv
<1>3. sale' = sale
  BY DEF Steady
<1>4. where.stage \notin {"invoice", "settle"}
  BY ZenonT(60) DEF TossWhere, TossStages
<1>5. StageSound(h)'
  <2>1. CASE where.stage = "idle"
    BY <1>2, <1>4, <2>1, Zenon DEF StageSound, TossStages
  <2>2. CASE where.stage # "idle"
    <3>1. PICK x \in Orders : x = where.order /\ sale.by[x] = "toss"
      BY <2>2, Zenon DEF TossWhere
    <3>2. where.stage \in {"apply", "refuse"} =>
            /\ where = Applied(where.stage, x, where.answer, where.next)
            /\ where.next \in {"idle", "expiry"}
      BY <2>2, <3>1, Zenon DEF TossWhere
    <3> QED
      BY <1>2, <1>3, <1>4, <3>1, <3>2, Zenon DEF StageSound
  <2> QED
    BY <2>1, <2>2
<1> QED
  BY <1>1, <1>4, <1>5, MoveKeeps, Zenon

LEMMA InvoicesWait ==
  ASSUME PayInv, \A y \in Orders : sale.by[y] = "coin" => remote'[y] = remote[y]
  PROVE  \A u \in Threads \ {Command} : at[u].stage = "invoice" =>
           remote'[at[u].order].status = "none"
<1>1. SUFFICES ASSUME NEW u \in Threads \ {Command}, at[u].stage = "invoice"
               PROVE  remote'[at[u].order].status = "none"
  BY Zenon
<1>2. /\ at[u].order \in Orders /\ sale.by[at[u].order] = "coin"
      /\ remote[at[u].order].status = "none"
  BY <1>1, Zenon DEF PayInv, StagesInv, StageSound
<1> QED
  BY <1>2

\* The record of an order that is not at CoinPayments changes.
LEMMA OtherTouched ==
  ASSUME PayInv, sale' = sale, NEW x \in Orders, sale.by[x] # "coin",
         DOMAIN remote' = Orders, IsRemote(remote'[x]),
         \A y \in Orders : y # x => remote'[y] = remote[y]
  PROVE  Steady /\ \A y \in Orders : sale.by[y] = "coin" => remote'[y] = remote[y]
BY Touched, Zenon

-----------------------------------------------------------------------------
(* The handlers.                                                           *)

LEMMA ServiceThreads ==
  /\ Work \in Threads \ {Command} /\ \A h \in Handlers : h \in Threads \ {Command}
  /\ Server \in Writers /\ Command \in Writers /\ Server # Command
BY PayAssumption DEF Threads, Work, Command, Server, Writers

\* The service's Book says so when an order that it may issue was issued.
LEMMA SeenIssued ==
  ASSUME PayInv, Free(Server), NEW x \in Orders, Issues(Server, x)
  PROVE  Seen(x).issued = orders[x].issued
BY Zenon DEF PayInv, BooksInv, Agreed, Free, Seen

LEMMA TossIssues ==
  ASSUME NEW x \in Orders, sale.by[x] = "toss" PROVE Issues(Server, x)
BY Zenon DEF Issues

\* The service locks for lines of x while no thread moves, or one does.
LEMMA LockStill ==
  ASSUME PayInv, Steady, UNCHANGED <<orders, known, alive, at>>, Free(Server),
         NEW x \in Orders, NEW lines, Locked_(Server, x, lines), Decided(Server, x, lines),
         \A y \in Orders : sale.by[y] = "coin" => remote'[y] = remote[y]
  PROVE  PayInv'
<1>1. /\ BooksInv' /\ LinesSound' /\ IssueWhole' /\ owed[Server] = <<>>
      /\ \A q \in Writers : q # Server => owed'[q] = owed[q]
  BY Locks, ServiceThreads
<1>2. owed'[Command] = owed[Command]
  BY <1>1, ServiceThreads, Zenon
<1> QED
  BY <1>1, <1>2, StillKeeps, ZenonT(60)

LEMMA LockMoves ==
  ASSUME PayInv, Steady, UNCHANGED <<orders, known, alive>>, Free(Server),
         NEW x \in Orders, NEW lines, Locked_(Server, x, lines), Decided(Server, x, lines),
         \A y \in Orders : sale.by[y] = "coin" => remote'[y] = remote[y],
         NEW h \in Threads \ {Command}, NEW where, Goes(h, where), TossWhere(where)
  PROVE  PayInv'
<1>1. /\ BooksInv' /\ LinesSound' /\ IssueWhole' /\ owed[Server] = <<>>
      /\ \A q \in Writers : q # Server => owed'[q] = owed[q]
  BY Locks, ServiceThreads
<1>2. owed'[Command] = owed[Command]
  BY <1>1, ServiceThreads, Zenon
<1>3. \A u \in Threads \ {Command} : at[u].stage = "invoice" =>
        remote'[at[u].order].status = "none"
  BY InvoicesWait, Zenon
<1> QED
  BY <1>1, <1>2, <1>3, TossMoves, ZenonT(60)

LEMMA FreeMoves ==
  ASSUME PayInv, Steady, UNCHANGED <<orders, known, alive, owed>>,
         \A y \in Orders : sale.by[y] = "coin" => remote'[y] = remote[y],
         NEW h \in Threads \ {Command}, NEW where, Goes(h, where), TossWhere(where)
  PROVE  PayInv'
<1>1. BooksInv' /\ LinesSound' /\ IssueWhole'
  BY OwedSteady, Zenon
<1>2. \A u \in Threads \ {Command} : at[u].stage = "invoice" =>
        remote'[at[u].order].status = "none"
  BY InvoicesWait, Zenon
<1> QED
  BY <1>1, <1>2, TossMoves, Zenon

LEMMA OrderDecided ==
  ASSUME NEW x \in Orders, NEW by
  PROVE  Decided(Server, x, <<[type |-> "order", by |-> by]>>)
<1> DEFINE line == [type |-> "order", by |-> by]
<1>1. line.type = "order"
  BY Zenon
<1> HIDE DEF line
<1>2. LineSound(Server, x, line) /\ ~IsIssue(line)
  BY <1>1, Zenon DEF LineSound, IsIssue, LineTypes
<1>3. Decided(Server, x, <<line>>)
  BY <1>2, DecidedOne, Zenon
<1> QED
  BY <1>3 DEF line

LEMMA PlacedKeeps ==
  ASSUME PayInv, NEW x \in Orders, Placed(x), UNCHANGED at
  PROVE  PayInv'
<1>1. /\ Free(Server) /\ Locked_(Server, x, <<[type |-> "order", by |-> sale.by[x]]>>)
      /\ UNCHANGED <<orders, known, alive, remote, sale>>
  BY Zenon DEF Placed, bookVars
<1>2. Steady
  BY <1>1, Untouched, ZenonT(60)
<1> QED
  BY <1>1, <1>2, OrderDecided, LockStill, Zenon

\* Nobody has asked for the invoice of an order that is placed now.
LEMMA PlaceOrderKeeps ==
  ASSUME PayInv, NEW h \in Handlers, NEW x \in Orders, PlaceOrder(h, x)
  PROVE  PayInv'
<1>1. /\ sale.by[x] = "coin" /\ Free(Server) /\ Seen(x).state = "none"
      /\ Locked_(Server, x, <<[type |-> "order", by |-> sale.by[x]]>>)
      /\ UNCHANGED <<orders, known, alive, remote, sale>>
      /\ at' = [at EXCEPT ![h] = Stage("invoice", x)]
  BY Zenon DEF PlaceOrder, Placed, bookVars, Goes
<1>2. Steady
  BY <1>1, Untouched, ZenonT(60)
<1>3. /\ BooksInv' /\ LinesSound' /\ IssueWhole' /\ owed[Server] = <<>>
      /\ \A q \in Writers : q # Server => owed'[q] = owed[q]
  BY <1>1, <1>2, OrderDecided, Locks, ServiceThreads
<1>4. owed'[Command] = owed[Command] /\ Server \in alive
  BY <1>1, <1>3, ServiceThreads, Zenon DEF Free
<1>5. orders[x].state = "none" /\ remote[x].status = "none"
  BY <1>1, <1>4, ZenonT(60) DEF PayInv, BooksInv, Agreed, LedgerSound, Seen
<1>6. /\ DOMAIN at' = Threads /\ at'[h] = Stage("invoice", x) /\ h \in Threads
      /\ \A u \in Threads \ {h} : at'[u] = at[u]
  BY <1>1, ServiceThreads, ZenonT(60) DEF PayInv, StagesInv
<1>7. at'[h].stage = "invoice" /\ at'[h].order = x
  BY <1>6, StageIs
<1>8. OrderOwed(x)'
  <2>1. owed'[Server] = OwedFor(x, <<[type |-> "order", by |-> sale.by[x]]>>)
    <3>1. DOMAIN owed = Writers
      BY Zenon DEF PayInv, LinesSound
    <3> QED
      BY <1>1, <3>1, ServiceThreads, Zenon DEF Locked_, OwedFor
  <2>2. PICK line : line = [type |-> "order", by |-> sale.by[x]] /\ line.type = "order"
    <3>1. [type |-> "order", by |-> sale.by[x]].type = "order"
      BY Zenon
    <3> QED
      BY <3>1, Zenon
  <2>3. IsSequence(<<line>>) /\ 1 \in DOMAIN <<line>> /\ <<line>>[1] = line
    BY OneLine, Zenon
  <2>4. /\ 1 \in DOMAIN OwedFor(x, <<line>>) /\ OwedFor(x, <<line>>)[1].order = x
        /\ OwedFor(x, <<line>>)[1].line = line
    BY <2>3, OwedForIs
  <2>5. 1 \in DOMAIN owed'[Server] /\ owed'[Server][1].order = x
          /\ owed'[Server][1].line.type = "order"
    BY <2>1, <2>2, <2>4, Zenon
  <2> QED
    BY <2>5, Zenon DEF OrderOwed
<1>9. StageSound(h)'
  BY <1>1, <1>4, <1>5, <1>7, <1>8, ZenonT(60) DEF StageSound, TossStages
<1>10. \A u \in Threads \ {Command} : at[u].stage = "invoice" =>
         at[u].order # x /\ remote'[at[u].order].status = "none"
  <2>1. ~OrderOwed(x)
    BY <1>3, EmptySequence, Zenon DEF OrderOwed
  <2> QED
    BY <1>1, <1>5, <2>1, ZenonT(60) DEF PayInv, StagesInv, StageSound
<1>11. PICK T : T = {h}
  BY Zenon
<1>12. /\ Command \notin T /\ \A u \in Threads \ T : at'[u] = at[u]
       /\ \A t \in Threads \cap T : StageSound(t)'
  BY <1>6, <1>9, <1>11, ServiceThreads, Zenon
<1>13. \A t \in Threads \cap T, u \in Threads \ {Command} :
         /\ at'[t].stage = "invoice" /\ at'[u].stage = "invoice"
         /\ at'[t].order = at'[u].order
         => t = u
  <2>1. SUFFICES ASSUME NEW u \in Threads \ {Command}, u # h, at'[u].stage = "invoice"
                 PROVE  at'[u].order # x
    BY <1>7, <1>11, Zenon
  <2>2. at'[u] = at[u]
    BY <1>6, <2>1, Zenon
  <2> QED
    BY <1>10, <2>1, <2>2, Zenon
<1>14. \A u \in Threads \ (T \cup {Command}) : at[u].stage = "invoice" =>
         remote'[at[u].order].status = "none"
  BY <1>10, Zenon
<1> QED
  BY SMTT(60), <1>1, <1>2, <1>3, <1>4, <1>6, <1>12, <1>13, <1>14, ServiceKeeps

LEMMA CreateInvoiceKeeps ==
  ASSUME PayInv, NEW h \in Handlers, CreateInvoice(h)
  PROVE  PayInv'
<1>1. PICK x, made : x = at[h].order /\ made = [remote EXCEPT ![x].status = "unpaid"]
  BY Zenon
<1>2. /\ Free(Server) /\ at[h].stage = "invoice" /\ Goes(h, Resting)
      /\ UNCHANGED <<orders, known, alive, sale>>
      /\ remote' \in {remote, made}
      /\ \/ remote' = made /\ Locked_(Server, x, <<[type |-> "invoice"]>>)
         \/ Locked_(Server, x, <<StateLine("failed", "", 0)>>)
  BY <1>1, Zenon DEF CreateInvoice, bookVars
<1>3. h \in Threads \ {Command} /\ owed[Server] = <<>>
  BY <1>2, ServiceThreads, Zenon DEF Free
<1>4. /\ x \in Orders /\ sale.by[x] = "coin" /\ remote[x].status = "none"
      /\ orders[x].state # "none" \/ OrderOwed(x)
  BY <1>1, <1>2, <1>3, ZenonT(60) DEF PayInv, StagesInv, StageSound
<1>5. orders[x].state # "none"
  BY <1>3, <1>4, EmptySequence, Zenon DEF OrderOwed
<1>6. DOMAIN remote = Orders /\ IsRemote(remote[x])
  BY <1>4, Zenon DEF PayInv, RemoteInv
<1>7. /\ DOMAIN made = Orders /\ IsRemote(made[x]) /\ made[x].status = "unpaid"
      /\ \A y \in Orders : y # x => made[y] = remote[y]
  BY <1>1, <1>4, <1>6, Zenon DEF IsRemote
<1>8. Steady
  <2>1. CASE remote' = remote
    BY <1>2, <2>1, Untouched, Zenon
  <2>2. CASE remote' = made
    BY <1>2, <1>4, <1>5, <1>7, <2>2, Touched, ZenonT(60) DEF CoinStatuses
  <2> QED
    BY <1>2, <2>1, <2>2, Zenon
<1>9. /\ BooksInv' /\ LinesSound' /\ IssueWhole'
      /\ \A q \in Writers : q # Server => owed'[q] = owed[q]
  <2>1. CASE Locked_(Server, x, <<StateLine("failed", "", 0)>>)
    <3>1. Decided(Server, x, <<StateLine("failed", "", 0)>>)
      BY <1>4, StateDecided, Zenon
    <3> QED
      BY <1>2, <1>4, <1>8, <2>1, <3>1, Locks, ServiceThreads, ZenonT(60)
  <2>2. CASE remote' = made /\ Locked_(Server, x, <<[type |-> "invoice"]>>)
    <3> DEFINE line == [type |-> "invoice"]
               lines == <<line>>
    <3>1. line.type = "invoice" /\ lines = <<line>>
      BY Zenon
    <3>2. DOMAIN owed = Writers /\ Server \in Writers /\ Server \in alive
      BY <1>2, ServiceThreads, Zenon DEF Free, PayInv, LinesSound
    <3>3. owed' = [owed EXCEPT ![Server] = OwedFor(x, lines)]
      BY <2>2, Zenon DEF Locked_, OwedFor
    <3> HIDE DEF line, lines
    <3>4. IsSequence(lines) /\ \A n \in DOMAIN lines : lines[n] = line
      BY <3>1, OneLine, Zenon
    <3>5. \A n \in DOMAIN lines : lines[n].type = "invoice" /\ ~IsIssue(lines[n])
      BY <3>1, <3>4, Zenon DEF IsIssue
    <3>6. IssueShape(lines)
      BY <3>4, <3>5, PlainShape, Zenon DEF LineTypes
    <3>7. remote'[x].status # "none"
      BY <1>7, <2>2, Zenon
    <3>8. BooksInv' /\ LinesSound' /\ IssueWhole'
      BY <1>2, <1>4, <1>8, <3>2, <3>3, <3>5, <3>6, <3>7, LockKeeps, ZenonT(60)
    <3> QED
      BY <3>2, <3>3, <3>8, Zenon
  <2> QED
    BY <1>2, <2>1, <2>2, Zenon
<1>10. owed'[Command] = owed[Command]
  BY <1>9, ServiceThreads, Zenon
<1>11. ASSUME NEW u \in Threads \ {h, Command}, at[u].stage = "invoice"
       PROVE  remote'[at[u].order].status = "none"
  <2>1. /\ at[u].order \in Orders /\ remote[at[u].order].status = "none"
        /\ at[u].order # x
    BY <1>1, <1>2, <1>3, <1>11, ZenonT(60) DEF PayInv, StagesInv, StageSound
  <2> QED
    BY <1>2, <1>7, <2>1, Zenon
<1> QED
  BY <1>2, <1>3, <1>8, <1>9, <1>10, <1>11, RestingIs, TossMoves, ZenonT(60)

LEMMA TossSuccessKeeps ==
  ASSUME PayInv, NEW h \in Handlers, NEW x \in Orders, TossSuccess(h, x)
  PROVE  PayInv'
<1> DEFINE failed == StateLine("failed", "amount", 0)
           paid == [type |-> "toss_payment"]
<1>1. /\ Free(Server) /\ sale.by[x] = "toss"
      /\ UNCHANGED <<orders, known, alive, remote, sale>>
      /\ \/ Locked_(Server, x, <<failed>>) /\ UNCHANGED at
         \/ /\ Locked_(Server, x, <<>>) \/ Locked_(Server, x, <<paid>>)
            /\ Goes(h, Stage("confirm", x))
  BY Zenon DEF TossSuccess, bookVars
<1>2. Steady
  BY <1>1, Untouched, Zenon
<1>3. Decided(Server, x, <<failed>>)
  BY StateDecided, Zenon
<1>4. Decided(Server, x, <<paid>>)
  <2>1. paid.type = "toss_payment"
    BY Zenon
  <2> HIDE DEF paid
  <2>2. LineSound(Server, x, paid) /\ ~IsIssue(paid)
    BY <2>1, Zenon DEF LineSound, IsIssue, LineTypes
  <2> QED
    BY <2>2, DecidedOne, Zenon
<1> HIDE DEF failed, paid
<1>5. TossWhere(Stage("confirm", x)) /\ h \in Threads \ {Command}
  BY <1>1, StageIsToss, ServiceThreads, Zenon DEF TossStages
<1>6. CASE Locked_(Server, x, <<failed>>) /\ UNCHANGED at
  BY <1>1, <1>2, <1>3, <1>6, LockStill, Zenon
<1>7. CASE Goes(h, Stage("confirm", x)) /\ Locked_(Server, x, <<>>)
  BY <1>1, <1>2, <1>5, <1>7, DecidedNone, LockMoves, ZenonT(60)
<1>8. CASE Goes(h, Stage("confirm", x)) /\ Locked_(Server, x, <<paid>>)
  BY <1>1, <1>2, <1>4, <1>5, <1>8, LockMoves, Zenon
<1> QED
  BY <1>1, <1>6, <1>7, <1>8, Zenon

\* A record at Toss Payments that is cancelled, or captured.
LEMMA TossTouched ==
  ASSUME PayInv, sale' = sale, NEW x \in Orders, sale.by[x] = "toss", NEW r, IsRemote(r),
         remote' = [remote EXCEPT ![x] = r]
  PROVE  Steady /\ \A y \in Orders : sale.by[y] = "coin" => remote'[y] = remote[y]
<1>1. DOMAIN remote = Orders
  BY Zenon DEF PayInv, RemoteInv
<1>2. /\ DOMAIN remote' = Orders /\ remote'[x] = r
      /\ \A y \in Orders : y # x => remote'[y] = remote[y]
  BY <1>1, Zenon
<1> QED
  BY <1>2, OtherTouched, Zenon

LEMMA CancelledTouched ==
  ASSUME PayInv, sale' = sale, NEW x \in Orders, sale.by[x] = "toss",
         UNCHANGED remote \/ remote' = Cancelled(x)
  PROVE  Steady /\ \A y \in Orders : sale.by[y] = "coin" => remote'[y] = remote[y]
<1>1. CASE UNCHANGED remote
  BY <1>1, Untouched, Zenon
<1>2. CASE remote' = Cancelled(x)
  <2>1. DOMAIN remote = Orders /\ IsRemote(remote[x])
    BY Zenon DEF PayInv, RemoteInv
  <2>2. /\ DOMAIN remote' = Orders
        /\ remote'[x] = [remote[x] EXCEPT !.status = "CANCELED", !.balance = 0]
        /\ \A y \in Orders : y # x => remote'[y] = remote[y]
    BY <1>2, <2>1 DEF Cancelled
  <2>3. IsRemote(remote'[x])
    BY <2>1, <2>2, Zenon DEF IsRemote
  <2> QED
    BY <2>2, <2>3, OtherTouched, Zenon
<1> QED
  BY <1>1, <1>2

LEMMA AtToss ==
  ASSUME PayInv, NEW t \in Threads \ {Command}, at[t].stage \in TossStages
  PROVE  at[t].order \in Orders /\ sale.by[at[t].order] = "toss"
BY Zenon DEF PayInv, StagesInv, StageSound

LEMMA ConfirmCallKeeps ==
  ASSUME PayInv, NEW h \in Handlers, ConfirmCall(h)
  PROVE  PayInv'
<1>1. PICK x : x = at[h].order
  BY Zenon
<1>2. PICK r \in Confirmed(x) :
        /\ at[h].stage = "confirm" /\ remote' = [remote EXCEPT ![x] = r]
        /\ Goes(h, Applies_(x, r, "idle")) \/ Goes(h, Resting)
        /\ UNCHANGED <<orders, known, alive, owed, sale>>
  BY <1>1, Zenon DEF ConfirmCall, bookVars
<1>3. h \in Threads \ {Command}
  BY ServiceThreads, Zenon
<1>4. x \in Orders /\ sale.by[x] = "toss"
  BY <1>1, <1>2, <1>3, AtToss, Zenon DEF TossStages
<1>5. IsRemote(remote[x])
  BY <1>4, Zenon DEF PayInv, RemoteInv
<1>6. IsRemote(r)
  <2>1. \/ r = remote[x] \/ r = [remote[x] EXCEPT !.status = "ABORTED"]
        \/ \E status : r = Captured(remote[x], status)
    BY Zenon DEF Confirmed
  <2> QED
    BY <1>5, <2>1, Zenon DEF IsRemote, Captured
<1>7. Steady /\ \A y \in Orders : sale.by[y] = "coin" => remote'[y] = remote[y]
  BY <1>2, <1>4, <1>6, TossTouched, ZenonT(60)
<1>8. TossWhere(Applies_(x, r, "idle"))
  BY <1>4, AppliedIsToss, Zenon DEF Applies_, Applied
<1> QED
  BY <1>2, <1>3, <1>7, <1>8, RestingIs, FreeMoves, ZenonT(60)

LEMMA TossApplyKeeps ==
  ASSUME PayInv, NEW t \in Threads, TossApply(t)
  PROVE  PayInv'
<1>1. PICK x, answer : x = at[t].order /\ answer = at[t].answer
  BY Zenon
<1>2. /\ Free(Server) /\ t # Command /\ at[t].stage = "apply"
      /\ UNCHANGED <<orders, known, alive, remote, sale>>
      /\ \/ Goes(t, [at[t] EXCEPT !.stage = "refuse"]) /\ UNCHANGED owed
         \/ /\ Goes(t, After(at[t].next, x))
            /\ Locked_(Server, x, TossLines(Seen(x), answer))
  BY <1>1, Zenon DEF TossApply, bookVars
<1>3. x \in Orders /\ sale.by[x] = "toss"
  BY <1>1, <1>2, AtToss, ZenonT(60) DEF TossStages
<1>4. /\ at[t].next \in {"idle", "expiry"}
      /\ at[t] = Applied("apply", x, at[t].answer, at[t].next)
  BY <1>1, <1>2, ZenonT(60) DEF PayInv, StagesInv, StageSound
<1>5. Steady
  BY <1>2, Untouched, Zenon
<1>6. ASSUME Goes(t, [at[t] EXCEPT !.stage = "refuse"]), UNCHANGED owed
      PROVE  PayInv'
  <2>1. [at[t] EXCEPT !.stage = "refuse"] = Applied("refuse", x, at[t].answer, at[t].next)
    BY <1>4 DEF Applied
  <2>2. TossWhere(Applied("refuse", x, at[t].answer, at[t].next))
    BY <1>3, <1>4, AppliedIsToss, Zenon
  <2>3. PICK where : /\ where = [at[t] EXCEPT !.stage = "refuse"] /\ TossWhere(where)
    BY <2>1, <2>2, Zenon
  <2> QED
    BY <1>2, <1>5, <1>6, <2>3, FreeMoves, ZenonT(60)
<1>7. ASSUME Goes(t, After(at[t].next, x)), Locked_(Server, x, TossLines(Seen(x), answer))
      PROVE  PayInv'
  <2>1. ~Seen(x).issued => ~orders[x].issued
    BY <1>2, <1>3, SeenIssued, TossIssues, ZenonT(60)
  <2>2. PICK o : o = Seen(x)
    BY Zenon
  <2>3. Decided(Server, x, TossLines(o, answer))
    BY <1>3, <2>1, <2>2, TossDecided, ZenonT(60)
  <2>4. Decided(Server, x, TossLines(Seen(x), answer))
    BY <2>2, <2>3, Zenon
  <2>5. TossWhere(After(at[t].next, x))
    BY <1>3, <1>4, AfterIsToss, Zenon
  <2> QED
    BY <1>2, <1>3, <1>5, <1>7, <2>4, <2>5, LockMoves, ZenonT(60)
<1> QED
  BY <1>2, <1>6, <1>7, Zenon

LEMMA TossRefuseKeeps ==
  ASSUME PayInv, NEW t \in Threads, TossRefuse(t)
  PROVE  PayInv'
<1>1. PICK x : x = at[t].order
  BY Zenon
<1>2. /\ Free(Server) /\ t # Command /\ at[t].stage = "refuse"
      /\ UNCHANGED <<orders, known, alive, sale>>
      /\ UNCHANGED remote \/ remote' = Cancelled(x)
      /\ Goes(t, After(at[t].next, x))
  BY <1>1, Zenon DEF TossRefuse, bookVars
<1>3. PICK state \in {"cancelled", "mismatch"} :
        Locked_(Server, x, <<StateLine(state, "amount", 0)>>)
  BY <1>1, Zenon DEF TossRefuse
<1>4. x \in Orders /\ sale.by[x] = "toss"
  BY <1>1, <1>2, AtToss, ZenonT(60) DEF TossStages
<1>5. at[t].next \in {"idle", "expiry"}
  BY <1>2, ZenonT(60) DEF PayInv, StagesInv, StageSound
<1>6. Steady /\ \A y \in Orders : sale.by[y] = "coin" => remote'[y] = remote[y]
  BY <1>2, <1>4, CancelledTouched, Zenon
<1>7. Decided(Server, x, <<StateLine(state, "amount", 0)>>)
  BY <1>4, StateDecided, Zenon
<1>8. TossWhere(After(at[t].next, x))
  BY <1>4, <1>5, AfterIsToss, Zenon
<1> QED
  BY <1>2, <1>3, <1>4, <1>6, <1>7, <1>8, LockMoves, ZenonT(60)

LEMMA TossFailKeeps ==
  ASSUME PayInv, NEW x \in Orders, TossFail(x)
  PROVE  PayInv'
<1>1. /\ Free(Server) /\ Locked_(Server, x, <<StateLine("cancelled", "other", 0)>>)
      /\ UNCHANGED <<orders, known, alive, at, remote, sale>>
  BY Zenon DEF TossFail, bookVars
<1>2. Steady
  BY <1>1, Untouched, Zenon
<1>3. Decided(Server, x, <<StateLine("cancelled", "other", 0)>>)
  BY StateDecided, Zenon
<1> QED
  BY <1>1, <1>2, <1>3, LockStill, ZenonT(60)

LEMMA SpendKeeps ==
  ASSUME PayInv, NEW x \in Orders, Spend(x)
  PROVE  PayInv'
<1> DEFINE line == [type |-> "booking", hc |-> 1]
<1>1. /\ Free(Server) /\ Locked_(Server, x, <<line>>)
      /\ UNCHANGED <<orders, known, alive, at, remote, sale>>
  BY Zenon DEF Spend, bookVars
<1>2. line.type = "booking"
  BY Zenon
<1> HIDE DEF line
<1>3. Steady
  BY <1>1, Untouched, Zenon
<1>4. LineSound(Server, x, line) /\ ~IsIssue(line)
  BY <1>2, Zenon DEF LineSound, IsIssue, LineTypes
<1>5. Decided(Server, x, <<line>>)
  BY <1>4, DecidedOne, Zenon
<1> QED
  BY <1>1, <1>3, <1>5, LockStill, ZenonT(60)

-----------------------------------------------------------------------------
(* The work thread.                                                        *)

LEMMA AskKeeps ==
  ASSUME PayInv, NEW x \in Orders, Ask(x)
  PROVE  PayInv'
<1> DEFINE asked == [stage |-> "settle", order |-> x, answer |-> remote[x]]
<1>1. /\ Free(Server) /\ UNCHANGED <<orders, known, alive, owed, remote, sale>>
      /\ \/ sale.by[x] = "toss" /\ Goes(Work, Applies_(x, remote[x], "expiry"))
         \/ sale.by[x] = "toss" /\ Goes(Work, Stage("expiry", x))
         \/ sale.by[x] = "coin" /\ Seen(x).invoice /\ Goes(Work, asked)
         \/ Goes(Work, Resting)
  BY Zenon DEF Ask, bookVars
<1>2. Steady
  BY <1>1, Untouched, Zenon
<1>3. Work \in Threads \ {Command}
  BY ServiceThreads, Zenon
<1>4. CASE sale.by[x] = "toss" /\ Goes(Work, Applies_(x, remote[x], "expiry"))
  <2>1. TossWhere(Applies_(x, remote[x], "expiry"))
    BY <1>4, AppliedIsToss, Zenon DEF Applies_, Applied
  <2> QED
    BY <1>1, <1>2, <1>3, <1>4, <2>1, FreeMoves, ZenonT(60)
<1>5. CASE sale.by[x] = "toss" /\ Goes(Work, Stage("expiry", x))
  <2>1. TossWhere(Stage("expiry", x))
    BY <1>5, StageIsToss, Zenon DEF TossStages
  <2> QED
    BY <1>1, <1>2, <1>3, <1>5, <2>1, FreeMoves, ZenonT(60)
<1>6. CASE Goes(Work, Resting)
  BY <1>1, <1>2, <1>3, <1>6, RestingIs, FreeMoves, ZenonT(60)
<1>7. CASE sale.by[x] = "coin" /\ Seen(x).invoice /\ Goes(Work, asked)
  <2>1. remote[x].status \in CoinStatuses \ {"none"}
    <3>1. BookSound(known[Server])
      BY ServiceThreads, Zenon DEF PayInv, BooksInv
    <3>2. remote[x].status # "none"
      BY <1>7, <3>1, Zenon DEF BookSound, Seen
    <3> QED
      BY <1>7, <3>2, Zenon DEF PayInv, RemoteInv
  <2>2. asked.stage = "settle" /\ asked.order = x /\ asked.answer = remote[x]
    BY Zenon
  <2> HIDE DEF asked
  <2>3. at' = [at EXCEPT ![Work] = asked] /\ at'[Work] = asked
    BY <1>3, <1>7, Zenon DEF Goes, PayInv, StagesInv
  <2>4. at'[Work].stage = "settle" /\ at'[Work].order = x /\ at'[Work].answer = remote'[x]
    BY <1>1, <2>2, <2>3, Zenon
  <2>5. StageSound(Work)'
    BY <1>1, <1>7, <2>1, <2>4, ZenonT(60) DEF StageSound, TossStages
  <2>6. BooksInv' /\ LinesSound' /\ IssueWhole'
    BY <1>1, <1>2, OwedSteady, Zenon
  <2>7. \A u \in Threads \ {Work, Command} : at[u].stage = "invoice" =>
          remote'[at[u].order].status = "none"
    BY <1>1, InvoicesWait, Zenon
  <2> QED
    BY <1>1, <1>2, <1>3, <2>2, <2>3, <2>5, <2>6, <2>7, MoveKeeps, ZenonT(60)
<1> QED
  BY <1>1, <1>4, <1>5, <1>6, <1>7, ZenonT(60)

LEMMA SettleKeeps ==
  ASSUME PayInv, Settle
  PROVE  PayInv'
<1>1. PICK x, r, o : x = at[Work].order /\ r = at[Work].answer /\ o = Seen(x)
  BY Zenon
<1>2. /\ Free(Server) /\ at[Work].stage = "settle" /\ Goes(Work, Resting)
      /\ Locked_(Server, x, SettleLines(o, r, FALSE))
      /\ UNCHANGED <<orders, known, alive, remote, sale>>
  BY <1>1, Zenon DEF Settle, bookVars
<1>3. Work \in Threads \ {Command}
  BY ServiceThreads, Zenon
<1>4. /\ x \in Orders /\ sale.by[x] = "coin" /\ r.status \in CoinStatuses \ {"none"}
      /\ r.status = "completed" =>
           remote[x].status = "completed" /\ remote[x].matches = r.matches
  BY <1>1, <1>2, <1>3, ZenonT(60) DEF PayInv, StagesInv, StageSound
<1>5. ~o.issued => ~orders[x].issued \/ ~Issues(Server, x)
  BY <1>1, <1>2, <1>4, SeenIssued, ZenonT(60)
<1>6. Decided(Server, x, SettleLines(o, r, FALSE))
  BY <1>4, <1>5, SettleDecided, Zenon
<1>7. Steady
  BY <1>2, Untouched, Zenon
<1> QED
  BY <1>2, <1>3, <1>4, <1>6, <1>7, RestingIs, LockMoves, ZenonT(60)

LEMMA ExpiryKeeps ==
  ASSUME PayInv, Expiry
  PROVE  PayInv'
<1>1. PICK x : x = at[Work].order
  BY Zenon
<1>2. /\ at[Work].stage = "expiry" /\ UNCHANGED <<orders, known, alive, owed, remote, sale>>
      /\ \/ Goes(Work, Resting) \/ Goes(Work, Stage("cancel", x))
         \/ Goes(Work, Stage("close", x))
  BY <1>1, Zenon DEF Expiry, bookVars
<1>3. Work \in Threads \ {Command}
  BY ServiceThreads, Zenon
<1>4. x \in Orders /\ sale.by[x] = "toss"
  BY <1>1, <1>2, <1>3, AtToss, Zenon DEF TossStages
<1>5. TossWhere(Stage("cancel", x)) /\ TossWhere(Stage("close", x))
  BY <1>4, StageIsToss, Zenon DEF TossStages
<1>6. Steady
  BY <1>2, Untouched, Zenon
<1> QED
  BY <1>2, <1>3, <1>5, <1>6, RestingIs, FreeMoves, Zenon

LEMMA CancelCallKeeps ==
  ASSUME PayInv, CancelCall
  PROVE  PayInv'
<1>1. PICK x : x = at[Work].order
  BY Zenon
<1>2. /\ at[Work].stage = "cancel" /\ UNCHANGED <<orders, known, alive, owed, sale>>
      /\ UNCHANGED remote \/ remote' = Cancelled(x)
      /\ \/ Goes(Work, Resting) \/ Goes(Work, Stage("close", x))
         \/ Goes(Work, Applies_(x, remote[x], "idle"))
  BY <1>1, Zenon DEF CancelCall, bookVars
<1>3. Work \in Threads \ {Command}
  BY ServiceThreads, Zenon
<1>4. x \in Orders /\ sale.by[x] = "toss"
  BY <1>1, <1>2, <1>3, AtToss, Zenon DEF TossStages
<1>5. TossWhere(Stage("close", x))
  BY <1>4, StageIsToss, Zenon DEF TossStages
<1>6. TossWhere(Applies_(x, remote[x], "idle"))
  BY <1>4, AppliedIsToss, Zenon DEF Applies_, Applied
<1>7. Steady /\ \A y \in Orders : sale.by[y] = "coin" => remote'[y] = remote[y]
  BY <1>2, <1>4, CancelledTouched, Zenon
<1> QED
  BY <1>2, <1>3, <1>5, <1>6, <1>7, RestingIs, FreeMoves, ZenonT(60)

LEMMA CloseKeeps ==
  ASSUME PayInv, Close
  PROVE  PayInv'
<1>1. PICK x, lines : /\ x = at[Work].order /\ Locked_(Server, x, lines)
                      /\ lines \in {<<>>, <<StateLine("timedout", "expired", 0)>>}
  BY Zenon DEF Close
<1>2. /\ Free(Server) /\ at[Work].stage = "close" /\ Goes(Work, Resting)
      /\ UNCHANGED <<orders, known, alive, remote, sale>>
  BY Zenon DEF Close, bookVars
<1>3. Work \in Threads \ {Command}
  BY ServiceThreads, Zenon
<1>4. x \in Orders
  BY <1>1, <1>2, <1>3, AtToss, Zenon DEF TossStages
<1>5. Decided(Server, x, <<StateLine("timedout", "expired", 0)>>)
  BY <1>4, StateDecided, Zenon
<1>6. Decided(Server, x, lines)
  BY <1>1, <1>5, DecidedNone, Zenon
<1>7. Steady
  BY <1>2, Untouched, Zenon
<1> QED
  BY <1>1, <1>2, <1>3, <1>4, <1>6, <1>7, RestingIs, LockMoves, ZenonT(60)

-----------------------------------------------------------------------------
(* The operator's commands.                                                *)

LEMMA DecidedJoin ==
  ASSUME NEW p, NEW x, NEW line, LineSound(p, x, line), ~IsIssue(line),
         NEW lines, Decided(p, x, lines)
  PROVE  Decided(p, x, <<line>> \o lines)
<1> DEFINE a == <<line>>
           c == a \o lines
<1>1. IsSequence(a) /\ \A n \in DOMAIN a : a[n] = line
  BY OneLine, Zenon
<1>2. IssueShape(lines) /\ IsSequence(lines)
  BY Zenon DEF Decided, IssueShape
<1> HIDE DEF a
<1>3. IsJoin(a, lines, c)
  BY <1>1, <1>2, Joined, Zenon
<1> HIDE DEF c
<1>4. line.type \in LineTypes
  BY Zenon DEF LineSound
<1>5. IssueShape(c)
  BY <1>1, <1>2, <1>3, <1>4, JoinedShape, Zenon
<1>6. ASSUME NEW n \in DOMAIN c
      PROVE  LineSound(p, x, c[n]) /\ (IsIssue(c[n]) => ~orders[x].issued)
  <2>1. c[n] = line \/ \E m \in DOMAIN lines : c[n] = lines[m]
    BY <1>1, <1>3, Zenon DEF IsJoin
  <2> QED
    BY <2>1, Zenon DEF Decided
<1>7. Decided(p, x, c)
  BY <1>5, <1>6, Zenon DEF Decided
<1> QED
  BY <1>7 DEF a, c

\* A command that runs is about an order of the ledger.
LEMMA CommandWrites ==
  ASSUME PayInv, Steady, Free(Command), NEW x, x = at[Command].order, NEW lines,
         Writes(lines), Decided(Command, x, lines),
         \A y \in Orders : sale.by[y] = "coin" => remote'[y] = remote[y]
  PROVE  PayInv'
<1>1. /\ Locked_(Command, x, lines) /\ UNCHANGED <<orders, known, alive>>
      /\ at' = [at EXCEPT ![Command] = Stage("exit", x)]
  BY Zenon DEF Writes, Goes, bookVars
<1>2. /\ x \in Orders /\ orders[x].state # "none" /\ Command \in alive
  BY Zenon DEF PayInv, StagesInv, CommandSound, Free
<1>3. /\ BooksInv' /\ LinesSound' /\ IssueWhole' /\ owed[Command] = <<>>
      /\ \A q \in Writers : q # Command => owed'[q] = owed[q]
  BY <1>1, <1>2, Locks, ServiceThreads, Zenon
<1>4. owed'[Server] = owed[Server]
  BY <1>3, ServiceThreads, Zenon
<1>5. /\ DOMAIN at' = Threads /\ at'[Command] = Stage("exit", x)
      /\ \A u \in Threads \ {Command} : at'[u] = at[u]
  <2>1. DOMAIN at = Threads /\ Command \in Threads
    BY Zenon DEF PayInv, StagesInv, Threads
  <2> QED
    BY <1>1, <2>1, Zenon
<1>6. at'[Command].stage = "exit" /\ at'[Command].order = x
  BY <1>5, StageIs
<1>7. \A n \in DOMAIN owed'[Command] : owed'[Command][n].order = x
  <2>1. IsSequence(lines)
    BY Zenon DEF Decided, IssueShape
  <2>2. owed'[Command] = OwedFor(x, lines)
    <3>1. DOMAIN owed = Writers /\ Command \in Writers
      BY ServiceThreads, Zenon DEF PayInv, LinesSound
    <3> QED
      BY <1>1, <3>1, Zenon DEF Locked_, OwedFor
  <2>3. PICK o : o = OwedFor(x, lines)
    BY Zenon
  <2>4. DOMAIN o = DOMAIN lines /\ \A n \in DOMAIN lines : o[n].order = x
    BY <2>1, <2>3, OwedForIs
  <2> QED
    BY <2>2, <2>3, <2>4, Zenon
<1>8. CommandSound'
  BY <1>1, <1>2, <1>6, <1>7, Zenon DEF CommandSound
<1>9. StagesInv'
  BY <1>1, <1>4, <1>5, <1>8, CommandOnly, ZenonT(60)
<1> QED
  BY <1>3, <1>9, Zenon DEF PayInv, Steady

\* A command's Book says so when an order that it may issue was issued.
LEMMA ItsIssued ==
  ASSUME PayInv, Free(Command), NEW x \in Orders, x = at[Command].order, Issues(Command, x)
  PROVE  Its.issued = orders[x].issued
BY Zenon DEF PayInv, BooksInv, Agreed, Free, Its

LEMMA ReleaseKeeps ==
  ASSUME PayInv, Release
  PROVE  PayInv'
<1>1. PICK x, r, o : x = at[Command].order /\ r = remote[x] /\ o = Its
  BY Zenon
<1>2. /\ Free(Command) /\ at[Command].stage = "release" /\ o.invoice
      /\ r.status = "completed" /\ Writes(SettleLines(o, r, TRUE)) /\ UNCHANGED remote
  BY <1>1, Zenon DEF Release, Runs
<1>3. sale' = sale
  BY <1>2, Zenon DEF Writes, bookVars
<1>4. x \in Orders /\ (sale.by[x] = "coin" => Mismatched(x))
  BY <1>1, <1>2, ZenonT(60) DEF PayInv, StagesInv, CommandSound, Free
<1>5. sale.by[x] = "coin"
  <2>1. BookSound(known[Command])
    BY ServiceThreads, Zenon DEF PayInv, BooksInv
  <2> QED
    BY <1>1, <1>2, <1>4, <2>1, Zenon DEF BookSound, Its
<1>6. ~r.matches
  BY <1>1, <1>4, <1>5, Zenon DEF Mismatched
<1>7. ~o.issued => ~orders[x].issued \/ ~Issues(Command, x)
  BY <1>1, <1>2, <1>4, ItsIssued, Zenon
<1>8. r.status \in CoinStatuses \ {"none"}
  BY <1>2, Zenon DEF CoinStatuses
<1>9. Decided(Command, x, SettleLines(o, r, TRUE))
  BY <1>1, <1>2, <1>4, <1>5, <1>6, <1>7, <1>8, SettleDecided, ZenonT(60)
<1>10. Steady
  BY <1>2, <1>3, Untouched, Zenon
<1> QED
  BY <1>1, <1>2, <1>9, <1>10, CommandWrites, Zenon

LEMMA SwiftConfirmKeeps ==
  ASSUME PayInv, SwiftConfirm
  PROVE  PayInv'
<1>1. PICK x, amount, o : x = at[Command].order /\ amount = remote[x].received /\ o = Its
  BY Zenon
<1> DEFINE paid == StateLine("paid", "", amount)
           issue == IssueLines(o, amount, Total)
<1>2. /\ Free(Command) /\ sale.by[x] = "swift" /\ ~o.issued
      /\ Writes(<<paid>> \o issue) /\ UNCHANGED remote
  BY <1>1, Zenon DEF SwiftConfirm, Runs
<1>3. sale' = sale
  BY <1>2, Zenon DEF Writes, bookVars
<1>4. x \in Orders
  BY <1>1, <1>2, ZenonT(60) DEF PayInv, StagesInv, CommandSound, Free
<1>5. Issues(Command, x)
  BY <1>2, Zenon DEF Issues
<1>6. ~orders[x].issued
  BY <1>1, <1>2, <1>4, <1>5, ItsIssued, Zenon
<1>7. Decided(Command, x, issue)
  BY <1>4, <1>5, <1>6, IssueDecided, Zenon
<1>8. LineSound(Command, x, paid)
  BY <1>4, StateDecided, Zenon
<1>9. ~IsIssue(paid)
  BY Zenon DEF IsIssue, StateLine
<1> HIDE DEF paid, issue
<1>10. Decided(Command, x, <<paid>> \o issue)
  BY <1>7, <1>8, <1>9, DecidedJoin, Zenon
<1>11. Steady
  BY <1>2, <1>3, Untouched, Zenon
<1> QED
  BY <1>1, <1>2, <1>10, <1>11, CommandWrites, Zenon

LEMMA SwiftCancelKeeps ==
  ASSUME PayInv, SwiftCancel
  PROVE  PayInv'
<1>1. PICK x : x = at[Command].order
  BY Zenon
<1>2. /\ Free(Command) /\ Writes(<<StateLine("cancelled", "other", 0)>>) /\ UNCHANGED remote
  BY <1>1, Zenon DEF SwiftCancel, Runs
<1>3. sale' = sale
  BY <1>2, Zenon DEF Writes, bookVars
<1>4. x \in Orders
  BY <1>1, <1>2, ZenonT(60) DEF PayInv, StagesInv, CommandSound, Free
<1>5. Decided(Command, x, <<StateLine("cancelled", "other", 0)>>)
  BY <1>4, StateDecided, Zenon
<1>6. Steady
  BY <1>2, <1>3, Untouched, Zenon
<1> QED
  BY <1>1, <1>2, <1>5, <1>6, CommandWrites, Zenon

LEMMA RefundKeeps ==
  ASSUME PayInv, NEW amount, NEW clause, Refund(amount, clause)
  PROVE  PayInv'
<1>1. PICK x, rest, debit : /\ x = at[Command].order
                            /\ rest = Refundable(sale.by[x] = "swift", remote[x]) - amount
                            /\ debit = Debit(sale.by[x] = "swift", clause, amount)
  BY Zenon
<1> DEFINE paid == [type |-> "refund", amount |-> amount, clause |-> clause, balance |-> rest]
           debited == [type |-> "hc_debit", hc |-> debit]
           more == IF debit = 0 THEN <<>> ELSE <<debited>>
           status == IF rest = 0 THEN "CANCELED" ELSE "PARTIAL_CANCELED"
           after == [remote EXCEPT ![x].balance = rest, ![x].status = status]
<1>2. /\ Free(Command) /\ sale.by[x] # "coin"
      /\ \/ Writes(<<paid>> \o more) /\ UNCHANGED remote
         \/ remote' = after /\ (Writes(<<paid>> \o more) \/ Writes(<<>>))
  BY <1>1, Zenon DEF Refund, Runs
<1>3. sale' = sale
  BY <1>2, Zenon DEF Writes, bookVars
<1>4. x \in Orders
  BY <1>1, <1>2, ZenonT(60) DEF PayInv, StagesInv, CommandSound, Free
<1>5. LineSound(Command, x, paid) /\ ~IsIssue(paid)
  BY <1>4, Zenon DEF LineSound, IsIssue, LineTypes
<1>6. LineSound(Command, x, debited) /\ ~IsIssue(debited)
  BY <1>4, Zenon DEF LineSound, IsIssue, LineTypes
<1> HIDE DEF paid, debited
<1>7. Decided(Command, x, more)
  BY <1>6, DecidedNone, DecidedOne, Zenon
<1> HIDE DEF more
<1>8. Decided(Command, x, <<paid>> \o more) /\ Decided(Command, x, <<>>)
  BY <1>5, <1>7, DecidedJoin, DecidedNone, Zenon
<1>9. PICK lines : /\ Writes(lines) /\ Decided(Command, x, lines)
                   /\ UNCHANGED remote \/ remote' = after
  BY <1>2, <1>8, Zenon
<1>10. Steady /\ \A y \in Orders : sale.by[y] = "coin" => remote'[y] = remote[y]
  <2>1. CASE UNCHANGED remote
    BY <1>3, <2>1, Untouched, Zenon
  <2>2. CASE remote' = after
    <3>1. DOMAIN remote = Orders /\ IsRemote(remote[x])
      BY <1>4, Zenon DEF PayInv, RemoteInv
    <3>2. /\ DOMAIN remote' = Orders /\ \A y \in Orders : y # x => remote'[y] = remote[y]
          /\ remote'[x] = [remote[x] EXCEPT !.balance = rest, !.status = status]
      <4> HIDE DEF status
      <4> QED
        BY <1>4, <2>2, <3>1, Zenon
    <3>3. IsRemote(remote'[x])
      <4> HIDE DEF status
      <4> QED
        BY <3>1, <3>2, Zenon DEF IsRemote
    <3> QED
      BY <1>2, <1>3, <1>4, <3>2, <3>3, OtherTouched, ZenonT(60)
  <2> QED
    BY <1>9, <2>1, <2>2, Zenon
<1> QED
  BY <1>1, <1>2, <1>9, <1>10, CommandWrites, Zenon

-----------------------------------------------------------------------------
(* The invariant.                                                          *)

LEMMA JobsKeep ==
  ASSUME PayInv, UNCHANGED <<orders, known, owed, alive, at, remote, sale>>
  PROVE  PayInv'
<1>1. Steady
  BY Untouched, Zenon
<1>2. BooksInv' /\ LinesSound' /\ IssueWhole'
  BY <1>1, OwedSteady, Zenon
<1> QED
  BY <1>1, <1>2, StillKeeps, Zenon

LEMMA PayInitially ==
  ASSUME PayInit
  PROVE  PayInv
<1>1. /\ DOMAIN remote = Orders /\ DOMAIN orders = Orders /\ DOMAIN known = Writers
      /\ DOMAIN owed = Writers /\ DOMAIN at = Threads /\ alive = {Server}
      /\ \A x \in Orders : orders[x] = NoOrder
      /\ \A p \in Writers : known[p] = orders /\ owed[p] = <<>>
      /\ \A t \in Threads : at[t].stage = "idle"
  BY Zenon DEF PayInit, Resting
<1>2. \A x \in Orders : IsRemote(remote[x]) /\ remote[x].status = "none"
  BY Zenon DEF PayInit, IsRemote
<1>3. /\ IsOrder(NoOrder) /\ ~NoOrder.issued /\ NoOrder.issued \in BOOLEAN
      /\ ~NoOrder.invoice /\ NoOrder.state = "none" /\ NoOrder.lots = <<>>
  BY Zenon DEF NoOrder, IsOrder
<1>4. Len(<<>>) <= 1
  BY EmptySequence
<1>5. RemoteInv
  BY <1>1, <1>2, Zenon DEF RemoteInv, CoinStatuses
<1>6. BooksInv
  <2>1. BookSound(orders)
    BY <1>1, <1>3, Zenon DEF BookSound
  <2>2. LedgerSound
    BY <1>1, <1>2, <1>3, <1>4, Zenon DEF LedgerSound
  <2>3. Agreed
    BY <1>1, <1>3, ServiceThreads, Zenon DEF Agreed
  <2> QED
    BY <1>1, <2>1, <2>2, <2>3, ServiceThreads, Zenon DEF BooksInv
<1>7. LinesSound /\ IssueWhole
  BY <1>1, EmptySequence, Zenon DEF LinesSound, IssueWhole
<1>8. CommandSound
  BY <1>1, ServiceThreads, Zenon DEF CommandSound
<1>9. StagesInv
  BY <1>1, <1>8, Zenon DEF StagesInv, StageSound, TossStages
<1> QED
  BY <1>5, <1>6, <1>7, <1>9, Zenon DEF PayInv

LEMMA PayStep ==
  ASSUME PayInv, [PayNext]_payVars
  PROVE  PayInv'
<1>1. ASSUME NEW h \in Handlers, HandlerStep(h)
      PROVE  PayInv'
  <2>1. ASSUME NEW x \in Orders, TossOrder(h, x) \/ SwiftOrder(h, x)
        PROVE  PayInv'
    BY <2>1, PlacedKeeps, Zenon DEF TossOrder, SwiftOrder
  <2> QED
    BY <1>1, <2>1, PlaceOrderKeeps, TossSuccessKeeps, CreateInvoiceKeeps, ConfirmCallKeeps, Zenon
       DEF HandlerStep
<1>2. ASSUME NEW t \in Threads, ApplyStep(t)
      PROVE  PayInv'
  BY <1>2, TossApplyKeeps, TossRefuseKeeps, Zenon DEF ApplyStep
<1>3. ASSUME WorkStep
      PROVE  PayInv'
  BY <1>3, SettleKeeps, ExpiryKeeps, CancelCallKeeps, CloseKeeps, Zenon DEF WorkStep
<1>4. ASSUME Jobs \/ Reconcile
      PROVE  PayInv'
  <2>1. ASSUME NEW x \in Orders, Webhook(x) \/ TossWebhook(x) \/ AskFails(x)
        PROVE  PayInv'
    <3>1. UNCHANGED <<orders, known, owed, alive, at, remote, sale>>
      BY <2>1, Zenon DEF Webhook, TossWebhook, AskFails, Queued, bookVars
    <3> QED
      BY <3>1, JobsKeep, Zenon
  <2>2. ASSUME Reconcile
        PROVE  PayInv'
    <3>1. UNCHANGED <<orders, known, owed, alive, at, remote, sale>>
      BY <2>2, Zenon DEF Reconcile, bookVars
    <3> QED
      BY <3>1, JobsKeep, Zenon
  <2> QED
    BY <1>4, <2>1, <2>2, AskKeeps, Zenon DEF Jobs
<1>5. ASSUME CommandStep
      PROVE  PayInv'
  BY <1>5, StartCommandKeeps, ReleaseKeeps, SwiftConfirmKeeps, SwiftCancelKeeps, RefundKeeps,
     ExitCommandKeeps, ZenonT(60) DEF CommandStep
<1>6. ASSUME UNCHANGED payVars
      PROVE  PayInv'
  <2>1. UNCHANGED <<orders, known, owed, alive, at, remote, sale>>
    BY <1>6, Zenon DEF payVars
  <2> QED
    BY <2>1, JobsKeep, Zenon
<1> QED
  BY <1>1, <1>2, <1>3, <1>4, <1>5, <1>6, AppendKeeps, TossFailKeeps, SpendKeeps, WorldKeeps, ZenonT(60)
     DEF PayNext

\* Between any two lines of the ledger, whoever writes them, the Books, the
\* lines still owed and the threads' stages fit together as PayInv says.
THEOREM PayInvariant == PaySpec => []PayInv
<1>1. PayInit => PayInv
  BY PayInitially
<1>2. PayInv /\ [PayNext]_payVars => PayInv'
  BY PayStep
<1> QED
  BY <1>1, <1>2, PTL DEF PaySpec

\* No interleaving of settle, toss_apply, release and swift-confirm, no answer
\* that comes late or twice, and no stop between the lines of issue gives an
\* order a second lot of HC.
THEOREM OrdersIssuedOnce == PaySpec => []IssuedOnce
<1>1. PayInv => IssuedOnce
  BY Zenon DEF PayInv, BooksInv, LedgerSound, IssuedOnce
<1> QED
  BY <1>1, PayInvariant, PTL

=============================================================================
