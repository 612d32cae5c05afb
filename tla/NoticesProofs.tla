--------------------------- MODULE NoticesProofs ---------------------------
(***************************************************************************)
(* What is proved of the account service's notices, for any number of      *)
(* events, webhooks, workers and stops: an event of the hub becomes one    *)
(* notice, and a delivery that the notifier has taken on has an outcome or *)
(* is being worked on.                                                     *)
(***************************************************************************)
EXTENDS Notices, TLAPS

-----------------------------------------------------------------------------
(* Notices.                                                                *)

Subjects == Events \cup Announced
Pairs == Subjects \X Hooks
Deliveries == [pair : Pairs, attempt : Nat]

NoticeTypeOK ==
  /\ journal \in Seq([about : Subjects, targets : SUBSET Hooks])
  /\ outcomes \subseteq [pair : Pairs, outcome : {"deleted", "delivered", "failed"}]
  /\ hooks \subseteq Hooks
  /\ heap \in Seq(Deliveries)
  /\ knownPairs \subseteq Pairs
  /\ busy \in [Workers -> {Nothing} \cup [stage : {"posting"}, item : Deliveries]]
  /\ report \in [Reports -> {Nothing} \cup
                   [stage : {"schedule"}, about : Events, targets : SUBSET Hooks]]
  /\ acked \subseteq Events
  /\ sweeping \in [left : SUBSET Pairs, due : SUBSET Pairs]
  /\ up \in BOOLEAN
  /\ stopped \in Nat

\* The notice a thread is scheduling is in the journal: it may be answered.
ReportsWritten == \A t \in Reports : report[t] # Nothing => Sent(report[t].about)

\* KnownIsBacked holds of a stopped service too, whose memory is empty.
Backed == knownPairs \subseteq WithOutcome \cup InWork

NoticeInv == NoticeTypeOK /\ OneNoticePerEvent /\ ReportsWritten /\ Backed

\* A notice is written as an element of the journal.
LEMMA SentAt ==
  ASSUME NEW x
  PROVE  Sent(x) <=> \E i \in DOMAIN journal : journal[i].about = x
BY DEF Sent, Written

\* Writing a notice keeps the notices before it.
LEMMA WrittenAgain ==
  ASSUME NoticeTypeOK, NEW x \in Subjects, ~Sent(x), OneNoticePerEvent,
         journal' = Append(journal, Notice(x))
  PROVE  /\ journal' \in Seq([about : Subjects, targets : SUBSET Hooks])
         /\ \A y : Sent(y) => Sent(y)'
         /\ Sent(x)'
         /\ \A i, j \in DOMAIN journal' : journal'[i].about = journal'[j].about => i = j
<1>1. Notice(x) \in [about : Subjects, targets : SUBSET Hooks] /\ Notice(x).about = x
  BY DEF Notice, NoticeTypeOK
<1>2. /\ journal' \in Seq([about : Subjects, targets : SUBSET Hooks])
      /\ Len(journal') = Len(journal) + 1
      /\ \A i \in 1 .. Len(journal) : journal'[i] = journal[i]
      /\ journal'[Len(journal) + 1] = Notice(x)
      /\ Len(journal) \in Nat
      /\ DOMAIN journal = 1 .. Len(journal)
      /\ DOMAIN journal' = 1 .. Len(journal')
  BY <1>1 DEF NoticeTypeOK
<1>3. \A y : Sent(y)' <=> \E i \in DOMAIN journal' : journal'[i].about = y
  BY DEF Sent, Written
<1>4. \A y : Sent(y) => Sent(y)'
  <2> SUFFICES ASSUME NEW y, Sent(y) PROVE Sent(y)'
    OBVIOUS
  <2>1. PICK i \in DOMAIN journal : journal[i].about = y
    BY SentAt
  <2> QED
    BY <1>2, <1>3, <2>1
<1>5. Sent(x)'
  BY <1>1, <1>2, <1>3
<1>6. \A i \in DOMAIN journal : journal[i].about # x
  BY SentAt
<1>7. \A i, j \in DOMAIN journal' : journal'[i].about = journal'[j].about => i = j
  BY <1>1, <1>2, <1>6 DEF OneNoticePerEvent
<1> QED
  BY <1>2, <1>4, <1>5, <1>7

\* What is taken out of the heap is the only delivery that leaves it.
LEMMA HeapRemoved ==
  ASSUME NEW S, NEW s \in Seq(S), NEW i \in DOMAIN s
  PROVE  /\ Removed(s, i) \in Seq(S)
         /\ \A j \in DOMAIN s : j # i =>
              \E k \in DOMAIN Removed(s, i) : Removed(s, i)[k] = s[j]
<1> DEFINE a == SubSeq(s, 1, i - 1)
           b == SubSeq(s, i + 1, Len(s))
           c == a \o b
<1>1. i \in 1 .. Len(s) /\ Len(s) \in Nat /\ DOMAIN s = 1 .. Len(s)
  OBVIOUS
<1>2. \A j \in 1 .. Len(s) : s[j] \in S
  OBVIOUS
<1>3. /\ a \in Seq(S) /\ Len(a) = i - 1
      /\ \A j \in 1 .. i - 1 : a[j] = s[j]
  <2>1. /\ a \in Seq(S) /\ Len(a) = IF 1 <= i - 1 THEN (i - 1) - 1 + 1 ELSE 0
        /\ \A j \in 1 .. (i - 1) - 1 + 1 : a[j] = s[1 + j - 1]
    BY <1>1, <1>2
  <2> HIDE DEF a
  <2> QED
    BY <1>1, <2>1
<1>4. /\ b \in Seq(S) /\ Len(b) = Len(s) - i
      /\ \A j \in 1 .. Len(s) - i : b[j] = s[i + j]
  <2>1. /\ b \in Seq(S)
        /\ Len(b) = IF i + 1 <= Len(s) THEN Len(s) - (i + 1) + 1 ELSE 0
        /\ \A j \in 1 .. Len(s) - (i + 1) + 1 : b[j] = s[(i + 1) + j - 1]
    BY SMTT(60), <1>1, <1>2
  <2> HIDE DEF b
  <2>2. Len(b) = Len(s) - i
    BY <1>1, <2>1
  <2>3. ASSUME NEW j \in 1 .. Len(s) - i PROVE b[j] = s[i + j]
    <3>1. j \in 1 .. Len(s) - (i + 1) + 1 /\ (i + 1) + j - 1 = i + j
      BY <1>1
    <3> QED
      BY <2>1, <3>1
  <2> QED
    BY <2>1, <2>2, <2>3
<1> HIDE DEF a, b
<1>5. /\ c \in Seq(S) /\ Len(c) = Len(a) + Len(b)
      /\ \A j \in 1 .. Len(a) + Len(b) :
           c[j] = IF j <= Len(a) THEN a[j] ELSE b[j - Len(a)]
  BY SMTT(60), <1>3, <1>4
<1>6. Removed(s, i) = c
  BY DEF Removed, a, b
<1> HIDE DEF c
<1>7. DOMAIN c = 1 .. Len(s) - 1
  <2>1. Len(c) = Len(s) - 1
    BY <1>1, <1>3, <1>4, <1>5
  <2> QED
    BY <1>5, <2>1
<1>8. ASSUME NEW j \in DOMAIN s, j # i
      PROVE  \E k \in DOMAIN c : c[k] = s[j]
  <2>1. CASE j < i
    <3>1. j \in 1 .. i - 1 /\ j \in 1 .. Len(a) + Len(b) /\ j <= Len(a)
      BY <1>1, <1>3, <1>4, <2>1
    <3>2. c[j] = s[j]
      BY <1>3, <1>5, <3>1
    <3> QED
      BY <1>1, <1>7, <2>1, <3>2
  <2>2. CASE j > i
    <3>1. j \in 1 .. Len(s) /\ Len(a) = i - 1 /\ Len(b) = Len(s) - i
      BY <1>1, <1>3, <1>4
    <3>2. j - 1 \in 1 .. Len(a) + Len(b) /\ ~(j - 1 <= Len(a))
      BY <1>1, <2>2, <3>1
    <3>3. j - i \in 1 .. Len(s) - i /\ (j - 1) - Len(a) = j - i /\ i + (j - i) = j
      BY SMTT(60), <1>1, <2>2, <3>1
    <3>4. c[j - 1] = s[j]
      BY SMTT(60), <1>4, <1>5, <3>2, <3>3
    <3>5. j - 1 \in DOMAIN c
      BY <1>1, <1>7, <2>2, <3>1
    <3> QED
      BY <3>4, <3>5
  <2> QED
    BY <1>1, <1>8, <2>1, <2>2
<1> QED
  BY <1>5, <1>6, <1>8

\* What Notifier.schedule adds to the heap is in it with all that was.
LEMMA HeapScheduled ==
  ASSUME NoticeTypeOK, Backed, NEW pair \in Pairs, NEW attempt \in Nat,
         Scheduled(pair, attempt)
  PROVE  /\ heap' \in Seq(Deliveries)
         /\ knownPairs' \subseteq Pairs
         /\ knownPairs' = knownPairs \cup {pair}
         /\ \A i \in DOMAIN heap : \E j \in DOMAIN heap' : heap'[j] = heap[i]
         /\ \E j \in DOMAIN heap' : heap'[j].pair = pair
<1> DEFINE item == [pair |-> pair, attempt |-> attempt]
<1>1. item \in Deliveries /\ item.pair = pair
  BY DEF Deliveries
<1>2. heap' = Append(heap, item) /\ knownPairs' = knownPairs \cup {pair}
  BY DEF Scheduled
<1> HIDE DEF item
<1>3. /\ heap' \in Seq(Deliveries) /\ Len(heap') = Len(heap) + 1
      /\ \A i \in 1 .. Len(heap) : heap'[i] = heap[i]
      /\ heap'[Len(heap) + 1] = item
      /\ Len(heap) \in Nat
      /\ DOMAIN heap = 1 .. Len(heap)
      /\ DOMAIN heap' = 1 .. Len(heap')
  BY <1>1, <1>2 DEF NoticeTypeOK
<1>4. \A i \in DOMAIN heap : i \in DOMAIN heap' /\ heap'[i] = heap[i]
  BY <1>3
<1>5. Len(heap) + 1 \in DOMAIN heap' /\ heap'[Len(heap) + 1].pair = pair
  BY <1>1, <1>3
<1>6. knownPairs' \subseteq Pairs
  BY <1>2 DEF NoticeTypeOK
<1> QED
  BY <1>2, <1>3, <1>4, <1>5, <1>6

\* Scheduling a delivery keeps what is in work and adds to it.
LEMMA ScheduledIsBacked ==
  ASSUME NoticeTypeOK, Backed, NEW pair \in Pairs, NEW attempt \in Nat,
         Scheduled(pair, attempt), UNCHANGED outcomes,
         \A w \in Workers : busy[w] # Nothing =>
           busy'[w] = busy[w] \/ busy[w].item.pair = pair
  PROVE  Backed'
<1>1. /\ knownPairs' = knownPairs \cup {pair}
      /\ \A i \in DOMAIN heap : \E j \in DOMAIN heap' : heap'[j] = heap[i]
      /\ \E j \in DOMAIN heap' : heap'[j].pair = pair
  BY HeapScheduled
<1>2. \A i \in DOMAIN heap : \E j \in DOMAIN heap' : heap'[j].pair = heap[i].pair
  BY <1>1
<1>3. {heap[i].pair : i \in DOMAIN heap} \cup {pair} \subseteq {heap'[i].pair : i \in DOMAIN heap'}
  BY <1>1, <1>2
<1>4. \A w \in Workers : busy[w] # Nothing =>
        \/ busy[w].item.pair = pair
        \/ busy'[w] # Nothing /\ busy'[w].item.pair = busy[w].item.pair
  OBVIOUS
<1>5. InWork \cup {pair} \subseteq InWork'
  BY <1>3, <1>4 DEF InWork
<1> QED
  BY <1>1, <1>5 DEF Backed, WithOutcome

LEMMA NoticeInitially == NoticeInit => NoticeInv
<1> SUFFICES ASSUME NoticeInit PROVE NoticeInv
  OBVIOUS
<1>1. NoticeTypeOK
  BY DEF NoticeInit, NoticeTypeOK, NoSweep
<1>2. OneNoticePerEvent /\ ReportsWritten /\ Backed
  BY DEF NoticeInit, OneNoticePerEvent, ReportsWritten, Backed
<1> QED
  BY <1>1, <1>2 DEF NoticeInv

\* A step that leaves the journal, the reports and the answers alone.
LEMMA JournalKept ==
  ASSUME NoticeInv, UNCHANGED <<journal, report, acked>>
  PROVE  OneNoticePerEvent' /\ ReportsWritten'
BY DEF NoticeInv, OneNoticePerEvent, ReportsWritten, Sent, Written

\* A step that loses neither an outcome nor a delivery that is in work.
LEMMA WorkKept ==
  ASSUME NoticeInv, UNCHANGED <<outcomes, heap, busy, knownPairs>>
  PROVE  Backed'
BY DEF NoticeInv, Backed, WithOutcome, InWork

LEMMA ReportKeeps ==
  ASSUME NoticeInv, NEW t \in Reports, NEW x \in Events, Report(t, x)
  PROVE  NoticeInv'
<1>1. Backed'
  BY WorkKept DEF Report
<1>2. CASE Sent(x)
  <2>1. /\ acked' = acked \cup {x}
        /\ UNCHANGED <<journal, report, outcomes, hooks, heap, knownPairs, busy,
                       sweeping, up, stopped>>
    BY <1>2 DEF Report
  <2>2. NoticeTypeOK'
    BY <2>1 DEF NoticeInv, NoticeTypeOK
  <2>3. OneNoticePerEvent' /\ ReportsWritten'
    BY <1>2, <2>1 DEF NoticeInv, OneNoticePerEvent, ReportsWritten, Sent, Written
  <2> QED
    BY <1>1, <2>2, <2>3 DEF NoticeInv
<1>3. CASE ~Sent(x)
  <2> DEFINE mine == [stage |-> "schedule", about |-> x, targets |-> hooks]
  <2>1. /\ journal' = Append(journal, Notice(x))
        /\ report' = [report EXCEPT ![t] = mine]
        /\ UNCHANGED <<acked, outcomes, hooks, heap, knownPairs, busy, sweeping, up,
                       stopped>>
    BY <1>3 DEF Report
  <2>2. /\ journal' \in Seq([about : Subjects, targets : SUBSET Hooks])
        /\ \A y : Sent(y) => Sent(y)'
        /\ Sent(x)'
        /\ \A i, j \in DOMAIN journal' : journal'[i].about = journal'[j].about => i = j
    BY Zenon, <1>3, <2>1, WrittenAgain DEF NoticeInv, Subjects
  <2>3. mine \in [stage : {"schedule"}, about : Events, targets : SUBSET Hooks]
    BY DEF NoticeInv, NoticeTypeOK
  <2>4. mine.about = x
    OBVIOUS
  <2> HIDE DEF mine
  <2>5. NoticeTypeOK'
    BY <2>1, <2>2, <2>3 DEF NoticeInv, NoticeTypeOK
  <2>6. OneNoticePerEvent'
    BY <2>1, <2>2 DEF NoticeInv, OneNoticePerEvent
  <2>7. ReportsWritten'
    <3>1. \A u \in Reports : u # t => report'[u] = report[u]
      BY <2>1 DEF NoticeInv, NoticeTypeOK
    <3>2. report'[t].about = x
      BY <2>1, <2>4 DEF NoticeInv, NoticeTypeOK
    <3>3. \A y : Sent(y) => \E n \in Written' : n.about = y
      BY <2>2 DEF Sent
    <3>4. \E n \in Written' : n.about = x
      BY <2>2 DEF Sent
    <3> QED
      BY <3>1, <3>2, <3>3, <3>4 DEF NoticeInv, ReportsWritten, Sent
  <2> QED
    BY <1>1, <2>5, <2>6, <2>7 DEF NoticeInv
<1> QED
  BY <1>2, <1>3

LEMMA NotifiedKeeps ==
  ASSUME NoticeInv, NEW t \in Reports, Notified(t)
  PROVE  NoticeInv'
<1>1. report[t] \in [stage : {"schedule"}, about : Events, targets : SUBSET Hooks]
  BY DEF NoticeInv, NoticeTypeOK, Notified, Nothing
<1>2. Sent(report[t].about)
  BY <1>1 DEF Notified, Nothing, NoticeInv, ReportsWritten
<1>3. CASE \E h \in report[t].targets :
             /\ Scheduled(<<report[t].about, h>>, 0)
             /\ report' = [report EXCEPT ![t].targets = @ \ {h}]
             /\ UNCHANGED acked
  <2>1. PICK h \in report[t].targets :
          /\ Scheduled(<<report[t].about, h>>, 0)
          /\ report' = [report EXCEPT ![t].targets = @ \ {h}]
          /\ UNCHANGED acked
    BY Zenon, <1>3
  <2>2. <<report[t].about, h>> \in Pairs
    BY <1>1 DEF Pairs, Subjects
  <2>3. /\ heap' \in Seq(Deliveries)
        /\ knownPairs' \subseteq Pairs
        /\ knownPairs' = knownPairs \cup {<<report[t].about, h>>}
        /\ \A i \in DOMAIN heap : \E j \in DOMAIN heap' : heap'[j] = heap[i]
        /\ \E j \in DOMAIN heap' : heap'[j].pair = <<report[t].about, h>>
    BY SMTT(60), <2>1, <2>2, HeapScheduled DEF NoticeInv
  <2>4. UNCHANGED <<journal, outcomes, hooks, busy, sweeping, up, stopped>>
    BY DEF Notified
  <2>5. /\ report'[t] = [report[t] EXCEPT !.targets = report[t].targets \ {h}]
        /\ \A u \in Reports : u # t => report'[u] = report[u]
        /\ DOMAIN report' = Reports
        /\ report' = [u \in Reports |-> report'[u]]
    BY Zenon, <2>1 DEF NoticeInv, NoticeTypeOK
  <2>6. /\ report'[t] \in [stage : {"schedule"}, about : Events, targets : SUBSET Hooks]
        /\ report'[t].about = report[t].about
    BY <1>1, <2>5
  <2>7. NoticeTypeOK'
    BY <2>1, <2>3, <2>4, <2>5, <2>6 DEF NoticeInv, NoticeTypeOK
  <2>8. OneNoticePerEvent'
    BY <2>1, <2>4 DEF NoticeInv, OneNoticePerEvent, Sent, Written
  <2>9. ReportsWritten'
    BY <1>2, <2>4, <2>5, <2>6 DEF NoticeInv, ReportsWritten, Sent, Written
  <2>10. Backed'
    BY <2>1, <2>2, <2>4, ScheduledIsBacked DEF NoticeInv, WithOutcome
  <2> QED
    BY <2>7, <2>8, <2>9, <2>10 DEF NoticeInv
<1>4. CASE /\ report' = [report EXCEPT ![t] = Nothing]
           /\ acked' = acked \cup {report[t].about}
           /\ UNCHANGED <<heap, knownPairs>>
  <2>1. UNCHANGED <<journal, outcomes, hooks, busy, sweeping, up, stopped, heap,
                    knownPairs>>
    BY <1>4 DEF Notified
  <2>2. NoticeTypeOK'
    BY <1>1, <1>4, <2>1 DEF NoticeInv, NoticeTypeOK
  <2>3. OneNoticePerEvent'
    BY <1>2, <1>4, <2>1 DEF NoticeInv, OneNoticePerEvent, Sent, Written
  <2>4. ReportsWritten'
    BY <1>4, <2>1 DEF NoticeInv, NoticeTypeOK, ReportsWritten, Sent, Written
  <2>5. Backed'
    BY <2>1, WorkKept
  <2> QED
    BY <2>2, <2>3, <2>4, <2>5 DEF NoticeInv
<1> QED
  BY SMTT(60), <1>3, <1>4 DEF Notified

LEMMA AnnounceKeeps ==
  ASSUME NoticeInv, NEW x \in Announced, Announce(x)
  PROVE  NoticeInv'
<1>1. /\ journal' = Append(journal, Notice(x)) /\ ~Sent(x)
      /\ UNCHANGED <<outcomes, hooks, acked, up, stopped, heap, knownPairs, busy,
                     report, sweeping>>
  BY DEF Announce, memory
<1>2. /\ journal' \in Seq([about : Subjects, targets : SUBSET Hooks])
      /\ \A y : Sent(y) => Sent(y)'
      /\ \A i, j \in DOMAIN journal' : journal'[i].about = journal'[j].about => i = j
  BY Zenon, <1>1, WrittenAgain DEF NoticeInv, Subjects
<1>3. NoticeTypeOK'
  BY <1>1, <1>2 DEF NoticeInv, NoticeTypeOK
<1>4. OneNoticePerEvent'
  BY <1>1, <1>2 DEF NoticeInv, OneNoticePerEvent
<1>5. ReportsWritten'
  <2>1. \A y : Sent(y) => \E n \in Written' : n.about = y
    BY SMTT(60), <1>2 DEF Sent
  <2> QED
    BY <1>1, <2>1 DEF NoticeInv, ReportsWritten, Sent
<1>6. Backed'
  BY <1>1, WorkKept
<1> QED
  BY <1>3, <1>4, <1>5, <1>6 DEF NoticeInv

LEMMA TakeDeliveryKeeps ==
  ASSUME NoticeInv, NEW w \in Workers, TakeDelivery(w)
  PROVE  NoticeInv'
<1>1. PICK i \in DOMAIN heap :
        /\ busy' = [busy EXCEPT ![w] = [stage |-> "posting", item |-> heap[i]]]
        /\ heap' = Removed(heap, i)
  BY Zenon DEF TakeDelivery
<1>2. /\ busy[w] = Nothing
      /\ UNCHANGED <<journal, outcomes, hooks, knownPairs, report, acked, sweeping, up,
                     stopped>>
  BY DEF TakeDelivery
<1>3. heap[i] \in Deliveries
  BY DEF NoticeInv, NoticeTypeOK
<1>4. /\ heap' \in Seq(Deliveries)
      /\ \A j \in DOMAIN heap : j # i => \E k \in DOMAIN heap' : heap'[k] = heap[j]
  BY <1>1, HeapRemoved DEF NoticeInv, NoticeTypeOK
<1>5. /\ busy'[w] # Nothing /\ busy'[w].item = heap[i]
      /\ \A v \in Workers : v # w => busy'[v] = busy[v]
      /\ busy' \in [Workers -> {Nothing} \cup [stage : {"posting"}, item : Deliveries]]
  BY <1>1, <1>3 DEF NoticeInv, NoticeTypeOK, Nothing
<1>6. NoticeTypeOK'
  BY <1>2, <1>4, <1>5 DEF NoticeInv, NoticeTypeOK
<1>7. Backed'
  <2>1. \A j \in DOMAIN heap :
          \/ \E k \in DOMAIN heap' : heap'[k].pair = heap[j].pair
          \/ busy'[w].item.pair = heap[j].pair
    BY <1>4, <1>5
  <2>2. \A v \in Workers : busy[v] # Nothing =>
          busy'[v] # Nothing /\ busy'[v].item.pair = busy[v].item.pair
    BY <1>2, <1>5
  <2>3. InWork \subseteq InWork'
    BY <1>5, <2>1, <2>2 DEF InWork
  <2> QED
    BY <1>2, <2>3 DEF NoticeInv, Backed, WithOutcome
<1> QED
  BY <1>2, <1>6, <1>7, JournalKept DEF NoticeInv

LEMMA AttemptKeeps ==
  ASSUME NoticeInv, NEW w \in Workers, NEW answered \in BOOLEAN, Attempt(w, answered)
  PROVE  NoticeInv'
<1> DEFINE item == busy[w].item
           hook == item.pair[2] \in hooks
<1>1. /\ busy[w].stage = "posting"
      /\ busy' = [busy EXCEPT ![w] = Nothing]
      /\ UNCHANGED <<journal, hooks, report, acked, sweeping, up, stopped>>
  BY Zenon DEF Attempt
<1>2. \/ Scheduled(item.pair, item.attempt + 1) /\ UNCHANGED outcomes
      \/ /\ outcomes' = outcomes \cup {[pair |-> item.pair,
                                        outcome |-> Outcome(hook, answered)]}
         /\ UNCHANGED <<heap, knownPairs>>
  BY Zenon DEF Attempt
<1>3. busy[w] \in [stage : {"posting"}, item : Deliveries]
  BY <1>1 DEF NoticeInv, NoticeTypeOK, Nothing
<1>4. item.pair \in Pairs /\ item.attempt \in Nat /\ item.attempt + 1 \in Nat
  BY <1>3 DEF Deliveries
<1>5. /\ busy' \in [Workers -> {Nothing} \cup [stage : {"posting"}, item : Deliveries]]
      /\ \A v \in Workers : v # w => busy'[v] = busy[v]
  BY <1>1 DEF NoticeInv, NoticeTypeOK
<1>6. OneNoticePerEvent' /\ ReportsWritten'
  BY <1>1, JournalKept
<1> HIDE DEF hook
<1>7. CASE Scheduled(item.pair, item.attempt + 1) /\ UNCHANGED outcomes
  <2>1. heap' \in Seq(Deliveries) /\ knownPairs' \subseteq Pairs
    BY SMTT(60), <1>4, <1>7, HeapScheduled DEF NoticeInv
  <2>2. NoticeTypeOK'
    BY <1>1, <1>5, <1>7, <2>1 DEF NoticeInv, NoticeTypeOK
  <2>3. \A v \in Workers : busy[v] # Nothing =>
          busy'[v] = busy[v] \/ busy[v].item.pair = item.pair
    BY <1>5
  <2>4. Backed'
    BY <1>4, <1>7, <2>3, ScheduledIsBacked DEF NoticeInv
  <2> QED
    BY <1>6, <2>2, <2>4 DEF NoticeInv
<1>8. CASE /\ outcomes' = outcomes \cup {[pair |-> item.pair,
                                          outcome |-> Outcome(hook, answered)]}
           /\ UNCHANGED <<heap, knownPairs>>
  <2>1. Outcome(hook, answered) \in {"deleted", "delivered", "failed"}
    BY SMTT(60) DEF Outcome
  <2>2. NoticeTypeOK'
    BY <1>1, <1>4, <1>5, <1>8, <2>1 DEF NoticeInv, NoticeTypeOK
  <2>3. WithOutcome \cup {item.pair} \subseteq WithOutcome'
    <3> DEFINE outcome == [pair |-> item.pair, outcome |-> Outcome(hook, answered)]
    <3>1. outcome \in outcomes' /\ outcome.pair = item.pair /\ outcomes \subseteq outcomes'
      BY <1>8
    <3> HIDE DEF outcome
    <3> QED
      BY <3>1 DEF WithOutcome
  <2>4. \A v \in Workers : busy[v] # Nothing =>
          \/ busy[v].item.pair = item.pair
          \/ busy'[v] # Nothing /\ busy'[v].item.pair = busy[v].item.pair
    BY SMTT(60), <1>5
  <2>5. InWork \subseteq InWork' \cup {item.pair}
    BY <1>8, <2>4 DEF InWork
  <2>6. Backed'
    BY <1>8, <2>3, <2>5 DEF NoticeInv, Backed
  <2> QED
    BY <1>6, <2>2, <2>6 DEF NoticeInv
<1> QED
  BY <1>2, <1>7, <1>8

\* The pairs of the journal, which the sweep goes through.
LEMMA PairsTyped ==
  ASSUME NoticeInv
  PROVE  UNION {PairsOf(n) : n \in Written} \in SUBSET Pairs
<1> DEFINE Note == [about : Subjects, targets : SUBSET Hooks]
<1>0. journal \in Seq(Note)
  BY DEF NoticeInv, NoticeTypeOK
<1> HIDE DEF Note
<1>1. \A i \in DOMAIN journal : journal[i] \in Note
  BY <1>0
<1>2. \A n \in Written : n \in [about : Subjects, targets : SUBSET Hooks]
  BY <1>1 DEF Written, Note
<1>3. \A n \in Written : PairsOf(n) \subseteq Pairs
  BY <1>2 DEF PairsOf, Pairs
<1> QED
  BY <1>3

LEMMA SweepsKeeps ==
  ASSUME NoticeInv, Sweeps
  PROVE  NoticeInv'
<1>1. CASE SweepReads
  <2>1. NoticeTypeOK'
    BY SMTT(60), <1>1, PairsTyped DEF SweepReads, NoticeInv, NoticeTypeOK
  <2> QED
    BY SMTT(60), <1>1, <2>1, JournalKept, WorkKept DEF SweepReads, NoticeInv
<1>2. CASE SweepLooks
  <2>1. PICK pair \in sweeping.left :
          sweeping' = [left |-> sweeping.left \ {pair},
                       due |-> IF IsDue(pair) THEN {pair} ELSE {}]
    BY Zenon, <1>2 DEF SweepLooks
  <2>2. sweeping' \in [left : SUBSET Pairs, due : SUBSET Pairs]
    BY SMTT(60), <2>1 DEF NoticeInv, NoticeTypeOK
  <2>3. NoticeTypeOK'
    BY <1>2, <2>2 DEF SweepLooks, NoticeInv, NoticeTypeOK
  <2> QED
    BY <1>2, <2>3, JournalKept, WorkKept DEF SweepLooks, NoticeInv
<1>3. CASE SweepSchedules
  <2>1. PICK pair \in sweeping.due : Scheduled(pair, 0)
    BY <1>3 DEF SweepSchedules
  <2>2. /\ sweeping' = [sweeping EXCEPT !.due = {}]
        /\ UNCHANGED <<journal, outcomes, hooks, busy, report, acked, up, stopped>>
    BY <1>3 DEF SweepSchedules
  <2>3. pair \in Pairs /\ sweeping' \in [left : SUBSET Pairs, due : SUBSET Pairs]
    BY <2>2 DEF NoticeInv, NoticeTypeOK
  <2>4. heap' \in Seq(Deliveries) /\ knownPairs' \subseteq Pairs
    BY <2>1, <2>3, HeapScheduled DEF NoticeInv
  <2>5. NoticeTypeOK'
    BY <2>2, <2>3, <2>4 DEF NoticeInv, NoticeTypeOK
  <2>6. Backed'
    BY <2>1, <2>2, <2>3, ScheduledIsBacked DEF NoticeInv
  <2> QED
    BY <2>2, <2>5, <2>6, JournalKept DEF NoticeInv
<1> QED
  BY <1>1, <1>2, <1>3 DEF Sweeps

LEMMA ServiceKeeps ==
  ASSUME NoticeInv, StopService \/ StartNotifier \/ \E h \in Hooks : HookDelete(h)
  PROVE  NoticeInv'
<1>1. CASE StopService
  <2>0. /\ heap' = << >> /\ knownPairs' = {} /\ sweeping' = NoSweep
        /\ busy' = [w \in Workers |-> Nothing]
        /\ report' = [t \in Reports |-> Nothing]
        /\ up' = FALSE /\ stopped' = stopped + 1
        /\ UNCHANGED <<journal, outcomes, hooks, acked>>
    BY SMTT(60), <1>1 DEF StopService
  <2>1. NoticeTypeOK'
    <3>1. heap' \in Seq(Deliveries) /\ NoSweep \in [left : SUBSET Pairs, due : SUBSET Pairs]
      BY <2>0 DEF NoSweep
    <3>2. stopped' \in Nat
      BY SMTT(60), <2>0 DEF NoticeInv, NoticeTypeOK
    <3> QED
      BY Zenon, <2>0, <3>1, <3>2 DEF NoticeInv, NoticeTypeOK
  <2>2. OneNoticePerEvent' /\ ReportsWritten' /\ Backed'
    BY <1>1 DEF StopService, NoticeInv, OneNoticePerEvent, ReportsWritten, Backed,
                Sent, Written
  <2> QED
    BY <2>1, <2>2 DEF NoticeInv
<1>2. CASE StartNotifier
  <2>1. WithOutcome \subseteq Pairs
    BY SMTT(60) DEF NoticeInv, NoticeTypeOK, WithOutcome
  <2>2. NoticeTypeOK'
    BY SMTT(60), <1>2, <2>1, PairsTyped DEF StartNotifier, NoticeInv, NoticeTypeOK
  <2>3. Backed'
    BY <1>2 DEF StartNotifier, Backed, WithOutcome
  <2> QED
    BY <1>2, <2>2, <2>3, JournalKept DEF StartNotifier, NoticeInv
<1>3. CASE \E h \in Hooks : HookDelete(h)
  <2>1. PICK h \in Hooks : HookDelete(h)
    BY SMTT(60), <1>3
  <2>2. NoticeTypeOK'
    BY <2>1 DEF HookDelete, memory, NoticeInv, NoticeTypeOK
  <2> QED
    BY <2>1, <2>2, JournalKept, WorkKept DEF HookDelete, memory, NoticeInv
<1> QED
  BY <1>1, <1>2, <1>3

\* Across reports, deliveries, sweeps and stops of the service, what the notifier
\* keeps in memory fits the journal and the outcomes as NoticeInv says.
THEOREM NoticesInvariant == NoticeSpec => []NoticeInv
<1>1. ASSUME NoticeInv, [NoticeNext]_noticeVars PROVE NoticeInv'
  <2>1. CASE \E t \in Reports : Notified(t) \/ \E x \in Events : Report(t, x)
    BY <1>1, <2>1, NotifiedKeeps, ReportKeeps
  <2>2. CASE \E x \in Announced : Announce(x)
    BY <1>1, <2>2, AnnounceKeeps
  <2>3. CASE \E w \in Workers : TakeDelivery(w) \/ Post(w)
    BY <1>1, <2>3, TakeDeliveryKeeps, AttemptKeeps DEF Post
  <2>4. CASE UNCHANGED noticeVars
    <3>1. NoticeTypeOK'
      BY <1>1, <2>4 DEF noticeVars, NoticeInv, NoticeTypeOK
    <3> QED
      BY SMTT(60), <1>1, <2>4, <3>1, JournalKept, WorkKept DEF noticeVars, NoticeInv
  <2> QED
    BY <1>1, <2>1, <2>2, <2>3, <2>4, SweepsKeeps, ServiceKeeps DEF NoticeNext
<1> QED
  BY <1>1, NoticeInitially, PTL DEF NoticeSpec

\* For any threads, workers, webhooks and stops: an event makes at most one
\* notice, and an answered one has it (hub_event looks for the `once' key and
\* writes under one lock).
THEOREM OneNoticeEach == NoticeSpec => []OneNoticePerEvent
<1>1. NoticeInv => OneNoticePerEvent
  BY DEF NoticeInv
<1> QED
  BY <1>1, NoticesInvariant, PTL

\* For any threads, workers, webhooks and stops: a delivery in Notifier.known
\* has its outcome written or is in the heap or with a worker, so the sweep,
\* which passes over what is known, passes over nothing that is lost.
THEOREM KnownDeliveriesBacked == NoticeSpec => []KnownIsBacked
<1>1. NoticeInv => KnownIsBacked
  BY DEF NoticeInv, KnownIsBacked, Backed
<1> QED
  BY <1>1, NoticesInvariant, PTL

=============================================================================
