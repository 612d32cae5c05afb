----------------------------- MODULE MCServices -----------------------------
(***************************************************************************)
(* Parts of the account service and of the chat layer for TLC: orders and  *)
(* payments, teams and credentials, notices, the gate of the chat layer,   *)
(* the switch between models, and context packs.  A behaviour is one of    *)
(* one part, in one of its scenarios; the other parts stand still where    *)
(* they start.                                                             *)
(***************************************************************************)
EXTENDS PayOrders, TeamAccess, Notices, ChatGate, ModelSwap, ContextPacks, TLC

CONSTANTS Parts, o1, a1, a2, e1, e2, e3, c1, c2, c3, c4, d1, d2, r1

VARIABLE part

-----------------------------------------------------------------------------
(* Orders.                                                                 *)

Sale(by, ops, beside, max) ==
  [by |-> [x \in {o1} |-> by], ops |-> ops, beside |-> beside, crashes |-> max]

NoSale == Sale("coin", {}, FALSE, 0)

SalesSafety ==
  {NoSale,
   Sale("coin", {"release"}, TRUE, 0),
   Sale("coin", {"release"}, FALSE, 2),
   Sale("toss", {"spend", "refund"}, FALSE, 2),
   Sale("swift", {"spend", "refund", "swift-confirm", "swift-cancel"}, FALSE, 2)}

SalesLive == {NoSale, Sale("toss", {}, FALSE, 0)}

-----------------------------------------------------------------------------
(* Teams: e1 owns a1, and e2 owns a2 where it is open.                     *)

Cookie(a) == [subject |-> a, account |-> a, until |-> 1 + SessionDays]

Mails(n1, n2, n3) ==
  [e \in Emails |-> IF e = e1 THEN n1 ELSE IF e = e2 THEN n2 ELSE n3]

Team(open, mails, ops, crash, members, invites, keys, days) ==
  [accounts |-> [a \in TeamAccounts |->
                   IF a = a1 THEN e1 ELSE IF a \in open THEN e2 ELSE NoOwner],
   cookies |-> <<Cookie(a1)>> \o (IF a2 \in open THEN <<Cookie(a2)>> ELSE <<>>),
   ops |-> ops, crashes |-> crash, codes |-> mails,
   max |-> [members |-> members, invites |-> invites, keys |-> keys,
            days |-> days]]

NoTeam == Team({}, Mails(0, 0, 0), {}, 0, 0, 0, 0, 1)

MCTeams ==
  {NoTeam,
   Team({}, Mails(0, 0, 1), {"create", "put", "delete"}, 1, 1, 1, 1, 1),
   Team({a2}, Mails(0, 0, 1), {"put"}, 0, 1, 2, 0, 3),
   Team({}, Mails(0, 0, 0), {"create", "revoke", "rotate"}, 1, 0, 0, 3, 2),
   Team({}, Mails(1, 1, 0), {"session"}, 0, 0, 0, 0, 2),
   Team({}, Mails(0, 0, 2), {"put", "delete"}, 0, 2, 2, 0, 1)}

-----------------------------------------------------------------------------
(* Requests at the gate: the owner's, and those of the members of a key.   *)

Kind(urgent, from, member, timed) ==
  [urgent |-> urgent, scope |-> from, member |-> member, timed |-> timed]

MCRushes ==
  {[a \in Asks |-> CASE a = c1 -> Kind(FALSE, "own", NoMember, FALSE)
                     [] a = c2 -> Kind(urgent, "key", "k1", TRUE)
                     [] a = c3 -> Kind(TRUE, "key", "k2", FALSE)
                     [] a = c4 -> Kind(TRUE, "own", NoMember, FALSE)] :
     urgent \in BOOLEAN}

-----------------------------------------------------------------------------
(* Models.                                                                 *)

Play(wants, ops, most, faults, roomy, burst) ==
  [wants |-> wants, ops |-> ops, calls |-> most, faults |-> faults,
   roomy |-> roomy, burst |-> burst]

NoPlay == Play(<<>>, {}, 0, 0, TRUE, FALSE)
BothModels == [r \in Chats |-> IF r = r1 THEN d1 ELSE d2]

PlaysSafety ==
  {NoPlay, Play(<<>>, {"force", "deactivate"}, 3, 0, TRUE, TRUE)}
    \cup {Play(<<>>, {"force", "switch", "deactivate", "restart"}, 3, 1, roomy,
               FALSE) : roomy \in BOOLEAN}
    \cup {Play(BothModels, {"deactivate"}, 1, 1, roomy, FALSE) :
            roomy \in BOOLEAN}

PlaysLive ==
  {NoPlay,
   Play([r \in Chats |-> d2], {}, 0, 1, TRUE, FALSE),
   Play(BothModels, {}, 0, 1, TRUE, FALSE),
   Play(<<>>, {"force", "deactivate"}, 2, 1, TRUE, FALSE)}

-----------------------------------------------------------------------------
(* Packs.                                                                  *)

PackPlay(ops, changes, asks, commit) ==
  [ops |-> ops, changes |-> changes, asks |-> asks, commit |-> commit]

NoPackPlay == PackPlay({}, 0, 0, NoCommit)

PacksSafety ==
  {NoPackPlay,
   PackPlay({"PUSH", "REDEFINE", "ASK", "HOURS"}, 1, 2, "k1"),
   PackPlay({"PUSH", "HOURS", "REFRESH"}, 2, 0, "k1"),
   PackPlay({"PUSH", "ASK", "DELETE", "ERASE", "FAIL"}, 2, 1, NoCommit),
   PackPlay({"PUSH", "ASK", "HOURS", "RESTART", "ERASE"}, 1, 1, "k1")}

PacksLive ==
  {NoPackPlay,
   PackPlay({"PUSH", "REDEFINE", "ASK", "REFRESH", "DELETE"}, 2, 1, "k1")}

-----------------------------------------------------------------------------
vars == <<part, payVars, accessVars, noticeVars, gateVars, swapVars, packVars>>

\* A part that stands still starts in one state only.
StandsStill(p) == part # p

Init ==
  /\ part \in Parts
  /\ PayInit /\ AccessInit /\ NoticeInit /\ GateInit /\ SwapInit /\ PackInit
  /\ StandsStill("orders") => sale = NoSale
  /\ StandsStill("teams") => scope = NoTeam
  /\ StandsStill("gate") => rush = CHOOSE x \in Rushes : TRUE
  /\ StandsStill("models") => play = NoPlay /\ ctl.active = NoModel
  /\ StandsStill("packs") => packPlay = NoPackPlay

Orders_ == /\ part = "orders" /\ PayNext
           /\ UNCHANGED <<part, accessVars, noticeVars, gateVars, swapVars,
                          packVars>>
Teams_ == /\ part = "teams" /\ AccessNext
          /\ UNCHANGED <<part, payVars, noticeVars, gateVars, swapVars, packVars>>
Notices_ == /\ part = "notices" /\ NoticeNext
            /\ UNCHANGED <<part, payVars, accessVars, gateVars, swapVars,
                           packVars>>
Gate_ == /\ part = "gate" /\ GateNext
         /\ UNCHANGED <<part, payVars, accessVars, noticeVars, swapVars,
                        packVars>>
Models_ == /\ part = "models" /\ SwapNext
           /\ UNCHANGED <<part, payVars, accessVars, noticeVars, gateVars,
                          packVars>>
Packs_ == /\ part = "packs" /\ PackNext
          /\ UNCHANGED <<part, payVars, accessVars, noticeVars, gateVars,
                         swapVars>>

Next == Orders_ \/ Teams_ \/ Notices_ \/ Gate_ \/ Models_ \/ Packs_

Spec == Init /\ [][Next]_vars

\* Each part under its own fairness: PayFairness, NoticeFairness, SwapFairness
\* and PackFairness.
In(p, A) == part = p /\ A

OrdersFair ==
  /\ WF_payVars(In("orders", \E p \in Writers : AppendLine(p)))
  /\ \A h \in Handlers : WF_payVars(In("orders", CreateInvoice(h) \/ ConfirmCall(h)))
  /\ \A t \in Threads : WF_payVars(In("orders", ApplyStep(t)))
  /\ WF_payVars(In("orders", WorkStep))
  /\ WF_payVars(In("orders", Reconcile))
  /\ \A x \in Orders : SF_payVars(In("orders", Ask(x)))

NoticesFair ==
  /\ \A t \in Reports : WF_noticeVars(In("notices", Notified(t)))
  /\ \A x \in Events : WF_noticeVars(In("notices", \E t \in Reports : Report(t, x)))
  /\ \A w \in Workers : /\ WF_noticeVars(In("notices", TakeDelivery(w)))
                        /\ WF_noticeVars(In("notices", Post(w)))
  /\ WF_noticeVars(In("notices", Sweeps))
  /\ WF_noticeVars(In("notices", StartNotifier))

ModelsFair ==
  /\ WF_swapVars(In("models", JobStep))
  /\ \A m \in ModelIds : /\ WF_swapVars(In("models", PollerAsks(m) \/ PollerAskFails(m)))
                         /\ WF_swapVars(In("models", PollReady(m)))
  /\ \A r \in Chats : WF_swapVars(In("models", chat[r] = "retry" /\ Try(r)))

PacksFair == /\ WF_packVars(In("packs", RefreshStep))
             /\ WF_packVars(In("packs", PushEnds))

LiveSpec == /\ Spec
            /\ OrdersFair /\ NoticesFair /\ ModelsFair /\ PacksFair

\* The threads of each part are alike.
Symmetry == Permutations(Clients)
=============================================================================
