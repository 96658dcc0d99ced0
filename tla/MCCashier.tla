----------------------------- MODULE MCCashier -----------------------------
(***************************************************************************)
(* Where waiting matters: withdrawals and deposits, which wait for a       *)
(* gateway, claims of rakeback, which wait for each other, and connections *)
(* that wait for a peer.  They share no variable, so a behaviour is about  *)
(* one of them: `part` says which, and the others stay at rest.  Transfers *)
(* and the claims are extended, so that their properties are the modules'  *)
(* own.                                                                    *)
(***************************************************************************)
EXTENDS Payouts, RewardClaims, Integers, TLC

CONSTANTS
  Invoices, Handlers, Hashes, SharedHash, MaxFailures,   \* Deposits
  Requests, Cap, PromoEnds, MaxTick, MaxEdge,   \* Rewards
  Sockets, MaxVersion                           \* Presence

VARIABLES
  part,
  opening, gate, calls, past, payment, deposits, handler, failures,
  mix, clock, barred, lastSpin, lastIn, rung, redeemed, edge, req,
  user, tcp, peer, sockets, meta, lookup, room

Parts == {"payouts", "deposits", "rewards", "presence"}

depositVars == <<opening, gate, calls, past, payment, deposits, handler, failures>>
rewardVars ==
  <<mix, clock, barred, lastSpin, lastIn, rung, redeemed, edge, swept, req, paid, days, peak>>
presenceVars == <<user, tcp, peer, sockets, meta, lookup, room>>
cashierVars == <<part, payoutVars, depositVars, rewardVars, presenceVars>>

-----------------------------------------------------------------------------
\* With two connections the transactions of two claims take the whole pool; with three
\* one more is left.
RakebackOnly == [kinds : {{"rakeback"}}, players : {Players}, pool : {2, 3}]

Deposit == INSTANCE Deposits WITH row <- payment, ledger <- deposits
Claiming == INSTANCE Rewards WITH Mixes <- RakebackOnly, frozen <- barred
Online == INSTANCE Presence

ASSUME PayoutsAssumption
ASSUME Deposit!DepositsAssumption /\ Claiming!RewardsAssumption /\ Online!SocketsAssumption

CashierInit ==
  /\ part \in Parts
  /\ PayoutsInit /\ (part # "payouts" => gateway = "MANUAL")
  /\ Deposit!Init
  /\ Claiming!Init /\ (part # "rewards" => mix.pool = 3)
  /\ Online!Init

CashierNext ==
  \/ /\ part = "payouts" /\ PayoutsNext
     /\ UNCHANGED <<part, depositVars, rewardVars, presenceVars>>
  \/ /\ part = "deposits" /\ Deposit!Next
     /\ UNCHANGED <<part, payoutVars, rewardVars, presenceVars>>
  \/ /\ part = "rewards" /\ Claiming!Next
     /\ UNCHANGED <<part, payoutVars, depositVars, presenceVars>>
  \/ /\ part = "presence" /\ Online!Next
     /\ UNCHANGED <<part, payoutVars, depositVars, rewardVars>>

\* The fairness of the modules: in a part that is not the behaviour's nothing that is
\* fair is ever enabled.
CashierSpec ==
  /\ CashierInit /\ [][CashierNext]_cashierVars
  /\ Fairness /\ Deposit!Fairness /\ Claiming!Fairness /\ Online!Fairness

-----------------------------------------------------------------------------
\* The type invariants of the four modules.
TypesOK ==
  CASE part = "payouts"  -> PayoutsTypeOK
    [] part = "deposits" -> Deposit!TypeOK
    [] part = "rewards"  -> Claiming!TypeOK
    [] part = "presence" -> Online!TypeOK

\* What moves through a gateway moves the ledger once.  Out: no hold is released behind a
\* payout that is going out.  In: however often and in whatever order the callbacks come, an
\* invoice is credited once, by one that says it was paid in full, and its row knows of the
\* credit.
MovedOnce == NotPaidTwice /\ Deposit!CreditedOnce

\* A payout that failed or was refused gives its hold back.
FailuresRefund == ReportedFailureRefunds /\ RefusedIsReleased

\* An invoice that was paid is credited.
PaidIsCredited == Deposit!PaidIsCredited

\* What holds something lets go of it: a claim its connection of the pool, a peer that
\* vanished its place among the players online.
HoldersLetGo == Claiming!ClaimsEnd /\ Online!VanishedIsReleased
=============================================================================
