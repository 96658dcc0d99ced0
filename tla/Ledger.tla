------------------------------- MODULE Ledger -------------------------------
(***************************************************************************)
(* The money core of the server: services/ledger.service.ts, the deposit   *)
(* credit of services/payment.service.ts, and the administrator's verbs    *)
(* that reach them.                                                        *)
(*                                                                         *)
(* Every ledger function runs in one database transaction under Read       *)
(* Committed.  A transaction that decides something on a plain read before *)
(* it writes (the freeze flag, the affiliate balance to sweep) is two      *)
(* steps here: Begin... takes the read, Commit... takes effect, and any    *)
(* other transaction may commit in between.  The guarded updateMany locks  *)
(* the row it changes until commit, so guard and write are one step.  The  *)
(* other functions decide nothing on a stale read (their key look-up is    *)
(* backed by the unique index on txHash), so each of them is one step;     *)
(* settleAffiliateReward reads the percentage without a lock, and a change *)
(* of it that commits in between is the same as one after the reward.      *)
(*                                                                         *)
(* Simplifications: one currency; an amount is a count of 1e-8 units; a    *)
(* wallet exists for every user (registration creates it); the random keys *)
(* of tips and one-off bonuses, which never collide, are TipKey and NoKey. *)
(*                                                                         *)
(* An operator named Op_Something is Op as a plausible slip would have     *)
(* left it; the specification uses none of them.                           *)
(***************************************************************************)
EXTENDS Integers, Sequences, FiniteSets, FiniteSetsExt

CONSTANTS
  Users,       \* account ids
  NoUser,      \* "was not referred"
  Referrer,    \* Referrer[u]: who referred u, or NoUser (User.referredById)
  Conns,       \* database connections: transactions that may run at once
  Amounts,     \* the positive amounts callers pass
  RevShares,   \* the percentages an administrator may set
  Refs,        \* ids that make keyed credits unique: invoices, claims, admin keys
  Days,        \* UTC days
  MaxRows      \* bound: rows the ledger may hold

ASSUME UsersAssumption == NoUser \notin Users /\ Referrer \in [Users -> Users \cup {NoUser}]
ASSUME AmountsAssumption == Amounts \subseteq Nat \ {0}
ASSUME RevSharesAssumption == RevShares \subseteq 0..100
ASSUME MaxRowsAssumption == MaxRows \in Nat

VARIABLES
  balance,           \* Wallet.balance
  affiliateBalance,  \* Wallet.affiliateBalance
  revShare,          \* User.revSharePercentage
  frozen,            \* User.frozen
  rows,              \* the Transaction table, in commit order; a row's id is its index
  open,              \* open[c]: what the transaction on connection c has read so far
  audited            \* AdminAuditLog entries about money: <<verb, row id>>

vars == <<balance, affiliateBalance, revShare, frozen, rows, open, audited>>

-----------------------------------------------------------------------------
(* Values *)

Types == {"BET", "WIN", "DEPOSIT", "WITHDRAWAL", "BONUS_CASHBACK",
          "AFFILIATE_REWARD", "AFFILIATE_CLAIM"}
Statuses == {"PENDING", "COMPLETED", "FAILED"}

\* Transaction.txHash: null or random, or derived from what entitles the row.
NoKey == <<"none", 0>>
TipKey == <<"tip", 0>>
Key == {NoKey, TipKey} \cup ({"win", "affiliate", "refund"} \X Nat)
               \cup ({"adj", "deposit", "rakeback"} \X Refs)
               \cup ({"cashback"} \X (Users \X Days))

Row == [user: Users, type: Types, amount: Nat, status: Statuses, key: Key]

Posted(u, type, a, key) ==
  [user |-> u, type |-> type, amount |-> a, status |-> "COMPLETED", key |-> key]

\* The unique index on txHash.
Used(key) == \E i \in 1..Len(rows) : rows[i].key = key

RoomFor(n) == Len(rows) + n <= MaxRows

Idle == [op |-> "idle"]
Request == [op: {"bet", "tip", "withdraw", "claim"}, user: Users, to: Users, amount: Nat]

-----------------------------------------------------------------------------
Init ==
  /\ balance = [u \in Users |-> 0]
  /\ affiliateBalance = [u \in Users |-> 0]
  /\ revShare \in [Users -> RevShares]
  /\ frozen = [u \in Users |-> FALSE]
  /\ rows = <<>>
  /\ open = [c \in Conns |-> Idle]
  /\ audited = {}

-----------------------------------------------------------------------------
(* Money out: the freeze flag is read first, the debit is guarded. *)

Begin(c, request) ==
  /\ open[c] = Idle
  /\ open' = [open EXCEPT ![c] = request]
  /\ UNCHANGED <<balance, affiliateBalance, revShare, frozen, rows, audited>>

MaySpend_Unchecked(u) == TRUE

\* processBet, transferBetweenUsers (the chat /tip, never to oneself) and
\* requestWithdrawal each refuse an account that reads as frozen.
MaySpend(u) == ~frozen[u]

BeginDebit(c, op, u, to, a) ==
  /\ MaySpend(u)
  /\ (op = "tip") <=> (to # u)
  /\ Begin(c, [op |-> op, user |-> u, to |-> to, amount |-> a])

DebitGuard_Unguarded(u, a) == TRUE

\* UPDATE wallet SET balance = balance - a WHERE balance >= a
DebitGuard(u, a) == balance[u] >= a

CommitBet(c) ==
  LET q == open[c] IN
  /\ q.op = "bet" /\ DebitGuard(q.user, q.amount) /\ RoomFor(1)
  /\ balance' = [balance EXCEPT ![q.user] = @ - q.amount]
  /\ rows' = Append(rows, Posted(q.user, "BET", q.amount, NoKey))
  /\ open' = [open EXCEPT ![c] = Idle]
  /\ UNCHANGED <<affiliateBalance, revShare, frozen, audited>>

TipCredit_ToSender(q) == Posted(q.user, "DEPOSIT", q.amount, TipKey)

TipCredit(q) == Posted(q.to, "DEPOSIT", q.amount, TipKey)

CommitTip(c) ==
  LET q == open[c] IN
  /\ q.op = "tip" /\ DebitGuard(q.user, q.amount) /\ RoomFor(2)
  /\ balance' = [balance EXCEPT ![q.user] = @ - q.amount, ![q.to] = @ + q.amount]
  /\ rows' = Append(Append(rows, Posted(q.user, "WITHDRAWAL", q.amount, TipKey)),
                    TipCredit(q))
  /\ open' = [open EXCEPT ![c] = Idle]
  /\ UNCHANGED <<affiliateBalance, revShare, frozen, audited>>

CommitWithdrawal(c) ==
  LET q == open[c] IN
  /\ q.op = "withdraw" /\ DebitGuard(q.user, q.amount) /\ RoomFor(1)
  /\ balance' = [balance EXCEPT ![q.user] = @ - q.amount]
  /\ rows' = Append(rows, [Posted(q.user, "WITHDRAWAL", q.amount, NoKey)
                             EXCEPT !.status = "PENDING"])
  /\ open' = [open EXCEPT ![c] = Idle]
  /\ UNCHANGED <<affiliateBalance, revShare, frozen, audited>>

\* claimAffiliateEarnings reads the amount it will sweep; a frozen account may
\* claim.
BeginClaim(c, u) ==
  /\ affiliateBalance[u] > 0
  /\ Begin(c, [op |-> "claim", user |-> u, to |-> u, amount |-> affiliateBalance[u]])

\* UPDATE ... WHERE affiliateBalance >= the amount that was read
ClaimGuard(q) == affiliateBalance[q.user] >= q.amount

CommitClaim(c) ==
  LET q == open[c] IN
  /\ q.op = "claim" /\ ClaimGuard(q) /\ RoomFor(1)
  /\ affiliateBalance' = [affiliateBalance EXCEPT ![q.user] = @ - q.amount]
  /\ balance' = [balance EXCEPT ![q.user] = @ + q.amount]
  /\ rows' = Append(rows, Posted(q.user, "AFFILIATE_CLAIM", q.amount, NoKey))
  /\ open' = [open EXCEPT ![c] = Idle]
  /\ UNCHANGED <<revShare, frozen, audited>>

\* A guard that matches no row (InsufficientFunds, NothingToClaim), a database
\* error or the death of the process rolls the transaction back.
Abort(c) ==
  /\ open[c] # Idle
  /\ open' = [open EXCEPT ![c] = Idle]
  /\ UNCHANGED <<balance, affiliateBalance, revShare, frozen, rows, audited>>

-----------------------------------------------------------------------------
(* Money in *)

KeyFree_NotUnique(key) == TRUE

KeyFree(key) == key = NoKey \/ ~Used(key)

\* One credit and its row; a key already in the table makes the insert fail and
\* takes the increment back with it.
Credit(u, type, a, key) ==
  /\ KeyFree(key)
  /\ RoomFor(1)
  /\ balance' = [balance EXCEPT ![u] = @ + a]
  /\ rows' = Append(rows, Posted(u, type, a, key))
  /\ UNCHANGED <<affiliateBalance, revShare, frozen, open>>

\* processWin, called with the id of a BET row of the same player.
ProcessWin(b, payout) ==
  /\ rows[b].type = "BET"
  /\ Credit(rows[b].user, "WIN", payout, <<"win", b>>)
  /\ UNCHANGED audited

\* awardBonus: one-off (wheel, promo code, check-in) or keyed by a rakeback claim.
AwardBonus(u, a, key) ==
  Credit(u, "DEPOSIT", a, key) /\ UNCHANGED audited

CreditCashback(u, a, day) ==
  Credit(u, "BONUS_CASHBACK", a, <<"cashback", <<u, day>>>>) /\ UNCHANGED audited

\* settleDeposit claims the invoice (transactionId null) and credits it, once.
SettleDeposit(u, a, invoice) ==
  Credit(u, "DEPOSIT", a, <<"deposit", invoice>>) /\ UNCHANGED audited

\* settleAffiliateReward: a cut of the net loss, rounded down, for the referrer.
Reward(stake, payout, pct) == ((stake - payout) * pct) \div 100

MayEarn_SelfReferral(referrer, player) == referrer # NoUser

MayEarn(referrer, player) == referrer # NoUser /\ referrer # player

SettleAffiliateReward(b, payout) ==
  LET player   == rows[b].user
      referrer == Referrer[player]
      stake    == rows[b].amount IN
  /\ rows[b].type = "BET"
  /\ payout < stake
  /\ MayEarn(referrer, player)
  /\ ~Used(<<"affiliate", b>>)
  /\ Reward(stake, payout, revShare[referrer]) > 0
  /\ RoomFor(1)
  /\ affiliateBalance' = [affiliateBalance EXCEPT
                            ![referrer] = @ + Reward(stake, payout, revShare[referrer])]
  /\ rows' = Append(rows, Posted(referrer, "AFFILIATE_REWARD",
                                 Reward(stake, payout, revShare[referrer]),
                                 <<"affiliate", b>>))
  /\ UNCHANGED <<balance, revShare, frozen, open, audited>>

-----------------------------------------------------------------------------
(* The administrator, and the payout path that rejects on its own *)

Record_Skipped(verb, row) == UNCHANGED audited

\* auditWithin, in the transaction of the change it records.
Record(verb, row) == audited' = audited \cup {<<verb, row>>}

AdjustCredit(u, a, ref) ==
  /\ Credit(u, "DEPOSIT", a, <<"adj", ref>>)
  /\ Record("BALANCE_ADJUSTED", Len(rows) + 1)

AdjustDebitRow_Signed(u, a, ref) == Posted(u, "WITHDRAWAL", -a, <<"adj", ref>>)

AdjustDebitRow(u, a, ref) == Posted(u, "WITHDRAWAL", a, <<"adj", ref>>)

AdjustDebit(u, a, ref) ==
  /\ KeyFree(<<"adj", ref>>)
  /\ DebitGuard(u, a)
  /\ RoomFor(1)
  /\ balance' = [balance EXCEPT ![u] = @ - a]
  /\ rows' = Append(rows, AdjustDebitRow(u, a, ref))
  /\ Record("BALANCE_ADJUSTED", Len(rows) + 1)
  /\ UNCHANGED <<affiliateBalance, revShare, frozen, open>>

IsPending_AnyStatus(w) == rows[w].type = "WITHDRAWAL" /\ rows[w].key = NoKey

\* UPDATE ... WHERE type = WITHDRAWAL AND status = PENDING
IsPending(w) == rows[w].type = "WITHDRAWAL" /\ rows[w].status = "PENDING"

ApproveWithdrawal(w) ==
  /\ IsPending(w)
  /\ rows' = [rows EXCEPT ![w].status = "COMPLETED"]
  /\ Record("APPROVED", w)
  /\ UNCHANGED <<balance, affiliateBalance, revShare, frozen, open>>

RefundRow(w) == Posted(rows[w].user, "DEPOSIT", rows[w].amount, <<"refund", w>>)

\* By an administrator, who is audited, or by the payout code, which passes a
\* no-op for the audit.
RejectWithdrawal(w, by) ==
  /\ IsPending(w)
  /\ RoomFor(1)
  /\ balance' = [balance EXCEPT ![rows[w].user] = @ + rows[w].amount]
  /\ rows' = Append([rows EXCEPT ![w].status = "FAILED"], RefundRow(w))
  /\ IF by = "admin" THEN Record("REJECTED_AND_REFUNDED", w) ELSE UNCHANGED audited
  /\ UNCHANGED <<affiliateBalance, revShare, frozen, open>>

SetFrozen(u, flag) ==
  /\ frozen' = [frozen EXCEPT ![u] = flag]
  /\ UNCHANGED <<balance, affiliateBalance, revShare, rows, open, audited>>

SetRevShare(u, pct) ==
  /\ revShare' = [revShare EXCEPT ![u] = pct]
  /\ UNCHANGED <<balance, affiliateBalance, frozen, rows, open, audited>>

-----------------------------------------------------------------------------
Player(c) ==
  \/ \E op \in {"bet", "tip", "withdraw"}, u, to \in Users, a \in Amounts :
       BeginDebit(c, op, u, to, a)
  \/ CommitBet(c)
  \/ CommitTip(c)
  \/ CommitWithdrawal(c)
  \/ \E u \in Users : BeginClaim(c, u)
  \/ CommitClaim(c)
  \/ Abort(c)

House ==
  \/ \E b \in 1..Len(rows), payout \in Amounts : ProcessWin(b, payout)
  \/ \E b \in 1..Len(rows), payout \in Amounts \cup {0} : SettleAffiliateReward(b, payout)
  \/ \E u \in Users, a \in Amounts, key \in {NoKey} \cup ({"rakeback"} \X Refs) :
       AwardBonus(u, a, key)
  \/ \E u \in Users, a \in Amounts, day \in Days : CreditCashback(u, a, day)
  \/ \E u \in Users, a \in Amounts, invoice \in Refs : SettleDeposit(u, a, invoice)
  \/ \E w \in 1..Len(rows) : RejectWithdrawal(w, "payout")

Admin ==
  \/ \E u \in Users, a \in Amounts, ref \in Refs : AdjustCredit(u, a, ref)
  \/ \E u \in Users, a \in Amounts, ref \in Refs : AdjustDebit(u, a, ref)
  \/ \E w \in 1..Len(rows) : ApproveWithdrawal(w)
  \/ \E w \in 1..Len(rows) : RejectWithdrawal(w, "admin")
  \/ \E u \in Users, flag \in BOOLEAN : SetFrozen(u, flag)
  \/ \E u \in Users, pct \in RevShares : SetRevShare(u, pct)

Next == (\E c \in Conns : Player(c)) \/ House \/ Admin

Spec == Init /\ [][Next]_vars

-----------------------------------------------------------------------------
(* Properties *)

\* Every variable keeps its shape; the two balances are integers here, so that
\* their sign is a claim of its own.
TypeOK ==
  /\ balance \in [Users -> Int]
  /\ affiliateBalance \in [Users -> Int]
  /\ revShare \in [Users -> RevShares]
  /\ frozen \in [Users -> BOOLEAN]
  /\ rows \in Seq(Row)
  /\ open \in [Conns -> Request \cup {Idle}]
  /\ audited \subseteq ({"BALANCE_ADJUSTED", "APPROVED", "REJECTED_AND_REFUNDED"} \X Nat)

\* However bets, tips, withdrawals, sweeps and administrator debits of one
\* account interleave, neither of its balances is ever overdrawn
\* (ledger.service.ts:8-12, and 575-579 for the sweep).
NonNegative ==
  \A u \in Users : balance[u] >= 0 /\ affiliateBalance[u] >= 0

\* What a row says happened to the spendable balance, and to the affiliate one.
Effect(r) ==
  CASE r.type \in {"BET", "WITHDRAWAL"} -> -r.amount
    [] r.type = "AFFILIATE_REWARD"      -> 0
    [] OTHER                            -> r.amount
Earned(r) ==
  CASE r.type = "AFFILIATE_REWARD" -> r.amount
    [] r.type = "AFFILIATE_CLAIM"  -> -r.amount
    [] OTHER                       -> 0

RowsOf(u) == {i \in 1..Len(rows) : rows[i].user = u}

\* Both balances of every wallet equal what its history adds up to: "the wallet
\* balance and the transaction history can never diverge" (ledger.service.ts:4-6).
Reconciled ==
  \A u \in Users :
    /\ balance[u] = MapThenSumSet(LAMBDA i : Effect(rows[i]), RowsOf(u))
    /\ affiliateBalance[u] = MapThenSumSet(LAMBDA i : Earned(rows[i]), RowsOf(u))

\* The event that entitles a credit (a bet won, a bet lost by a referred player,
\* a rejected withdrawal, an invoice, a claim, a day's cashback, an
\* administrator's key) is paid at most once, however often it is retried.
PaidOnce ==
  \A i, j \in 1..Len(rows) : rows[i].key = rows[j].key => i = j \/ rows[i].key \in {NoKey, TipKey}

\* A withdrawal failed exactly when its hold went back to the same player, in
\* full: an approved or still pending one has no refund, a failed one has it.
FailedIffRefunded ==
  \A w \in 1..Len(rows) :
    rows[w].status = "FAILED" <=>
      \E r \in 1..Len(rows) :
        /\ rows[r].key = <<"refund", w>>
        /\ rows[r].type = "DEPOSIT"
        /\ rows[r].user = rows[w].user
        /\ rows[r].amount = rows[w].amount

\* RevShare goes to the player's referrer, never to the player, and never
\* exceeds the stake it was earned on.
RewardsAreEarned ==
  \A i \in 1..Len(rows) :
    rows[i].type = "AFFILIATE_REWARD" =>
      \E b \in 1..(i - 1) :
        /\ rows[i].key = <<"affiliate", b>>
        /\ rows[b].type = "BET"
        /\ rows[i].user = Referrer[rows[b].user]
        /\ rows[i].user # rows[b].user
        /\ rows[i].amount <= rows[b].amount

\* The audit entry of what an administrator did to a row.
DeedsRecorded ==
  \A i \in 1..Len(rows) :
    /\ (\E ref \in Refs : rows[i].key = <<"adj", ref>>)
         => <<"BALANCE_ADJUSTED", i>> \in audited
    /\ rows[i].type = "WITHDRAWAL" /\ rows[i].status = "COMPLETED" /\ rows[i].key = NoKey
         => <<"APPROVED", i>> \in audited

\* What an entry says of its row.
Happened(verb, i) ==
  /\ i \in 1..Len(rows)
  /\ verb = "BALANCE_ADJUSTED" => \E ref \in Refs : rows[i].key = <<"adj", ref>>
  /\ verb = "APPROVED" => rows[i].type = "WITHDRAWAL" /\ rows[i].status = "COMPLETED"
  /\ verb = "REJECTED_AND_REFUNDED" => rows[i].type = "WITHDRAWAL" /\ rows[i].status = "FAILED"

RecordsTrue == \A e \in audited : Happened(e[1], e[2])

\* No administrator moves money or approves a withdrawal unrecorded (audit.service.ts:41-48),
\* and no entry stands for what was not done, or was decided otherwise: an adjustment has its
\* row, an approved withdrawal stays completed, a rejected one failed.
AdminVerbsAudited == DeedsRecorded /\ RecordsTrue

NewRows(u) == {i \in (Len(rows) + 1)..Len(rows') : rows'[i].user = u}

\* No step moves a balance without exactly one new row of that wallet that
\* accounts for it, and no row is ever taken back or rewritten but for the
\* status of a withdrawal (ledger.service.ts:4-6).
EveryMutationPaired ==
  [][/\ Len(rows') >= Len(rows)
     /\ \A i \in 1..Len(rows) : rows'[i] = [rows[i] EXCEPT !.status = rows'[i].status]
     /\ \A u \in Users :
          \/ /\ NewRows(u) = {}
             /\ balance'[u] = balance[u]
             /\ affiliateBalance'[u] = affiliateBalance[u]
          \/ \E i \in NewRows(u) :
               /\ NewRows(u) = {i}
               /\ balance'[u] = balance[u] + Effect(rows'[i])
               /\ affiliateBalance'[u] = affiliateBalance[u] + Earned(rows'[i])]_vars

\* A withdrawal that was approved or refunded stays so: a second verb, a late
\* payout failure or a retry changes nothing (ledger.service.ts:815-869).
SettledIsFinal ==
  [][\A w \in 1..Len(rows) : rows[w].status # "PENDING" => rows'[w] = rows[w]]_vars

\* No transaction that passed the freeze check for u is still running.
Quiet(u) == \A c \in Conns : open[c].op \in {"bet", "tip", "withdraw"} => open[c].user # u

\* Once the transactions that were running when u was frozen are over, the
\* account loses money only to an administrator's debit, until it is unfrozen.
FreezeHoldsOnceDrained ==
  [][\A u \in Users :
       frozen[u] /\ Quiet(u) =>
         /\ frozen'[u] => Quiet(u)'
         /\ balance'[u] < balance[u] =>
              \E i \in NewRows(u) : <<"BALANCE_ADJUSTED", i>> \in audited' \ audited]_vars

\* "Checked inside the transaction so it cannot be raced by a freeze landing
\* mid-transfer" (ledger.service.ts:337-338): no transfer leaves a frozen account.
\* The plain read takes no lock, and the code does not keep this.
NoTipFromFrozen ==
  [][\A u \in Users :
       frozen[u] => ~\E i \in NewRows(u) :
                        rows'[i].type = "WITHDRAWAL" /\ rows'[i].key = TipKey]_vars

\* The ledger implements the bank: a pending WITHDRAWAL row is a hold.
PendingHolds == {[id |-> w, user |-> rows[w].user, amount |-> rows[w].amount] :
                   w \in {i \in 1..Len(rows) : IsPending(i)}}

Abstract == INSTANCE Bank WITH funds <- balance, earned <- affiliateBalance,
                               holds <- PendingHolds

\* Every step of the ledger is one step of the bank, or none: no overdraft, no
\* money made by a player's own move, every hold ended once.
ImplementsBank == Abstract!BankSpec
=============================================================================
