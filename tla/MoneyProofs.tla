----------------------------- MODULE MoneyProofs -----------------------------
(***************************************************************************)
(* Theorems about the money: the ledger that books it, for any number of   *)
(* users, connections, keys, days and rows; the gateways it leaves and     *)
(* enters through, for any number of withdrawals, invoices, handlers of    *)
(* callbacks and failures; and the bets of Crash it is won with, for any   *)
(* number of calls, bets, restarts and points of the curve.                *)
(*                                                                         *)
(* A step of the ledger does one of five things to the table and to the    *)
(* two balances; StepShape says which, and the theorems argue about the    *)
(* five shapes instead of the eighteen actions.                            *)
(*                                                                         *)
(* What moves through a gateway: the types need no more than the bounds.   *)
(* That no hold is released behind a payout, and that the row never says   *)
(* the opposite of what the gateway did, is proved for answers that can be *)
(* read: with a body cut off or not JSON neither holds, as the run with    *)
(* such answers shows.  A hold is released or refused only where the       *)
(* payout can no longer go out - the request was never sent, or the        *)
(* gateway refused or failed it - and each of these is final once          *)
(* createWithdrawal is past its dispatch.  An invoice is credited in the   *)
(* transaction that finds it uncredited, and only by a callback that said  *)
(* it was paid: the stale reads before it decide nothing.                  *)
(*                                                                         *)
(* A bet of Crash is priced below its crash point, and is never both paid  *)
(* and lost.  Neither is inductive.  What carries them is where an         *)
(* undecided bet can be: one that is being placed is in one call alone and *)
(* not yet in the store, an unsettled bet has no trace in the history, and *)
(* a call that credits holds a settled bet which the bust handler did not  *)
(* get.                                                                    *)
(***************************************************************************)
EXTENDS Ledger, MCCashier, CrashRound, SequenceTheorems, TLAPS

(* The shapes of a step *)

\* Nothing is booked.
Untouched == UNCHANGED <<rows, balance, affiliateBalance>>

\* One row, and the effect it declares on its wallet.
Books(r) ==
  /\ rows' = Append(rows, r)
  /\ balance' = [balance EXCEPT ![r.user] = @ + Effect(r)]
  /\ affiliateBalance' = [affiliateBalance EXCEPT ![r.user] = @ + Earned(r)]

\* A tip: what one row takes from u the next gives to v.
BooksTip(u, v, a) ==
  /\ u # v
  /\ DebitGuard(u, a)
  /\ rows' = Append(Append(rows, Posted(u, "WITHDRAWAL", a, TipKey)),
                    Posted(v, "DEPOSIT", a, TipKey))
  /\ balance' = [balance EXCEPT ![u] = @ - a, ![v] = @ + a]
  /\ UNCHANGED affiliateBalance

Approves(w) ==
  /\ IsPending(w)
  /\ rows' = [rows EXCEPT ![w].status = "COMPLETED"]
  /\ UNCHANGED <<balance, affiliateBalance>>

Refunds(w) ==
  /\ IsPending(w)
  /\ rows' = Append([rows EXCEPT ![w].status = "FAILED"], RefundRow(w))
  /\ balance' = [balance EXCEPT ![rows[w].user] = @ + rows[w].amount]
  /\ UNCHANGED affiliateBalance

\* The row pays revenue share for a bet of the table, to the referrer of its player.
EarnedOn(r, b) ==
  /\ r.key = <<"affiliate", b>>
  /\ rows[b].type = "BET"
  /\ r.user = Referrer[rows[b].user]
  /\ r.user # rows[b].user
  /\ r.amount <= rows[b].amount

\* What may be booked as a single row: never a failed one, never a refund, no
\* debit the wallet does not cover, a key that is free, a reward that is earned.
Bookable(r) ==
  /\ r.status # "FAILED"
  /\ \A w : r.key # <<"refund", w>>
  /\ balance[r.user] + Effect(r) >= 0 \/ Effect(r) >= 0
  /\ affiliateBalance[r.user] + Earned(r) >= 0 \/ Earned(r) >= 0
  /\ r.key \in {NoKey, TipKey} \/ ~Used(r.key)
  /\ r.type = "AFFILIATE_REWARD" => \E b \in 1..Len(rows) : EarnedOn(r, b)

Shape ==
  \/ Untouched
  \/ \E r \in Row : Bookable(r) /\ Books(r)
  \/ \E u, v \in Users, a \in Amounts : BooksTip(u, v, a)
  \/ \E w \in 1..Len(rows) : Approves(w)
  \/ \E w \in 1..Len(rows) : Refunds(w)

-----------------------------------------------------------------------------
(* Types *)

\* A request under way is well formed: only a tip has another receiver, and
\* what a bet, a tip or a withdrawal debits is one of the callers' amounts.
OpenOK ==
  \A c \in Conns :
    /\ (open[c].op = "tip") <=> (open[c] # Idle /\ open[c].to # open[c].user)
    /\ open[c].op \in {"bet", "tip", "withdraw"} => open[c].amount \in Amounts

\* The cut of a net loss is a natural number and never exceeds the stake.
LEMMA RewardBound ==
  ASSUME NEW stake \in Nat, NEW prize \in Nat, prize < stake, NEW pct \in 0..100
  PROVE  Reward(stake, prize, pct) \in Nat /\ Reward(stake, prize, pct) <= stake
<1> DEFINE loss == stake - prize
           cut  == loss * pct
<1>1. loss \in Nat /\ loss <= stake
  OBVIOUS
<1>2. cut \in Nat /\ cut <= loss * 100
  BY <1>1
<1>3. cut \div 100 \in Nat /\ cut \div 100 <= loss
  <2> HIDE DEF cut, loss
  <2> QED BY <1>1, <1>2
<1> QED BY <1>1, <1>3 DEF Reward

\* A row as Posted builds it is a row.
LEMMA PostedRow ==
  ASSUME NEW u \in Users, NEW type \in Types, NEW a \in Nat, NEW key \in Key
  PROVE  /\ Posted(u, type, a, key) \in Row
         /\ Posted(u, type, a, key).user = u
         /\ Posted(u, type, a, key).type = type
         /\ Posted(u, type, a, key).amount = a
         /\ Posted(u, type, a, key).key = key
         /\ Posted(u, type, a, key).status = "COMPLETED"
  BY DEF Posted, Row, Statuses

\* A row of the table has a row's fields.
LEMMA RowAt ==
  ASSUME TypeOK, NEW i \in 1..Len(rows)
  PROVE  /\ rows[i] \in Row /\ i \in Nat
         /\ rows[i].user \in Users /\ rows[i].type \in Types /\ rows[i].amount \in Nat
         /\ rows[i].status \in Statuses /\ rows[i].key \in Key
<1>1. rows[i] \in Row
  BY ElementOfSeq DEF TypeOK
<1> QED BY <1>1, LenProperties DEF Row, TypeOK

\* The refund of a row is a row, with the fields of a refund.
LEMMA RefundRowType ==
  ASSUME TypeOK, NEW w \in 1..Len(rows)
  PROVE  /\ RefundRow(w) \in Row
         /\ RefundRow(w).user = rows[w].user /\ RefundRow(w).amount = rows[w].amount
         /\ RefundRow(w).key = <<"refund", w>> /\ RefundRow(w).type = "DEPOSIT"
         /\ RefundRow(w).status = "COMPLETED"
<1>1. rows[w].user \in Users /\ rows[w].amount \in Nat /\ w \in Nat
  BY RowAt
<1>2. <<"refund", w>> \in Key /\ "DEPOSIT" \in Types
  BY <1>1 DEF Key, Types
<1> QED BY <1>1, <1>2, PostedRow DEF RefundRow

\* What each kind of row does to the two balances is an integer.
LEMMA EffectType ==
  ASSUME NEW r \in Row
  PROVE  /\ Effect(r) \in Int /\ Earned(r) \in Int
         /\ r.type \in {"BET", "WITHDRAWAL"} => Effect(r) = -r.amount /\ Earned(r) = 0
         /\ r.type \in {"WIN", "DEPOSIT", "BONUS_CASHBACK"} => Effect(r) = r.amount /\ Earned(r) = 0
         /\ r.type = "AFFILIATE_CLAIM" => Effect(r) = r.amount /\ Earned(r) = -r.amount
         /\ r.type = "AFFILIATE_REWARD" => Effect(r) = 0 /\ Earned(r) = r.amount
  BY DEF Row, Types, Effect, Earned

\* Booking keeps the shape of the table and of the balances.
LEMMA ShapeType ==
  ASSUME TypeOK, Shape
  PROVE  /\ rows' \in Seq(Row)
         /\ balance' \in [Users -> Int]
         /\ affiliateBalance' \in [Users -> Int]
<1> USE DEF TypeOK
<1>1. CASE Untouched
  BY <1>1 DEF Untouched
<1>2. ASSUME NEW r \in Row, Books(r)
      PROVE  rows' \in Seq(Row) /\ balance' \in [Users -> Int] /\ affiliateBalance' \in [Users -> Int]
  <2>1. r.user \in Users
    BY DEF Row
  <2> QED BY <1>2, <2>1, EffectType DEF Books
<1>3. ASSUME NEW u \in Users, NEW v \in Users, NEW a \in Amounts, BooksTip(u, v, a)
      PROVE  rows' \in Seq(Row) /\ balance' \in [Users -> Int] /\ affiliateBalance' \in [Users -> Int]
  <2>1. a \in Nat
    BY AmountsAssumption
  <2>2. Posted(u, "WITHDRAWAL", a, TipKey) \in Row /\ Posted(v, "DEPOSIT", a, TipKey) \in Row
    BY <2>1, PostedRow DEF Types, Key
  <2> QED BY <1>3, <2>1, <2>2 DEF BooksTip
<1>4. ASSUME NEW w \in 1..Len(rows), NEW s \in Statuses
      PROVE  [rows EXCEPT ![w].status = s] \in Seq(Row)
  <2>1. rows[w] \in Row
    BY ElementOfSeq
  <2>2. [rows[w] EXCEPT !.status = s] \in Row
    BY <2>1 DEF Row
  <2>3. [rows EXCEPT ![w].status = s] = [rows EXCEPT ![w] = [rows[w] EXCEPT !.status = s]]
    OBVIOUS
  <2> QED BY <2>2, <2>3, ExceptSeq
<1>5. ASSUME NEW w \in 1..Len(rows), Approves(w)
      PROVE  rows' \in Seq(Row) /\ balance' \in [Users -> Int] /\ affiliateBalance' \in [Users -> Int]
  BY <1>4, <1>5 DEF Approves, Statuses
<1>6. ASSUME NEW w \in 1..Len(rows), Refunds(w)
      PROVE  rows' \in Seq(Row) /\ balance' \in [Users -> Int] /\ affiliateBalance' \in [Users -> Int]
  <2>1. rows[w].user \in Users /\ rows[w].amount \in Nat
    BY RowAt
  <2>2. RefundRow(w) \in Row
    BY RefundRowType
  <2>3. [rows EXCEPT ![w].status = "FAILED"] \in Seq(Row)
    BY <1>4 DEF Statuses
  <2> QED BY <1>6, <2>1, <2>2, <2>3 DEF Refunds
<1> QED BY <1>1, <1>2, <1>3, <1>5, <1>6 DEF Shape

\* A credit posts one bookable row.
LEMMA CreditBooks ==
  ASSUME TypeOK, NEW u \in Users, NEW a \in Nat, NEW key \in Key,
         NEW type \in {"WIN", "DEPOSIT", "BONUS_CASHBACK"},
         Credit(u, type, a, key), \A w : key # <<"refund", w>>
  PROVE  Shape
<1> DEFINE r == Posted(u, type, a, key)
<1>1. r \in Row /\ r.user = u /\ r.type = type /\ r.amount = a /\ r.key = key /\ r.status = "COMPLETED"
  BY PostedRow DEF Types
<1> HIDE DEF r
<1>2. Effect(r) = a /\ Earned(r) = 0
  BY <1>1, EffectType
<1>3. Bookable(r)
  BY <1>1, <1>2 DEF Bookable, Credit, KeyFree
<1>4. affiliateBalance = [affiliateBalance EXCEPT ![u] = @ + 0]
  BY DEF TypeOK
<1>5. Books(r)
  <2>1. rows' = Append(rows, r) /\ balance' = [balance EXCEPT ![u] = @ + a]
    BY DEF Credit, r
  <2>2. affiliateBalance' = affiliateBalance
    BY DEF Credit
  <2> QED BY <2>1, <2>2, <1>1, <1>2, <1>4 DEF Books
<1> QED BY <1>1, <1>3, <1>5 DEF Shape

\* A guarded debit of the spendable balance posts one bookable row.
LEMMA DebitBooks ==
  ASSUME TypeOK, NEW u \in Users, NEW a \in Nat, NEW key \in Key,
         NEW type \in {"BET", "WITHDRAWAL"}, NEW status \in {"PENDING", "COMPLETED"},
         DebitGuard(u, a), key = NoKey \/ ~Used(key), \A w : key # <<"refund", w>>,
         balance' = [balance EXCEPT ![u] = @ - a],
         rows' = Append(rows, [Posted(u, type, a, key) EXCEPT !.status = status]),
         UNCHANGED affiliateBalance
  PROVE  Shape
<1> DEFINE r == [Posted(u, type, a, key) EXCEPT !.status = status]
<1>1. /\ r \in Row /\ r.user = u /\ r.type = type /\ r.amount = a /\ r.key = key
      /\ r.status = status
  BY PostedRow DEF Types, Row, Statuses, Posted
<1>2. rows' = Append(rows, r)
  OBVIOUS
<1> HIDE DEF r
<1>3. Effect(r) = -a /\ Earned(r) = 0
  BY <1>1, EffectType
<1>4. balance[u] \in Int /\ balance[u] >= a
  BY DEF TypeOK, DebitGuard
<1>5. Bookable(r)
  BY <1>1, <1>3, <1>4 DEF Bookable
<1>6. affiliateBalance = [affiliateBalance EXCEPT ![u] = @ + 0]
  BY DEF TypeOK
<1>7. balance' = [balance EXCEPT ![u] = @ + Effect(r)]
  BY <1>3, <1>4 DEF TypeOK
<1>8. Books(r)
  BY <1>1, <1>2, <1>3, <1>6, <1>7 DEF Books
<1> QED BY <1>1, <1>5, <1>8 DEF Shape

\* What a player's transaction does when it commits.
LEMMA PlayerShape ==
  ASSUME TypeOK, OpenOK, NEW c \in Conns, Player(c)
  PROVE  Shape
<1> DEFINE q == open[c]
<1>1. q \in Request \cup {Idle}
  BY DEF TypeOK
<1>2. q.op \in {"bet", "tip", "withdraw", "claim"} =>
        q \in Request /\ q.user \in Users /\ q.to \in Users /\ q.amount \in Nat
  BY <1>1 DEF Request, Idle
<1>3. NoKey \in Key
  BY DEF Key
<1>4. ASSUME \/ \E op \in {"bet", "tip", "withdraw"}, u, to \in Users, a \in Amounts :
                  BeginDebit(c, op, u, to, a)
             \/ \E u \in Users : BeginClaim(c, u)
             \/ Abort(c)
      PROVE  Shape
  BY <1>4 DEF BeginDebit, BeginClaim, Begin, Abort, Shape, Untouched
<1>5. CASE CommitBet(c)
  <2>1. /\ q.op = "bet" /\ DebitGuard(q.user, q.amount)
        /\ balance' = [balance EXCEPT ![q.user] = @ - q.amount]
        /\ rows' = Append(rows, [Posted(q.user, "BET", q.amount, NoKey) EXCEPT !.status = "COMPLETED"])
        /\ UNCHANGED affiliateBalance
    BY <1>5 DEF CommitBet, Posted
  <2> HIDE DEF q
  <2> QED BY <2>1, <1>2, <1>3, DebitBooks DEF NoKey
<1>6. CASE CommitWithdrawal(c)
  <2>1. /\ q.op = "withdraw" /\ DebitGuard(q.user, q.amount)
        /\ balance' = [balance EXCEPT ![q.user] = @ - q.amount]
        /\ rows' = Append(rows, [Posted(q.user, "WITHDRAWAL", q.amount, NoKey) EXCEPT !.status = "PENDING"])
        /\ UNCHANGED affiliateBalance
    BY <1>6 DEF CommitWithdrawal
  <2> HIDE DEF q
  <2> QED BY <2>1, <1>2, <1>3, DebitBooks DEF NoKey
<1>7. CASE CommitTip(c)
  <2>1. q.op = "tip" /\ q.to # q.user /\ q.amount \in Amounts
    BY <1>7, <1>1 DEF CommitTip, OpenOK, Request, Idle
  <2>2. BooksTip(q.user, q.to, q.amount)
    BY <1>7, <2>1 DEF CommitTip, BooksTip, TipCredit
  <2> QED BY <1>2, <2>1, <2>2 DEF Shape
<1>8. CASE CommitClaim(c)
  <2> DEFINE r == Posted(q.user, "AFFILIATE_CLAIM", q.amount, NoKey)
  <2>1. /\ q.op = "claim" /\ affiliateBalance[q.user] >= q.amount
        /\ affiliateBalance' = [affiliateBalance EXCEPT ![q.user] = @ - q.amount]
        /\ balance' = [balance EXCEPT ![q.user] = @ + q.amount]
        /\ rows' = Append(rows, r)
    BY <1>8 DEF CommitClaim, ClaimGuard
  <2>2. q.user \in Users /\ q.amount \in Nat
    BY <1>2, <2>1
  <2>3. /\ r \in Row /\ r.user = q.user /\ r.type = "AFFILIATE_CLAIM" /\ r.amount = q.amount
        /\ r.key = NoKey /\ r.status = "COMPLETED"
    BY <2>2, <1>3, PostedRow DEF Types
  <2> HIDE DEF q, r
  <2>4. Effect(r) = q.amount /\ Earned(r) = -q.amount
    BY <2>3, EffectType
  <2>5. affiliateBalance[q.user] \in Int
    BY <2>2 DEF TypeOK
  <2>6. Bookable(r)
    BY <2>1, <2>2, <2>3, <2>4, <2>5 DEF Bookable, NoKey
  <2>7. affiliateBalance' = [affiliateBalance EXCEPT ![q.user] = @ + Earned(r)]
    BY <2>1, <2>2, <2>4, <2>5
  <2>8. Books(r)
    BY <2>1, <2>3, <2>4, <2>7 DEF Books
  <2> QED BY <2>3, <2>6, <2>8 DEF Shape
<1> QED BY <1>4, <1>5, <1>6, <1>7, <1>8 DEF Player

\* A reward posts one row to the referrer's wallet, earned on the bet.
LEMMA RewardRow ==
  ASSUME TypeOK, NEW b \in 1..Len(rows), NEW prize \in Amounts \cup {0},
         SettleAffiliateReward(b, prize)
  PROVE  \E r \in Row :
           /\ rows' = Append(rows, r) /\ UNCHANGED balance
           /\ affiliateBalance' = [affiliateBalance EXCEPT ![r.user] = @ + r.amount]
           /\ r.type = "AFFILIATE_REWARD" /\ r.key = <<"affiliate", b>> /\ r.status = "COMPLETED"
           /\ EarnedOn(r, b)
<1> DEFINE referrer == Referrer[rows[b].user]
           cut == Reward(rows[b].amount, prize, revShare[referrer])
           r == Posted(referrer, "AFFILIATE_REWARD", cut, <<"affiliate", b>>)
<1>1. rows[b].user \in Users /\ rows[b].amount \in Nat
  BY RowAt
<1>2. referrer \in Users /\ prize < rows[b].amount
  BY <1>1, UsersAssumption DEF SettleAffiliateReward, MayEarn
<1>3. cut \in Nat /\ cut <= rows[b].amount
  <2>1. revShare[referrer] \in RevShares
    BY <1>2 DEF TypeOK
  <2>2. revShare[referrer] \in 0..100
    BY <2>1, RevSharesAssumption
  <2>3. prize \in Nat
    BY AmountsAssumption
  <2> HIDE DEF referrer
  <2> QED BY <1>1, <1>2, <2>2, <2>3, RewardBound
<1>4. <<"affiliate", b>> \in Key
  BY RowAt DEF Key
<1>6. /\ affiliateBalance' = [affiliateBalance EXCEPT ![referrer] = @ + cut]
      /\ rows' = Append(rows, r) /\ UNCHANGED balance
  BY DEF SettleAffiliateReward
<1> HIDE DEF cut, referrer
<1>7. /\ r \in Row /\ r.user = referrer /\ r.type = "AFFILIATE_REWARD" /\ r.amount = cut
      /\ r.key = <<"affiliate", b>> /\ r.status = "COMPLETED"
  <2>1. "AFFILIATE_REWARD" \in Types
    BY DEF Types
  <2>2. referrer \in Users /\ cut \in Nat
    BY <1>2, <1>3
  <2> DEFINE type == "AFFILIATE_REWARD"
             key  == <<"affiliate", b>>
  <2>3. type \in Types /\ key \in Key
    BY <1>4, <2>1
  <2> HIDE DEF type, key
  <2>4. /\ Posted(referrer, type, cut, key) \in Row
        /\ Posted(referrer, type, cut, key).user = referrer
        /\ Posted(referrer, type, cut, key).type = type
        /\ Posted(referrer, type, cut, key).amount = cut
        /\ Posted(referrer, type, cut, key).key = key
        /\ Posted(referrer, type, cut, key).status = "COMPLETED"
    BY <2>2, <2>3, PostedRow
  <2> QED BY <2>4 DEF type, key
<1> HIDE DEF r
<1>8. EarnedOn(r, b)
  <2>1. /\ rows[b].type = "BET" /\ referrer = Referrer[rows[b].user]
        /\ referrer # rows[b].user
    BY DEF SettleAffiliateReward, MayEarn, referrer
  <2> QED BY <1>3, <1>7, <2>1 DEF EarnedOn
<1> QED BY <1>6, <1>7, <1>8

\* Such a row is bookable.
LEMMA RewardShape ==
  ASSUME TypeOK, NEW b \in 1..Len(rows), NEW prize \in Amounts \cup {0},
         SettleAffiliateReward(b, prize)
  PROVE  Shape
<1>1. PICK r \in Row :
        /\ rows' = Append(rows, r) /\ UNCHANGED balance
        /\ affiliateBalance' = [affiliateBalance EXCEPT ![r.user] = @ + r.amount]
        /\ r.type = "AFFILIATE_REWARD" /\ r.key = <<"affiliate", b>> /\ r.status = "COMPLETED"
        /\ EarnedOn(r, b)
  BY RewardRow
<1>2. Effect(r) = 0 /\ Earned(r) = r.amount /\ r.amount \in Nat /\ r.user \in Users
  BY <1>1, EffectType DEF Row
<1>3. ~Used(<<"affiliate", b>>)
  BY DEF SettleAffiliateReward
<1>4. Bookable(r)
  BY <1>1, <1>2, <1>3 DEF Bookable
<1>5. balance = [balance EXCEPT ![r.user] = @ + 0]
  BY <1>2 DEF TypeOK
<1>6. Books(r)
  BY <1>1, <1>2, <1>5 DEF Books
<1> QED BY <1>4, <1>6 DEF Shape

\* Every step has one of the five shapes.
LEMMA StepShape ==
  ASSUME TypeOK, OpenOK, [Next]_vars
  PROVE  Shape
<1>1. CASE UNCHANGED vars
  BY <1>1 DEF vars, Shape, Untouched
<1>2. ASSUME NEW c \in Conns, Player(c) PROVE Shape
  BY <1>2, PlayerShape
<1>3. CASE House
  <2>1. ASSUME NEW b \in 1..Len(rows), NEW prize \in Amounts, ProcessWin(b, prize)
        PROVE  Shape
    <3>1. rows[b].user \in Users /\ prize \in Nat /\ <<"win", b>> \in Key
      BY RowAt, AmountsAssumption DEF Key
    <3> QED BY <2>1, <3>1, CreditBooks DEF ProcessWin
  <2>2. ASSUME NEW b \in 1..Len(rows), NEW prize \in Amounts \cup {0},
               SettleAffiliateReward(b, prize)
        PROVE  Shape
    BY <2>2, RewardShape
  <2>3. ASSUME NEW u \in Users, NEW a \in Amounts, NEW key \in {NoKey} \cup ({"rakeback"} \X Refs),
               AwardBonus(u, a, key)
        PROVE  Shape
    <3>1. a \in Nat /\ key \in Key /\ \A w : key # <<"refund", w>>
      BY AmountsAssumption DEF Key, NoKey
    <3> QED BY <2>3, <3>1, CreditBooks DEF AwardBonus
  <2>4. ASSUME NEW u \in Users, NEW a \in Amounts, NEW day \in Days, CreditCashback(u, a, day)
        PROVE  Shape
    <3>1. a \in Nat /\ <<"cashback", <<u, day>>>> \in Key
      BY AmountsAssumption DEF Key
    <3> QED BY <2>4, <3>1, CreditBooks DEF CreditCashback
  <2>5. ASSUME NEW u \in Users, NEW a \in Amounts, NEW invoice \in Refs, SettleDeposit(u, a, invoice)
        PROVE  Shape
    <3>1. a \in Nat /\ <<"deposit", invoice>> \in Key
      BY AmountsAssumption DEF Key
    <3> QED BY <2>5, <3>1, CreditBooks DEF SettleDeposit
  <2>6. ASSUME NEW w \in 1..Len(rows), RejectWithdrawal(w, "payout")
        PROVE  Shape
    BY <2>6 DEF RejectWithdrawal, Shape, Refunds
  <2> QED BY <1>3, <2>1, <2>2, <2>3, <2>4, <2>5, <2>6 DEF House
<1>4. CASE Admin
  <2>1. ASSUME NEW u \in Users, NEW a \in Amounts, NEW ref \in Refs, AdjustCredit(u, a, ref)
        PROVE  Shape
    <3>1. a \in Nat /\ <<"adj", ref>> \in Key
      BY AmountsAssumption DEF Key
    <3> QED BY <2>1, <3>1, CreditBooks DEF AdjustCredit
  <2>2. ASSUME NEW u \in Users, NEW a \in Amounts, NEW ref \in Refs, AdjustDebit(u, a, ref)
        PROVE  Shape
    <3>1. a \in Nat /\ <<"adj", ref>> \in Key
      BY AmountsAssumption DEF Key
    <3>2. Posted(u, "WITHDRAWAL", a, <<"adj", ref>>)
            = [Posted(u, "WITHDRAWAL", a, <<"adj", ref>>) EXCEPT !.status = "COMPLETED"]
      BY DEF Posted
    <3>3. /\ DebitGuard(u, a) /\ ~Used(<<"adj", ref>>)
          /\ balance' = [balance EXCEPT ![u] = @ - a] /\ UNCHANGED affiliateBalance
          /\ rows' = Append(rows, [Posted(u, "WITHDRAWAL", a, <<"adj", ref>>) EXCEPT !.status = "COMPLETED"])
      BY <2>2, <3>2 DEF AdjustDebit, AdjustDebitRow, KeyFree, NoKey
    <3> QED BY <3>1, <3>3, DebitBooks
  <2>3. ASSUME NEW w \in 1..Len(rows), ApproveWithdrawal(w)
        PROVE  Shape
    BY <2>3 DEF ApproveWithdrawal, Shape, Approves
  <2>4. ASSUME NEW w \in 1..Len(rows), RejectWithdrawal(w, "admin")
        PROVE  Shape
    BY <2>4 DEF RejectWithdrawal, Shape, Refunds
  <2>5. ASSUME \/ \E u \in Users, flag \in BOOLEAN : SetFrozen(u, flag)
               \/ \E u \in Users, pct \in RevShares : SetRevShare(u, pct)
        PROVE  Shape
    BY <2>5 DEF SetFrozen, SetRevShare, Shape, Untouched
  <2> QED BY <1>4, <2>1, <2>2, <2>3, <2>4, <2>5 DEF Admin
<1> QED BY <1>1, <1>2, <1>3, <1>4 DEF Next

-----------------------------------------------------------------------------
(* Type correctness *)

\* What the other variables keep: requests stay well formed, settings stay in range.
LEMMA SettingsStep ==
  ASSUME TypeOK, OpenOK, [Next]_vars
  PROVE  /\ revShare' \in [Users -> RevShares]
         /\ frozen' \in [Users -> BOOLEAN]
         /\ open' \in [Conns -> Request \cup {Idle}]
         /\ OpenOK'
<1> DEFINE Kept == UNCHANGED <<revShare, frozen, open>>
           Goal == /\ revShare' \in [Users -> RevShares]
                   /\ frozen' \in [Users -> BOOLEAN]
                   /\ open' \in [Conns -> Request \cup {Idle}]
                   /\ OpenOK'
<1>1. Kept => Goal
  BY DEF TypeOK, OpenOK
<1>2. ASSUME NEW c \in Conns, NEW q \in Request, open' = [open EXCEPT ![c] = q],
             UNCHANGED <<revShare, frozen>>,
             (q.op = "tip") <=> (q.to # q.user), q.op # "claim" => q.amount \in Amounts
      PROVE  Goal
  <2>1. q # Idle /\ q.op \in {"bet", "tip", "withdraw", "claim"}
    BY DEF Request, Idle
  <2> QED BY <1>2, <2>1 DEF TypeOK, OpenOK
<1>3. ASSUME NEW c \in Conns, open' = [open EXCEPT ![c] = Idle], UNCHANGED <<revShare, frozen>>
      PROVE  Goal
  BY <1>3 DEF TypeOK, OpenOK, Idle
<1>4. CASE UNCHANGED vars
  BY <1>1, <1>4 DEF vars
<1>5. ASSUME NEW c \in Conns, Player(c)
      PROVE  Goal
  <2>1. ASSUME NEW op \in {"bet", "tip", "withdraw"}, NEW u \in Users, NEW to \in Users,
               NEW a \in Amounts, BeginDebit(c, op, u, to, a)
        PROVE  Goal
    <3> DEFINE q == [op |-> op, user |-> u, to |-> to, amount |-> a]
    <3>1. /\ q \in Request
          /\ (q.op = "tip") <=> (q.to # q.user)
          /\ q.amount \in Amounts
      BY <2>1, AmountsAssumption DEF Request, BeginDebit
    <3>2. open' = [open EXCEPT ![c] = q] /\ UNCHANGED <<revShare, frozen>>
      BY <2>1 DEF BeginDebit, Begin
    <3> HIDE DEF q
    <3> QED BY <1>2, <3>1, <3>2
  <2>2. ASSUME NEW u \in Users, BeginClaim(c, u)
        PROVE  Goal
    <3> DEFINE q == [op |-> "claim", user |-> u, to |-> u, amount |-> affiliateBalance[u]]
    <3>1. affiliateBalance[u] \in Nat
      BY <2>2 DEF BeginClaim, TypeOK
    <3>2. q \in Request /\ q.to = q.user /\ q.op = "claim"
      BY <3>1 DEF Request
    <3>3. open' = [open EXCEPT ![c] = q] /\ UNCHANGED <<revShare, frozen>>
      BY <2>2 DEF BeginClaim, Begin
    <3> HIDE DEF q
    <3> QED BY <1>2, <3>2, <3>3
  <2>3. CASE CommitBet(c) \/ CommitTip(c) \/ CommitWithdrawal(c) \/ CommitClaim(c) \/ Abort(c)
    BY <1>3, <2>3 DEF CommitBet, CommitTip, CommitWithdrawal, CommitClaim, Abort
  <2> QED BY <1>5, <2>1, <2>2, <2>3 DEF Player
<1>6. CASE House
  <2>1. Kept
    BY <1>6 DEF House, ProcessWin, SettleAffiliateReward, AwardBonus, CreditCashback,
                SettleDeposit, RejectWithdrawal, Credit, TypeOK
  <2> QED BY <1>1, <2>1
<1>7. CASE Admin
  <2>1. CASE \/ \E u \in Users, a \in Amounts, ref \in Refs : AdjustCredit(u, a, ref)
             \/ \E u \in Users, a \in Amounts, ref \in Refs : AdjustDebit(u, a, ref)
             \/ \E w \in 1..Len(rows) : ApproveWithdrawal(w) \/ RejectWithdrawal(w, "admin")
    BY <1>1, <2>1 DEF AdjustCredit, AdjustDebit, ApproveWithdrawal, RejectWithdrawal, Credit
  <2>2. CASE \/ \E u \in Users, flag \in BOOLEAN : SetFrozen(u, flag)
             \/ \E u \in Users, pct \in RevShares : SetRevShare(u, pct)
    BY <2>2 DEF SetFrozen, SetRevShare, TypeOK, OpenOK
  <2> QED BY <1>7, <2>1, <2>2 DEF Admin
<1> QED BY <1>4, <1>5, <1>6, <1>7 DEF Next

\* What is audited is a verb and a row.
LEMMA AuditedStep ==
  ASSUME TypeOK, [Next]_vars
  PROVE  /\ audited' \subseteq ({"BALANCE_ADJUSTED", "APPROVED", "REJECTED_AND_REFUNDED"} \X Nat)
         /\ audited \subseteq audited'
<1>1. Len(rows) \in Nat
  BY LenProperties DEF TypeOK
<1>2. CASE UNCHANGED audited
  BY <1>2 DEF TypeOK
<1>3. ASSUME NEW verb \in {"BALANCE_ADJUSTED", "APPROVED", "REJECTED_AND_REFUNDED"},
             NEW entry \in Nat, Record(verb, entry)
      PROVE  /\ audited' \subseteq ({"BALANCE_ADJUSTED", "APPROVED", "REJECTED_AND_REFUNDED"} \X Nat)
             /\ audited \subseteq audited'
  BY <1>3 DEF Record, TypeOK
<1>4. CASE \E c \in Conns : Player(c)
  BY <1>2, <1>4 DEF Player, BeginDebit, BeginClaim, Begin, CommitBet, CommitTip,
                    CommitWithdrawal, CommitClaim, Abort
<1>5. CASE House
  BY <1>2, <1>5 DEF House, ProcessWin, SettleAffiliateReward, AwardBonus, CreditCashback,
                    SettleDeposit, RejectWithdrawal
<1>6. CASE Admin
  <2>1. CASE \/ \E u \in Users, a \in Amounts, ref \in Refs : AdjustCredit(u, a, ref)
             \/ \E u \in Users, a \in Amounts, ref \in Refs : AdjustDebit(u, a, ref)
    <3>1. Record("BALANCE_ADJUSTED", Len(rows) + 1)
      BY <2>1 DEF AdjustCredit, AdjustDebit
    <3>2. Len(rows) + 1 \in Nat
      BY <1>1
    <3> QED BY <1>3, <3>1, <3>2
  <2>2. CASE \E w \in 1..Len(rows) : ApproveWithdrawal(w) \/ RejectWithdrawal(w, "admin")
    BY <1>1, <1>3, <2>2 DEF ApproveWithdrawal, RejectWithdrawal
  <2>3. CASE \/ \E u \in Users, flag \in BOOLEAN : SetFrozen(u, flag)
             \/ \E u \in Users, pct \in RevShares : SetRevShare(u, pct)
    BY <1>2, <2>3 DEF SetFrozen, SetRevShare
  <2> QED BY <1>6, <2>1, <2>2, <2>3 DEF Admin
<1> QED BY <1>2, <1>4, <1>5, <1>6 DEF Next, vars

\* The empty ledger is well typed.
LEMMA InitType == Init => TypeOK /\ OpenOK
<1> SUFFICES ASSUME Init PROVE TypeOK /\ OpenOK
  OBVIOUS
<1>1. TypeOK
  BY EmptySeq DEF Init, TypeOK
<1>2. OpenOK
  BY DEF Init, OpenOK, Idle
<1> QED BY <1>1, <1>2

\* Every variable keeps its type, and requests stay well formed, in every step.
THEOREM TypeCorrect == Spec => [](TypeOK /\ OpenOK)
<1>1. TypeOK /\ OpenOK /\ [Next]_vars => (TypeOK /\ OpenOK)'
  <2> SUFFICES ASSUME TypeOK, OpenOK, [Next]_vars PROVE (TypeOK /\ OpenOK)'
    OBVIOUS
  <2> QED BY StepShape, ShapeType, SettingsStep, AuditedStep DEF TypeOK
<1> QED BY InitType, <1>1, PTL DEF Spec

-----------------------------------------------------------------------------
(* No overdraft *)

\* A guarded debit, a sweep of what was read and every credit leave both
\* balances of every wallet at zero or above.
THEOREM NeverOverdrawn == Spec => []NonNegative
<1>1. Init => NonNegative
  BY DEF Init, NonNegative
<1>2. (TypeOK /\ OpenOK) /\ NonNegative /\ [Next]_vars => NonNegative'
  <2> SUFFICES ASSUME TypeOK, OpenOK, NonNegative, [Next]_vars, NEW u \in Users
               PROVE  balance'[u] >= 0 /\ affiliateBalance'[u] >= 0
    BY DEF NonNegative
  <2>1. balance[u] \in Int /\ affiliateBalance[u] \in Int
    BY DEF TypeOK
  <2>2. balance[u] >= 0 /\ affiliateBalance[u] >= 0
    BY DEF NonNegative
  <2>3. CASE Untouched
    BY <2>2, <2>3 DEF Untouched
  <2>4. ASSUME NEW r \in Row, Bookable(r), Books(r)
        PROVE  balance'[u] >= 0 /\ affiliateBalance'[u] >= 0
    <3>1. Effect(r) \in Int /\ Earned(r) \in Int
      BY EffectType
    <3>2. CASE r.user = u
      <4>1. balance'[u] = balance[u] + Effect(r)
        BY <2>4, <3>2 DEF Books, TypeOK
      <4>2. affiliateBalance'[u] = affiliateBalance[u] + Earned(r)
        BY <2>4, <3>2 DEF Books, TypeOK
      <4> QED BY <2>1, <2>2, <2>4, <3>1, <3>2, <4>1, <4>2 DEF Bookable
    <3>3. CASE r.user # u
      BY <2>2, <2>4, <3>3 DEF Books, TypeOK
    <3> QED BY <3>2, <3>3
  <2>5. ASSUME NEW v \in Users, NEW w \in Users, NEW a \in Amounts, BooksTip(v, w, a)
        PROVE  balance'[u] >= 0 /\ affiliateBalance'[u] >= 0
    <3>1. a \in Nat
      BY AmountsAssumption
    <3>2. affiliateBalance' = affiliateBalance /\ v # w /\ balance[v] >= a
      BY <2>5 DEF BooksTip, DebitGuard
    <3>3. balance' = [balance EXCEPT ![v] = @ - a, ![w] = @ + a]
      BY <2>5 DEF BooksTip
    <3>4. balance'[u] = IF u = v THEN balance[u] - a ELSE IF u = w THEN balance[u] + a ELSE balance[u]
      BY <3>2, <3>3 DEF TypeOK
    <3> QED BY <2>1, <2>2, <3>1, <3>2, <3>4
  <2>6. ASSUME NEW w \in 1..Len(rows), Approves(w) \/ Refunds(w)
        PROVE  balance'[u] >= 0 /\ affiliateBalance'[u] >= 0
    <3>1. rows[w].user \in Users /\ rows[w].amount \in Nat
      BY RowAt
    <3> QED BY <2>1, <2>2, <2>6, <3>1 DEF Approves, Refunds, TypeOK
  <2> QED BY StepShape, <2>3, <2>4, <2>5, <2>6 DEF Shape
<1> QED BY TypeCorrect, <1>1, <1>2, PTL DEF Spec

-----------------------------------------------------------------------------
(* History *)

\* What a step may do to the table: rows keep their place and all but the status
\* of a pending withdrawal; what is added is known.
LEMMA RowsStep ==
  ASSUME TypeOK, OpenOK, [Next]_vars
  PROVE  /\ Len(rows) \in Nat /\ Len(rows') \in Nat /\ Len(rows') >= Len(rows)
         /\ \A i \in 1..Len(rows) : rows'[i] = [rows[i] EXCEPT !.status = rows'[i].status]
         /\ \A i \in 1..Len(rows) : rows[i].status # "PENDING" => rows'[i] = rows[i]
<1> DEFINE Goal == /\ Len(rows) \in Nat /\ Len(rows') \in Nat /\ Len(rows') >= Len(rows)
                   /\ \A i \in 1..Len(rows) : rows'[i] = [rows[i] EXCEPT !.status = rows'[i].status]
                   /\ \A i \in 1..Len(rows) : rows[i].status # "PENDING" => rows'[i] = rows[i]
<1>1. rows \in Seq(Row) /\ Len(rows) \in Nat
  BY LenProperties DEF TypeOK
<1>2. ASSUME NEW i \in 1..Len(rows)
      PROVE  rows[i] = [rows[i] EXCEPT !.status = rows[i].status]
  BY RowAt DEF Row
<1>3. CASE Untouched
  BY <1>1, <1>2, <1>3 DEF Untouched
<1>4. ASSUME NEW r \in Row, rows' = Append(rows, r)
      PROVE  Goal
  BY <1>1, <1>2, <1>4
<1>5. ASSUME NEW u \in Users, NEW v \in Users, NEW a \in Amounts, BooksTip(u, v, a)
      PROVE  Goal
  <2> DEFINE r == Posted(u, "WITHDRAWAL", a, TipKey)
             s == Posted(v, "DEPOSIT", a, TipKey)
  <2>1. r \in Row /\ s \in Row
    BY PostedRow, AmountsAssumption DEF Types, Key
  <2>2. rows' = Append(Append(rows, r), s)
    BY <1>5 DEF BooksTip
  <2> HIDE DEF r, s
  <2> QED BY <1>1, <1>2, <2>1, <2>2
<1>6. ASSUME NEW w \in 1..Len(rows), NEW st \in Statuses, IsPending(w)
      PROVE  LET t == [rows EXCEPT ![w].status = st]
             IN  /\ t \in Seq(Row) /\ Len(t) = Len(rows)
                 /\ \A i \in 1..Len(rows) : t[i] = [rows[i] EXCEPT !.status = t[i].status]
                 /\ \A i \in 1..Len(rows) : rows[i].status # "PENDING" => t[i] = rows[i]
  <2> DEFINE e == [rows[w] EXCEPT !.status = st]
             t == [rows EXCEPT ![w] = e]
  <2>1. rows[w] \in Row /\ e \in Row /\ e.status = st
    BY RowAt DEF Row
  <2>2. [rows EXCEPT ![w].status = st] = t
    OBVIOUS
  <2>3. e = [rows[w] EXCEPT !.status = e.status]
    BY <2>1
  <2>4. rows[w].status = "PENDING"
    BY <1>6 DEF IsPending
  <2> HIDE DEF e
  <2>5. t \in Seq(Row) /\ Len(t) = Len(rows)
        /\ \A i \in 1..Len(rows) : t[i] = IF i = w THEN e ELSE rows[i]
    BY <1>1, <2>1, ExceptSeq
  <2> HIDE DEF t
  <2>6. /\ \A i \in 1..Len(rows) : t[i] = [rows[i] EXCEPT !.status = t[i].status]
        /\ \A i \in 1..Len(rows) : rows[i].status # "PENDING" => t[i] = rows[i]
    BY <1>2, <2>3, <2>4, <2>5
  <2> QED BY <2>2, <2>5, <2>6
<1>7. ASSUME NEW w \in 1..Len(rows), Approves(w)
      PROVE  Goal
  <2> DEFINE t == [rows EXCEPT ![w].status = "COMPLETED"]
  <2>1. rows' = t /\ IsPending(w)
    BY <1>7 DEF Approves
  <2>2. /\ t \in Seq(Row) /\ Len(t) = Len(rows)
        /\ \A i \in 1..Len(rows) : t[i] = [rows[i] EXCEPT !.status = t[i].status]
        /\ \A i \in 1..Len(rows) : rows[i].status # "PENDING" => t[i] = rows[i]
    BY <1>6, <2>1 DEF Statuses
  <2> HIDE DEF t
  <2> QED BY <1>1, <2>1, <2>2
<1>8. ASSUME NEW w \in 1..Len(rows), Refunds(w)
      PROVE  Goal
  <2> DEFINE t == [rows EXCEPT ![w].status = "FAILED"]
  <2>1. RefundRow(w) \in Row
    BY RefundRowType
  <2>2. rows' = Append(t, RefundRow(w))
    BY <1>8 DEF Refunds
  <2>3. /\ t \in Seq(Row) /\ Len(t) = Len(rows)
        /\ \A i \in 1..Len(rows) : t[i] = [rows[i] EXCEPT !.status = t[i].status]
        /\ \A i \in 1..Len(rows) : rows[i].status # "PENDING" => t[i] = rows[i]
    BY <1>6, <1>8 DEF Refunds, Statuses
  <2> HIDE DEF t
  <2> QED BY <1>1, <2>1, <2>2, <2>3
<1> QED BY StepShape, <1>3, <1>4, <1>5, <1>7, <1>8 DEF Shape, Books

\* A withdrawal that was approved or refunded stays as it is.
THEOREM SettledStays == Spec => SettledIsFinal
<1>1. (TypeOK /\ OpenOK) /\ [Next]_vars =>
        [\A w \in 1..Len(rows) : rows[w].status # "PENDING" => rows'[w] = rows[w]]_vars
  BY RowsStep
<1> QED BY TypeCorrect, <1>1, PTL DEF Spec, SettledIsFinal

-----------------------------------------------------------------------------
(* Keys: nothing is paid twice, a failed withdrawal is the refunded one *)

\* A table in which keys are unique and refunds answer failed withdrawals: the
\* second part is what keeps a refund's key free while its withdrawal is pending.
KeysOK(s) ==
  /\ \A i, j \in 1..Len(s) : s[i].key = s[j].key => i = j \/ s[i].key \in {NoKey, TipKey}
  /\ \A r \in 1..Len(s), w \in Nat :
       s[r].key = <<"refund", w>> =>
         /\ w \in 1..Len(s) /\ s[w].status = "FAILED"
         /\ s[r].type = "DEPOSIT" /\ s[r].user = s[w].user /\ s[r].amount = s[w].amount
  /\ \A w \in 1..Len(s) : s[w].status = "FAILED" => \E r \in 1..Len(s) : s[r].key = <<"refund", w>>

\* What Append does, place by place.
LEMMA AppendAt ==
  ASSUME NEW s \in Seq(Row), NEW r \in Row
  PROVE  /\ Append(s, r) \in Seq(Row) /\ Len(s) \in Nat /\ Len(Append(s, r)) = Len(s) + 1
         /\ \A i \in 1..Len(s) : Append(s, r)[i] = s[i]
         /\ Append(s, r)[Len(s) + 1] = r
  OBVIOUS

\* A new row with a free key that is no refund, and not failed, keeps the keys right.
LEMMA KeysAppend ==
  ASSUME NEW s \in Seq(Row), KeysOK(s), NEW r \in Row, r.status # "FAILED",
         \A w : r.key # <<"refund", w>>,
         r.key \in {NoKey, TipKey} \/ \A i \in 1..Len(s) : s[i].key # r.key
  PROVE  KeysOK(Append(s, r))
<1> DEFINE t == Append(s, r)
           n == Len(s) + 1
<1>1. /\ Len(s) \in Nat /\ Len(t) = n /\ n \in Nat /\ n > Len(s)
      /\ \A i \in 1..Len(s) : t[i] = s[i]
      /\ t[n] = r
  BY AppendAt
<1>2. \A i \in 1..n : i \in 1..Len(s) \/ i = n
  BY <1>1
<1>3. 1..Len(s) \subseteq 1..n
  BY <1>1
<1> HIDE DEF t, n
<1>4. \A i, j \in 1..n : t[i].key = t[j].key => i = j \/ t[i].key \in {NoKey, TipKey}
  BY <1>1, <1>2 DEF KeysOK
<1>5. ASSUME NEW q \in 1..n, NEW w \in Nat, t[q].key = <<"refund", w>>
      PROVE  /\ w \in 1..n /\ t[w].status = "FAILED"
             /\ t[q].type = "DEPOSIT" /\ t[q].user = t[w].user /\ t[q].amount = t[w].amount
  <2>1. q \in 1..Len(s) /\ t[q] = s[q]
    BY <1>1, <1>2, <1>5
  <2>2. /\ w \in 1..Len(s) /\ s[w].status = "FAILED"
        /\ s[q].type = "DEPOSIT" /\ s[q].user = s[w].user /\ s[q].amount = s[w].amount
    BY <1>5, <2>1 DEF KeysOK
  <2> QED BY <1>1, <1>3, <2>1, <2>2
<1>6. ASSUME NEW w \in 1..n, t[w].status = "FAILED"
      PROVE  \E q \in 1..n : t[q].key = <<"refund", w>>
  <2>1. w \in 1..Len(s) /\ s[w].status = "FAILED"
    BY <1>1, <1>2, <1>6
  <2>2. PICK q \in 1..Len(s) : s[q].key = <<"refund", w>>
    BY <2>1 DEF KeysOK
  <2> QED BY <1>1, <1>3, <2>2
<1>7. KeysOK(t)
  BY ZenonT(60), <1>1, <1>4, <1>5, <1>6 DEF KeysOK
<1> QED BY <1>7 DEF t

\* Approving changes one status, from pending.
LEMMA KeysApprove ==
  ASSUME TypeOK, KeysOK(rows), NEW w \in 1..Len(rows), Approves(w)
  PROVE  KeysOK(rows')
<1> DEFINE e == [rows[w] EXCEPT !.status = "COMPLETED"]
<1>1. /\ e \in Row /\ e.status = "COMPLETED" /\ e.key = rows[w].key /\ e.type = rows[w].type
      /\ e.user = rows[w].user /\ e.amount = rows[w].amount /\ rows[w].status = "PENDING"
  BY RowAt DEF Row, Statuses, Approves, IsPending
<1>2. rows' = [rows EXCEPT ![w] = e]
  BY DEF Approves
<1> HIDE DEF e
<1>3. /\ Len(rows') = Len(rows)
      /\ \A i \in 1..Len(rows) : rows'[i] = IF i = w THEN e ELSE rows[i]
  BY <1>1, <1>2, ExceptSeq DEF TypeOK
<1>4. \A i \in 1..Len(rows) :
        /\ rows'[i].key = rows[i].key /\ rows'[i].type = rows[i].type
        /\ rows'[i].user = rows[i].user /\ rows'[i].amount = rows[i].amount
        /\ rows'[i].status = "FAILED" <=> rows[i].status = "FAILED"
  BY <1>1, <1>3
<1> DEFINE t == rows'
<1>5. /\ Len(t) = Len(rows)
      /\ \A i \in 1..Len(rows) :
           /\ t[i].key = rows[i].key /\ t[i].type = rows[i].type
           /\ t[i].user = rows[i].user /\ t[i].amount = rows[i].amount
           /\ t[i].status = "FAILED" <=> rows[i].status = "FAILED"
  BY <1>3, <1>4
<1> HIDE DEF t
<1>6. \A i, j \in 1..Len(t) : t[i].key = t[j].key => i = j \/ t[i].key \in {NoKey, TipKey}
  BY <1>5 DEF KeysOK
<1>7. ASSUME NEW q \in 1..Len(t), NEW v \in Nat, t[q].key = <<"refund", v>>
      PROVE  /\ v \in 1..Len(t) /\ t[v].status = "FAILED"
             /\ t[q].type = "DEPOSIT" /\ t[q].user = t[v].user /\ t[q].amount = t[v].amount
  <2>1. q \in 1..Len(rows) /\ rows[q].key = <<"refund", v>>
    BY <1>5, <1>7
  <2>2. /\ v \in 1..Len(rows) /\ rows[v].status = "FAILED"
        /\ rows[q].type = "DEPOSIT" /\ rows[q].user = rows[v].user
        /\ rows[q].amount = rows[v].amount
    BY <2>1 DEF KeysOK
  <2> QED BY <1>5, <2>1, <2>2
<1>8. ASSUME NEW v \in 1..Len(t), t[v].status = "FAILED"
      PROVE  \E q \in 1..Len(t) : t[q].key = <<"refund", v>>
  <2>1. v \in 1..Len(rows) /\ rows[v].status = "FAILED"
    BY <1>5, <1>8
  <2>2. PICK q \in 1..Len(rows) : rows[q].key = <<"refund", v>>
    BY <2>1 DEF KeysOK
  <2>3. q \in 1..Len(t) /\ t[q].key = <<"refund", v>>
    BY <1>5, <2>2
  <2> QED BY <2>3
<1>9. KeysOK(t)
  BY <1>6, <1>7, <1>8 DEF KeysOK
<1> QED BY <1>9 DEF t

\* Rejecting marks a pending withdrawal failed and appends its refund.
LEMMA KeysReject ==
  ASSUME TypeOK, KeysOK(rows), NEW w \in 1..Len(rows), Refunds(w)
  PROVE  KeysOK(rows')
<1> DEFINE e == [rows[w] EXCEPT !.status = "FAILED"]
           s == [rows EXCEPT ![w] = e]
           r == RefundRow(w)
           n == Len(rows) + 1
<1>1. /\ e \in Row /\ e.status = "FAILED" /\ e.key = rows[w].key /\ e.type = rows[w].type
      /\ e.user = rows[w].user /\ e.amount = rows[w].amount /\ rows[w].status = "PENDING"
      /\ w \in Nat
  BY RowAt DEF Row, Statuses, Refunds, IsPending
<1>2. /\ r \in Row /\ r.user = rows[w].user /\ r.amount = rows[w].amount
      /\ r.key = <<"refund", w>> /\ r.type = "DEPOSIT" /\ r.status = "COMPLETED"
  BY RefundRowType
<1>3. rows' = Append(s, r)
  BY DEF Refunds
<1> HIDE DEF e, r
<1>4. /\ s \in Seq(Row) /\ Len(s) = Len(rows)
      /\ \A i \in 1..Len(rows) : s[i] = IF i = w THEN e ELSE rows[i]
  BY <1>1, ExceptSeq DEF TypeOK
<1> HIDE DEF s
<1>5. /\ Len(rows) \in Nat /\ Len(rows') = n /\ n \in Nat /\ n > Len(rows)
      /\ \A i \in 1..Len(rows) : rows'[i] = IF i = w THEN e ELSE rows[i]
      /\ rows'[n] = r
  BY <1>2, <1>3, <1>4, AppendAt
<1>6. (\A i \in 1..n : i \in 1..Len(rows) \/ i = n) /\ 1..Len(rows) \subseteq 1..n /\ n \in 1..n
  BY <1>5
<1> HIDE DEF n
<1>7. /\ \A i \in 1..Len(rows) :
           /\ rows'[i].key = rows[i].key /\ rows'[i].type = rows[i].type
           /\ rows'[i].user = rows[i].user /\ rows'[i].amount = rows[i].amount
           /\ rows'[i].status = "FAILED" <=> (i = w \/ rows[i].status = "FAILED")
  BY <1>1, <1>5
<1>8. \A i \in 1..Len(rows) : rows[i].key # r.key
  BY <1>1, <1>2 DEF KeysOK
<1>9. \A i, j \in 1..n : rows'[i].key = rows'[j].key => i = j \/ rows'[i].key \in {NoKey, TipKey}
  BY <1>5, <1>6, <1>7, <1>8 DEF KeysOK
<1>10. ASSUME NEW q \in 1..n, NEW v \in Nat, rows'[q].key = <<"refund", v>>
       PROVE  /\ v \in 1..n /\ rows'[v].status = "FAILED"
              /\ rows'[q].type = "DEPOSIT" /\ rows'[q].user = rows'[v].user
              /\ rows'[q].amount = rows'[v].amount
  <2>1. CASE q = n
    <3>1. v = w
      BY <1>2, <1>5, <1>10, <2>1
    <3> QED BY <1>2, <1>5, <1>6, <1>7, <2>1, <3>1
  <2>2. CASE q \in 1..Len(rows)
    <3>1. rows[q].key = <<"refund", v>>
      BY <1>7, <1>10, <2>2
    <3>2. /\ v \in 1..Len(rows) /\ rows[v].status = "FAILED"
          /\ rows[q].type = "DEPOSIT" /\ rows[q].user = rows[v].user
          /\ rows[q].amount = rows[v].amount
      BY <2>2, <3>1 DEF KeysOK
    <3> QED BY <1>6, <1>7, <2>2, <3>2
  <2> QED BY <1>6, <2>1, <2>2
<1>11. ASSUME NEW v \in 1..n, rows'[v].status = "FAILED"
       PROVE  \E q \in 1..n : rows'[q].key = <<"refund", v>>
  <2>1. CASE v = w
    BY <1>2, <1>5, <1>6, <2>1
  <2>2. CASE v # w
    <3>1. v \in 1..Len(rows) /\ rows[v].status = "FAILED"
      BY <1>2, <1>5, <1>6, <1>7, <1>11, <2>2
    <3>2. PICK q \in 1..Len(rows) : rows[q].key = <<"refund", v>>
      BY <3>1 DEF KeysOK
    <3> QED BY <1>6, <1>7, <3>2
  <2> QED BY <2>1, <2>2
<1>12. Len(rows') = n
  BY <1>5
<1> DEFINE t == rows'
<1>13. KeysOK(t)
  BY <1>9, <1>10, <1>11, <1>12 DEF KeysOK
<1> QED BY <1>13

\* Every step keeps the keys right.
LEMMA KeysStep ==
  ASSUME TypeOK, OpenOK, KeysOK(rows), [Next]_vars
  PROVE  KeysOK(rows')
<1>1. rows \in Seq(Row)
  BY DEF TypeOK
<1>2. CASE Untouched
  BY <1>2 DEF Untouched
<1>3. ASSUME NEW r \in Row, Bookable(r), Books(r)
      PROVE  KeysOK(rows')
  <2>1. r.key \in {NoKey, TipKey} \/ \A i \in 1..Len(rows) : rows[i].key # r.key
    BY <1>3 DEF Bookable, Used
  <2> QED BY <1>1, <1>3, <2>1, KeysAppend DEF Bookable, Books
<1>4. ASSUME NEW u \in Users, NEW v \in Users, NEW a \in Amounts, BooksTip(u, v, a)
      PROVE  KeysOK(rows')
  <2> DEFINE r == Posted(u, "WITHDRAWAL", a, TipKey)
             s == Posted(v, "DEPOSIT", a, TipKey)
  <2>1. /\ r \in Row /\ r.status # "FAILED" /\ r.key = TipKey
        /\ s \in Row /\ s.status # "FAILED" /\ s.key = TipKey
    BY PostedRow, AmountsAssumption DEF Types, Key
  <2>2. rows' = Append(Append(rows, r), s)
    BY <1>4 DEF BooksTip
  <2>3. \A w : TipKey # <<"refund", w>>
    BY DEF TipKey
  <2> HIDE DEF r, s
  <2>4. KeysOK(Append(rows, r)) /\ Append(rows, r) \in Seq(Row)
    BY <1>1, <2>1, <2>3, KeysAppend, AppendAt
  <2> QED BY <2>1, <2>2, <2>3, <2>4, KeysAppend
<1> QED BY StepShape, <1>2, <1>3, <1>4, KeysApprove, KeysReject DEF Shape

\* Keys are right in every reachable ledger.
LEMMA KeysInvariant == Spec => []KeysOK(rows)
<1>1. Init => KeysOK(rows)
  BY DEF Init, KeysOK
<1>2. (TypeOK /\ OpenOK) /\ KeysOK(rows) /\ [Next]_vars => KeysOK(rows)'
  BY KeysStep
<1> QED BY TypeCorrect, <1>1, <1>2, PTL DEF Spec

\* No event pays twice: a key that entitles a credit is in the table at most
\* once, whatever was retried and however the calls interleaved.
THEOREM NoDoublePay == Spec => []PaidOnce
<1>1. KeysOK(rows) => PaidOnce
  BY DEF KeysOK, PaidOnce
<1> QED BY KeysInvariant, <1>1, PTL

\* A withdrawal is FAILED exactly when its hold went back to its owner in full.
THEOREM RefundedExactly == Spec => []FailedIffRefunded
<1>1. TypeOK /\ KeysOK(rows) => FailedIffRefunded
  <2> SUFFICES ASSUME TypeOK, KeysOK(rows), NEW w \in 1..Len(rows)
               PROVE  rows[w].status = "FAILED" <=>
                        \E r \in 1..Len(rows) :
                          /\ rows[r].key = <<"refund", w>>
                          /\ rows[r].type = "DEPOSIT"
                          /\ rows[r].user = rows[w].user
                          /\ rows[r].amount = rows[w].amount
    BY DEF FailedIffRefunded
  <2>1. w \in Nat
    BY RowAt
  <2> QED BY <2>1 DEF KeysOK
<1> QED BY TypeCorrect, KeysInvariant, <1>1, PTL

-----------------------------------------------------------------------------
(* History and balances move together *)

\* The rows a wallet gains when one row is appended.
LEMMA OneNewRow ==
  ASSUME NEW n \in Nat, Len(rows) = n, Len(rows') = n + 1, NEW u \in Users
  PROVE  NewRows(u) = IF rows'[n + 1].user = u THEN {n + 1} ELSE {}
<1>1. \A i : i \in (n + 1)..(n + 1) <=> i = n + 1
  OBVIOUS
<1> QED BY <1>1 DEF NewRows

\* A wallet gains one row and what it says, or nothing.
LEMMA PairedStep ==
  ASSUME TypeOK, OpenOK, [Next]_vars, NEW u \in Users
  PROVE  \/ /\ NewRows(u) = {}
            /\ balance'[u] = balance[u]
            /\ affiliateBalance'[u] = affiliateBalance[u]
         \/ \E i \in NewRows(u) :
              /\ NewRows(u) = {i}
              /\ balance'[u] = balance[u] + Effect(rows'[i])
              /\ affiliateBalance'[u] = affiliateBalance[u] + Earned(rows'[i])
<1> DEFINE n == Len(rows)
           Nothing == /\ NewRows(u) = {}
                      /\ balance'[u] = balance[u]
                      /\ affiliateBalance'[u] = affiliateBalance[u]
           One(i) == /\ NewRows(u) = {i}
                     /\ balance'[u] = balance[u] + Effect(rows'[i])
                     /\ affiliateBalance'[u] = affiliateBalance[u] + Earned(rows'[i])
<1>1. /\ rows \in Seq(Row) /\ n \in Nat
      /\ balance \in [Users -> Int] /\ affiliateBalance \in [Users -> Int]
      /\ balance[u] \in Int /\ affiliateBalance[u] \in Int
  BY LenProperties DEF TypeOK
<1>2. ASSUME Len(rows') = n PROVE NewRows(u) = {}
  BY <1>1, <1>2 DEF NewRows
<1>3. ASSUME Untouched
      PROVE  Nothing
  BY <1>2, <1>3 DEF Untouched
<1>4. ASSUME NEW r \in Row, Books(r)
      PROVE  Nothing \/ One(n + 1)
  <2>1. Len(rows') = n + 1 /\ rows'[n + 1] = r
    BY <1>1, <1>4, AppendAt DEF Books
  <2>2. NewRows(u) = IF r.user = u THEN {n + 1} ELSE {}
    BY <1>1, <2>1, OneNewRow
  <2>3. r.user \in Users /\ Effect(r) \in Int /\ Earned(r) \in Int
    BY EffectType DEF Row
  <2>4. CASE r.user = u
    <3>1. /\ balance'[u] = balance[u] + Effect(r)
          /\ affiliateBalance'[u] = affiliateBalance[u] + Earned(r)
      BY <1>1, <1>4, <2>3, <2>4 DEF Books
    <3> QED BY <2>1, <2>2, <2>4, <3>1
  <2>5. CASE r.user # u
    <3>1. balance'[u] = balance[u] /\ affiliateBalance'[u] = affiliateBalance[u]
      BY <1>1, <1>4, <2>3, <2>5 DEF Books
    <3> QED BY <2>2, <2>5, <3>1
  <2> QED BY <2>4, <2>5
<1>5. ASSUME NEW v \in Users, NEW w \in Users, NEW a \in Amounts, BooksTip(v, w, a)
      PROVE  Nothing \/ One(n + 1) \/ One(n + 2)
  <2> DEFINE r == Posted(v, "WITHDRAWAL", a, TipKey)
             s == Posted(w, "DEPOSIT", a, TipKey)
  <2>1. a \in Nat /\ v # w
    BY <1>5, AmountsAssumption DEF BooksTip
  <2>2. /\ r \in Row /\ r.user = v /\ r.type = "WITHDRAWAL" /\ r.amount = a
        /\ s \in Row /\ s.user = w /\ s.type = "DEPOSIT" /\ s.amount = a
    BY <2>1, PostedRow DEF Types, Key
  <2>3. rows' = Append(Append(rows, r), s)
    BY <1>5 DEF BooksTip
  <2> HIDE DEF r, s
  <2>4. Len(rows') = n + 2 /\ rows'[n + 1] = r /\ rows'[n + 2] = s
    <3> DEFINE t == Append(rows, r)
    <3>1. t \in Seq(Row) /\ Len(t) = n + 1 /\ t[n + 1] = r /\ n + 1 \in 1..(n + 1)
      BY <1>1, <2>2, AppendAt
    <3>2. rows' = Append(t, s)
      BY <2>3
    <3> HIDE DEF t
    <3>3. Len(rows') = Len(t) + 1 /\ rows'[Len(t) + 1] = s /\ rows'[n + 1] = t[n + 1]
      BY <2>2, <3>1, <3>2, AppendAt
    <3> QED BY <1>1, <3>1, <3>3
  <2>5. NewRows(u) = {i \in {n + 1, n + 2} : rows'[i].user = u}
    <3>1. (n + 1)..(n + 2) = {n + 1, n + 2}
      BY <1>1
    <3> QED BY <2>4, <3>1 DEF NewRows
  <2>6. affiliateBalance' = affiliateBalance
    BY <1>5 DEF BooksTip
  <2>7. balance'[u] = IF u = v THEN balance[u] - a ELSE IF u = w THEN balance[u] + a ELSE balance[u]
    BY <1>1, <1>5, <2>1 DEF BooksTip
  <2>8. Effect(r) = -a /\ Earned(r) = 0 /\ Effect(s) = a /\ Earned(s) = 0
    BY <2>2, EffectType
  <2>9. CASE u = v
    <3>1. NewRows(u) = {n + 1}
      BY <1>1, <2>1, <2>2, <2>4, <2>5, <2>9
    <3>2. /\ balance'[u] = balance[u] + Effect(rows'[n + 1])
          /\ affiliateBalance'[u] = affiliateBalance[u] + Earned(rows'[n + 1])
      BY <1>1, <2>1, <2>4, <2>6, <2>7, <2>8, <2>9
    <3> QED BY <3>1, <3>2
  <2>10. CASE u = w
    <3>1. NewRows(u) = {n + 2}
      BY <1>1, <2>1, <2>2, <2>4, <2>5, <2>10
    <3>2. /\ balance'[u] = balance[u] + Effect(rows'[n + 2])
          /\ affiliateBalance'[u] = affiliateBalance[u] + Earned(rows'[n + 2])
      BY <1>1, <2>1, <2>4, <2>6, <2>7, <2>8, <2>10
    <3> QED BY <3>1, <3>2
  <2>11. CASE u # v /\ u # w
    BY <2>2, <2>4, <2>5, <2>6, <2>7, <2>11
  <2> QED BY <2>9, <2>10, <2>11
<1>6. ASSUME NEW w \in 1..Len(rows), Approves(w)
      PROVE  Nothing
  BY <1>2, <1>6, ExceptSeq DEF Approves
<1>7. ASSUME NEW w \in 1..Len(rows), Refunds(w)
      PROVE  Nothing \/ One(n + 1)
  <2>1. /\ RefundRow(w) \in Row /\ RefundRow(w).user = rows[w].user
        /\ RefundRow(w).amount = rows[w].amount /\ RefundRow(w).type = "DEPOSIT"
        /\ rows[w].user \in Users /\ rows[w].amount \in Nat
    BY RefundRowType, RowAt
  <2>2. Effect(RefundRow(w)) = rows[w].amount /\ Earned(RefundRow(w)) = 0
    BY <2>1, EffectType
  <2>3. Len(rows') = n + 1 /\ rows'[n + 1] = RefundRow(w)
    <3> DEFINE e == [rows[w] EXCEPT !.status = "FAILED"]
               t == [rows EXCEPT ![w] = e]
    <3>1. e \in Row
      BY RowAt DEF Row, Statuses
    <3>2. rows' = Append(t, RefundRow(w))
      BY <1>7 DEF Refunds
    <3> HIDE DEF e
    <3>3. t \in Seq(Row) /\ Len(t) = n
      BY <1>1, <3>1, ExceptSeq
    <3> HIDE DEF t
    <3> QED BY <2>1, <3>2, <3>3, AppendAt
  <2>4. NewRows(u) = IF rows[w].user = u THEN {n + 1} ELSE {}
    BY <1>1, <2>1, <2>3, OneNewRow
  <2>5. /\ affiliateBalance' = affiliateBalance
        /\ balance'[u] = IF rows[w].user = u THEN balance[u] + rows[w].amount ELSE balance[u]
    BY <1>1, <1>7, <2>1 DEF Refunds
  <2>6. CASE rows[w].user = u
    <3>1. /\ balance'[u] = balance[u] + Effect(rows'[n + 1])
          /\ affiliateBalance'[u] = affiliateBalance[u] + Earned(rows'[n + 1])
      BY <1>1, <2>1, <2>2, <2>3, <2>5, <2>6
    <3> QED BY <2>4, <2>6, <3>1
  <2>7. CASE rows[w].user # u
    BY <2>4, <2>5, <2>7
  <2> QED BY <2>6, <2>7
<1>8. ASSUME NEW i, One(i)
      PROVE  i \in NewRows(u) /\ One(i)
  BY <1>8
<1>9. Nothing \/ \E i : One(i)
  <2> HIDE DEF Nothing, One, n
  <2> QED BY StepShape, <1>3, <1>4, <1>5, <1>6, <1>7 DEF Shape
<1> QED BY <1>8, <1>9

\* The history and the balances move together: in every step each wallet changes
\* by what its one new row says, and no older row is rewritten but for its status.
THEOREM BalancesFollowHistory == Spec => EveryMutationPaired
<1>1. (TypeOK /\ OpenOK) /\ [Next]_vars =>
        [/\ Len(rows') >= Len(rows)
         /\ \A i \in 1..Len(rows) : rows'[i] = [rows[i] EXCEPT !.status = rows'[i].status]
         /\ \A u \in Users :
              \/ /\ NewRows(u) = {}
                 /\ balance'[u] = balance[u]
                 /\ affiliateBalance'[u] = affiliateBalance[u]
              \/ \E i \in NewRows(u) :
                   /\ NewRows(u) = {i}
                   /\ balance'[u] = balance[u] + Effect(rows'[i])
                   /\ affiliateBalance'[u] = affiliateBalance[u] + Earned(rows'[i])]_vars
  BY RowsStep, PairedStep
<1> QED BY TypeCorrect, <1>1, PTL DEF Spec, EveryMutationPaired

-----------------------------------------------------------------------------
(* Revenue share *)

\* The fields a reward depends on never change.
LEMMA EarnedStep ==
  ASSUME TypeOK, OpenOK, [Next]_vars, RewardsAreEarned
  PROVE  RewardsAreEarned'
<1> DEFINE n == Len(rows)
           Fine(i) == \E b \in 1..(i - 1) :
                        /\ rows'[i].key = <<"affiliate", b>>
                        /\ rows'[b].type = "BET"
                        /\ rows'[i].user = Referrer[rows'[b].user]
                        /\ rows'[i].user # rows'[b].user
                        /\ rows'[i].amount <= rows'[b].amount
<1>1. /\ rows \in Seq(Row) /\ n \in Nat /\ Len(rows') \in Nat /\ Len(rows') >= n
      /\ \A i \in 1..n : /\ rows'[i].key = rows[i].key /\ rows'[i].type = rows[i].type
                         /\ rows'[i].user = rows[i].user /\ rows'[i].amount = rows[i].amount
  <2>1. \A i \in 1..n : rows'[i] = [rows[i] EXCEPT !.status = rows'[i].status]
    BY RowsStep
  <2>2. \A i \in 1..n : rows[i] \in Row
    BY RowAt
  <2> QED BY <2>1, <2>2, RowsStep DEF TypeOK, Row
<1>2. ASSUME NEW i \in 1..n, rows'[i].type = "AFFILIATE_REWARD"
      PROVE  Fine(i)
  <2>1. PICK b \in 1..(i - 1) : EarnedOn(rows[i], b)
    BY <1>1, <1>2 DEF RewardsAreEarned, EarnedOn
  <2>2. b \in 1..n
    BY <1>1
  <2> QED BY <1>1, <2>1, <2>2 DEF EarnedOn
<1>3. ASSUME NEW r \in Row, Bookable(r), Books(r), r.type = "AFFILIATE_REWARD"
      PROVE  Fine(n + 1)
  <2>1. rows' = Append(rows, r) /\ rows'[n + 1] = r
    BY <1>1, <1>3, AppendAt DEF Books
  <2>2. PICK b \in 1..n : EarnedOn(r, b)
    BY <1>3 DEF Bookable
  <2>3. b \in 1..((n + 1) - 1)
    BY <1>1
  <2> QED BY <1>1, <2>1, <2>2, <2>3 DEF EarnedOn
<1>4. ASSUME NEW i \in 1..Len(rows'), i \notin 1..n, rows'[i].type = "AFFILIATE_REWARD"
      PROVE  i = n + 1 /\ \E r \in Row : Bookable(r) /\ Books(r) /\ r.type = "AFFILIATE_REWARD"
  <2>1. i \in (n + 1)..Len(rows')
    BY <1>1, <1>4
  <2>2. CASE Untouched \/ \E w \in 1..Len(rows) : Approves(w)
    <3>1. Len(rows') = n
      BY <1>1, <2>2, ExceptSeq DEF Untouched, Approves
    <3> QED BY <1>1, <2>1, <3>1
  <2>3. ASSUME NEW r \in Row, Bookable(r), Books(r)
        PROVE  i = n + 1 /\ r.type = "AFFILIATE_REWARD"
    <3>1. Len(rows') = n + 1 /\ rows'[n + 1] = r
      BY <1>1, <2>3, AppendAt DEF Books
    <3> QED BY <1>1, <1>4, <2>1, <3>1
  <2>4. ASSUME NEW u \in Users, NEW v \in Users, NEW a \in Amounts, BooksTip(u, v, a)
        PROVE  FALSE
    <3> DEFINE r == Posted(u, "WITHDRAWAL", a, TipKey)
               s == Posted(v, "DEPOSIT", a, TipKey)
               t == Append(rows, r)
    <3>1. r \in Row /\ r.type = "WITHDRAWAL" /\ s \in Row /\ s.type = "DEPOSIT"
      BY PostedRow, AmountsAssumption DEF Types, Key
    <3>2. rows' = Append(t, s)
      BY <2>4 DEF BooksTip
    <3> HIDE DEF r, s
    <3>3. t \in Seq(Row) /\ Len(t) = n + 1 /\ t[n + 1] = r
      BY <1>1, <3>1, AppendAt
    <3> HIDE DEF t
    <3>4. Len(rows') = n + 2 /\ rows'[n + 1] = r /\ rows'[n + 2] = s
      BY <1>1, <3>1, <3>2, <3>3, AppendAt
    <3>5. i = n + 1 \/ i = n + 2
      BY <1>1, <2>1, <3>4
    <3> QED BY <1>4, <3>1, <3>4, <3>5
  <2>5. ASSUME NEW w \in 1..Len(rows), Refunds(w)
        PROVE  FALSE
    <3> DEFINE e == [rows[w] EXCEPT !.status = "FAILED"]
               t == [rows EXCEPT ![w] = e]
    <3>1. e \in Row /\ RefundRow(w) \in Row /\ RefundRow(w).type = "DEPOSIT"
      BY RowAt, RefundRowType DEF Row, Statuses
    <3>2. rows' = Append(t, RefundRow(w))
      BY <2>5 DEF Refunds
    <3> HIDE DEF e
    <3>3. t \in Seq(Row) /\ Len(t) = n
      BY <1>1, <3>1, ExceptSeq
    <3> HIDE DEF t
    <3>4. Len(rows') = n + 1 /\ rows'[n + 1].type = "DEPOSIT"
      BY <1>1, <3>1, <3>2, <3>3, AppendAt
    <3> QED BY <1>1, <1>4, <2>1, <3>4
  <2> QED BY StepShape, <2>2, <2>3, <2>4, <2>5 DEF Shape
<1>5. ASSUME NEW i \in 1..Len(rows'), rows'[i].type = "AFFILIATE_REWARD"
      PROVE  Fine(i)
  BY <1>2, <1>3, <1>4, <1>5
<1> QED BY <1>5 DEF RewardsAreEarned

\* Every reward in the history was earned on an earlier bet of somebody the
\* receiver referred, never on one's own, and is at most the stake.
THEOREM RewardsEarned == Spec => []RewardsAreEarned
<1>1. Init => RewardsAreEarned
  BY DEF Init, RewardsAreEarned
<1>2. (TypeOK /\ OpenOK) /\ RewardsAreEarned /\ [Next]_vars => RewardsAreEarned'
  BY EarnedStep
<1> QED BY TypeCorrect, <1>1, <1>2, PTL DEF Spec

-----------------------------------------------------------------------------
(* Audit *)

\* A row that asks for no audit entry: no adjustment and no approved withdrawal.
Silent(r) ==
  /\ \A ref \in Refs : r.key # <<"adj", ref>>
  /\ ~(r.type = "WITHDRAWAL" /\ r.status = "COMPLETED" /\ r.key = NoKey)

\* What the audit owes one row of a table.
Accounted(r, i, entries) ==
  /\ (\E ref \in Refs : r.key = <<"adj", ref>>) => <<"BALANCE_ADJUSTED", i>> \in entries
  /\ r.type = "WITHDRAWAL" /\ r.status = "COMPLETED" /\ r.key = NoKey
       => <<"APPROVED", i>> \in entries

\* A new row is silent, or is the adjustment that was just audited.
LEMMA AccountedAppend ==
  ASSUME TypeOK, DeedsRecorded, audited \subseteq audited',
         NEW r \in Row, rows' = Append(rows, r),
         Silent(r) \/ (r.key # NoKey /\ <<"BALANCE_ADJUSTED", Len(rows) + 1>> \in audited')
  PROVE  DeedsRecorded'
<1> DEFINE n == Len(rows)
<1>1. /\ n \in Nat /\ Len(rows') = n + 1 /\ rows'[n + 1] = r
      /\ \A i \in 1..n : rows'[i] = rows[i]
  BY AppendAt DEF TypeOK
<1>2. ASSUME NEW i \in 1..n
      PROVE  Accounted(rows'[i], i, audited')
  BY <1>1 DEF DeedsRecorded, Accounted
<1>3. Accounted(rows'[n + 1], n + 1, audited')
  BY <1>1 DEF Silent, Accounted
<1>4. \A i \in 1..Len(rows') : Accounted(rows'[i], i, audited')
  <2> HIDE DEF n
  <2> QED BY <1>1, <1>2, <1>3
<1> QED BY <1>4 DEF DeedsRecorded, Accounted

\* So it is after a withdrawal changed its status, if an approval is audited.
LEMMA AccountedSettle ==
  ASSUME NEW s \in Seq(Row), NEW w \in 1..Len(s), NEW entries,
         \A i \in 1..Len(s) : Accounted(s[i], i, audited), audited \subseteq entries,
         NEW status \in {"COMPLETED", "FAILED"},
         status = "COMPLETED" => <<"APPROVED", w>> \in entries
  PROVE  LET t == [s EXCEPT ![w].status = status]
         IN  /\ t \in Seq(Row) /\ Len(t) = Len(s)
             /\ \A i \in 1..Len(s) : Accounted(t[i], i, entries)
<1> DEFINE e == [s[w] EXCEPT !.status = status]
           t == [s EXCEPT ![w] = e]
<1>1. s[w] \in Row
  BY ElementOfSeq
<1>2. e \in Row /\ e.key = s[w].key /\ e.type = s[w].type /\ e.status = status
  BY <1>1 DEF Row, Statuses
<1>3. [s EXCEPT ![w].status = status] = t
  OBVIOUS
<1> HIDE DEF e
<1>4. t \in Seq(Row) /\ Len(t) = Len(s) /\ \A i \in 1..Len(s) : t[i] = IF i = w THEN e ELSE s[i]
  BY <1>2, ExceptSeq
<1> HIDE DEF t
<1>5. ASSUME NEW i \in 1..Len(s)
      PROVE  Accounted(t[i], i, entries)
  BY <1>2, <1>4 DEF Accounted
<1> QED BY <1>3, <1>4, <1>5

\* Every step leaves each row with the audit entries it is owed.
LEMMA AccountedStep ==
  ASSUME TypeOK, OpenOK, DeedsRecorded, [Next]_vars
  PROVE  DeedsRecorded'
<1>a. audited \subseteq audited'
  BY AuditedStep
<1>b. \A i \in 1..Len(rows) : Accounted(rows[i], i, audited)
  BY DEF DeedsRecorded, Accounted
<1>1. CASE UNCHANGED rows
  BY <1>1, <1>a DEF DeedsRecorded
<1>2. ASSUME NEW u \in Users, NEW type \in Types, NEW a \in Nat, NEW key \in Key,
             \A ref \in Refs : key # <<"adj", ref>>, type = "WITHDRAWAL" => key # NoKey,
             rows' = Append(rows, Posted(u, type, a, key))
      PROVE  DeedsRecorded'
  <2> DEFINE r == Posted(u, type, a, key)
  <2>1. r \in Row /\ r.type = type /\ r.key = key
    BY PostedRow
  <2>2. rows' = Append(rows, r)
    BY <1>2
  <2> HIDE DEF r
  <2>3. Silent(r)
    BY <1>2, <2>1 DEF Silent
  <2> QED BY <1>a, <2>1, <2>2, <2>3, AccountedAppend
<1>3. ASSUME NEW u \in Users, NEW type \in Types, NEW a \in Nat, NEW ref \in Refs,
             rows' = Append(rows, Posted(u, type, a, <<"adj", ref>>)),
             Record("BALANCE_ADJUSTED", Len(rows) + 1)
      PROVE  DeedsRecorded'
  <2>1. <<"adj", ref>> \in Key /\ <<"adj", ref>> # NoKey
    BY DEF Key, NoKey
  <2>2. Posted(u, type, a, <<"adj", ref>>) \in Row /\ Posted(u, type, a, <<"adj", ref>>).key # NoKey
    BY <2>1, PostedRow
  <2>3. <<"BALANCE_ADJUSTED", Len(rows) + 1>> \in audited'
    BY <1>3 DEF Record
  <2> QED BY <1>3, <1>a, <2>2, <2>3, AccountedAppend
<1>4. ASSUME NEW w \in 1..Len(rows), NEW by, RejectWithdrawal(w, by)
      PROVE  DeedsRecorded'
  <2> DEFINE t == [rows EXCEPT ![w].status = "FAILED"]
  <2>1. t \in Seq(Row) /\ Len(t) = Len(rows) /\ \A i \in 1..Len(rows) : Accounted(t[i], i, audited')
    BY <1>a, <1>b, AccountedSettle DEF TypeOK
  <2>2. RefundRow(w) \in Row /\ RefundRow(w).key = <<"refund", w>> /\ RefundRow(w).type = "DEPOSIT"
    BY RefundRowType
  <2>3. rows' = Append(t, RefundRow(w))
    BY <1>4 DEF RejectWithdrawal
  <2> HIDE DEF t
  <2>4. /\ Len(rows') = Len(rows) + 1 /\ rows'[Len(rows) + 1] = RefundRow(w) /\ Len(rows) \in Nat
        /\ \A i \in 1..Len(rows) : rows'[i] = t[i]
    BY <2>1, <2>2, <2>3, AppendAt
  <2>5. Accounted(RefundRow(w), Len(rows) + 1, audited')
    BY <2>2 DEF Accounted
  <2>6. \A i \in 1..Len(rows') : Accounted(rows'[i], i, audited')
    BY <2>1, <2>4, <2>5
  <2> QED BY <2>6 DEF DeedsRecorded, Accounted
<1>5. ASSUME NEW w \in 1..Len(rows), ApproveWithdrawal(w)
      PROVE  DeedsRecorded'
  <2>1. rows' = [rows EXCEPT ![w].status = "COMPLETED"] /\ <<"APPROVED", w>> \in audited'
    BY <1>5 DEF ApproveWithdrawal, Record
  <2>2. Len(rows') = Len(rows) /\ \A i \in 1..Len(rows) : Accounted(rows'[i], i, audited')
    BY <1>a, <1>b, <2>1, AccountedSettle DEF TypeOK
  <2> QED BY <2>2 DEF DeedsRecorded, Accounted
<1>6. ASSUME NEW c \in Conns, Player(c)
      PROVE  DeedsRecorded'
  <2> DEFINE q == open[c]
  <2>1. q.op \in {"bet", "tip", "withdraw", "claim"} =>
          q \in Request /\ q.user \in Users /\ q.to \in Users /\ q.amount \in Nat
    BY DEF TypeOK, Request, Idle
  <2>2. NoKey \in Key /\ TipKey \in Key /\ NoKey # TipKey
        /\ \A ref \in Refs : NoKey # <<"adj", ref>> /\ TipKey # <<"adj", ref>>
    BY DEF Key, NoKey, TipKey
  <2>3. CASE UNCHANGED rows
    BY <1>1, <2>3
  <2>4. CASE CommitBet(c)
    BY <1>2, <2>1, <2>2, <2>4 DEF CommitBet, Types
  <2>5. CASE CommitClaim(c)
    BY <1>2, <2>1, <2>2, <2>5 DEF CommitClaim, Types
  <2>6. CASE CommitWithdrawal(c)
    <3> DEFINE r == [Posted(q.user, "WITHDRAWAL", q.amount, NoKey) EXCEPT !.status = "PENDING"]
    <3>1. q.user \in Users /\ q.amount \in Nat /\ rows' = Append(rows, r)
      BY <2>1, <2>6 DEF CommitWithdrawal
    <3>2. r \in Row /\ r.key = NoKey /\ r.status = "PENDING"
      BY <2>2, <3>1 DEF Posted, Row, Statuses, Types
    <3>3. Silent(r)
      BY <2>2, <3>2 DEF Silent
    <3> HIDE DEF r
    <3> QED BY <1>a, <3>1, <3>2, <3>3, AccountedAppend
  <2>7. CASE CommitTip(c)
    <3> DEFINE r == Posted(q.user, "WITHDRAWAL", q.amount, TipKey)
               s == Posted(q.to, "DEPOSIT", q.amount, TipKey)
    <3>1. q.user \in Users /\ q.to \in Users /\ q.amount \in Nat /\ rows' = Append(Append(rows, r), s)
      BY <2>1, <2>7 DEF CommitTip, TipCredit
    <3>2. r \in Row /\ s \in Row /\ r.key = TipKey /\ s.key = TipKey
      BY <2>2, <3>1, PostedRow DEF Types
    <3> HIDE DEF r, s
    <3>3. \A i \in Nat : Accounted(r, i, audited') /\ Accounted(s, i, audited')
      BY <2>2, <3>2 DEF Accounted
    <3>4. /\ Len(rows) \in Nat /\ Len(rows') = Len(rows) + 2
          /\ rows'[Len(rows) + 1] = r /\ rows'[Len(rows) + 2] = s
          /\ \A i \in 1..Len(rows) : rows'[i] = rows[i]
      BY <3>1, <3>2, AppendAt DEF TypeOK
    <3>5. \A i \in 1..Len(rows) : Accounted(rows'[i], i, audited')
      BY <1>a, <1>b, <3>4 DEF Accounted
    <3>6. \A i \in 1..Len(rows') : Accounted(rows'[i], i, audited')
      BY <3>3, <3>4, <3>5
    <3> QED BY <3>6 DEF DeedsRecorded, Accounted
  <2> QED BY <1>6, <2>3, <2>4, <2>5, <2>6, <2>7 DEF Player, BeginDebit, BeginClaim, Begin, Abort
<1>7. CASE House
  <2>1. ASSUME NEW b \in 1..Len(rows), NEW prize \in Amounts, ProcessWin(b, prize)
        PROVE  DeedsRecorded'
    <3>1. rows[b].user \in Users /\ prize \in Nat /\ <<"win", b>> \in Key
      BY RowAt, AmountsAssumption DEF Key
    <3> QED BY <1>2, <2>1, <3>1 DEF ProcessWin, Credit, Types
  <2>2. ASSUME NEW b \in 1..Len(rows), NEW prize \in Amounts \cup {0},
               SettleAffiliateReward(b, prize)
        PROVE  DeedsRecorded'
    <3>1. PICK r \in Row : r.type = "AFFILIATE_REWARD" /\ r.key = <<"affiliate", b>> /\ rows' = Append(rows, r)
      BY <2>2, RewardRow
    <3>2. Silent(r)
      BY <3>1 DEF Silent
    <3> QED BY <1>a, <3>1, <3>2, AccountedAppend
  <2>3. ASSUME NEW u \in Users, NEW a \in Amounts, NEW key \in {NoKey} \cup ({"rakeback"} \X Refs),
               AwardBonus(u, a, key)
        PROVE  DeedsRecorded'
    <3>1. a \in Nat /\ key \in Key /\ \A ref \in Refs : key # <<"adj", ref>>
      BY AmountsAssumption DEF Key, NoKey
    <3> QED BY <1>2, <2>3, <3>1 DEF AwardBonus, Credit, Types
  <2>4. ASSUME NEW u \in Users, NEW a \in Amounts, NEW day \in Days, CreditCashback(u, a, day)
        PROVE  DeedsRecorded'
    <3>1. a \in Nat /\ <<"cashback", <<u, day>>>> \in Key
      BY AmountsAssumption DEF Key
    <3> QED BY <1>2, <2>4, <3>1 DEF CreditCashback, Credit, Types
  <2>5. ASSUME NEW u \in Users, NEW a \in Amounts, NEW invoice \in Refs, SettleDeposit(u, a, invoice)
        PROVE  DeedsRecorded'
    <3>1. a \in Nat /\ <<"deposit", invoice>> \in Key
      BY AmountsAssumption DEF Key
    <3> QED BY <1>2, <2>5, <3>1 DEF SettleDeposit, Credit, Types
  <2> QED BY <1>4, <1>7, <2>1, <2>2, <2>3, <2>4, <2>5 DEF House
<1>8. CASE Admin
  <2>1. ASSUME NEW u \in Users, NEW a \in Amounts, NEW ref \in Refs,
               AdjustCredit(u, a, ref) \/ AdjustDebit(u, a, ref)
        PROVE  DeedsRecorded'
    BY <1>3, <2>1, AmountsAssumption DEF AdjustCredit, AdjustDebit, AdjustDebitRow, Credit, Types
  <2>2. CASE \/ \E u \in Users, flag \in BOOLEAN : SetFrozen(u, flag)
             \/ \E u \in Users, pct \in RevShares : SetRevShare(u, pct)
    BY <1>1, <2>2 DEF SetFrozen, SetRevShare
  <2> QED BY <1>4, <1>5, <1>8, <2>1, <2>2 DEF Admin
<1> QED BY <1>1, <1>6, <1>7, <1>8 DEF Next, vars

\* An entry that is true stays true, and a new one is true of the row it is about.
LEMMA RecordsStep ==
  ASSUME TypeOK, OpenOK, RecordsTrue, [Next]_vars
  PROVE  RecordsTrue'
<1>1. /\ rows \in Seq(Row) /\ Len(rows) \in Nat /\ Len(rows') \in Nat /\ Len(rows') >= Len(rows)
      /\ \A i \in 1..Len(rows) : rows'[i] = [rows[i] EXCEPT !.status = rows'[i].status]
      /\ \A i \in 1..Len(rows) : rows[i].status # "PENDING" => rows'[i] = rows[i]
  BY RowsStep DEF TypeOK
<1>2. 1..Len(rows) \subseteq 1..Len(rows')
  BY <1>1
<1>3. \A i \in 1..Len(rows) : rows'[i].type = rows[i].type /\ rows'[i].key = rows[i].key
  BY <1>1, RowAt DEF Row
<1>4. ASSUME NEW verb \in {"BALANCE_ADJUSTED", "APPROVED", "REJECTED_AND_REFUNDED"}, NEW i, Happened(verb, i)
      PROVE  Happened(verb, i)'
  <2>1. i \in 1..Len(rows) /\ i \in 1..Len(rows')
    BY <1>2, <1>4 DEF Happened
  <2>2. CASE verb = "BALANCE_ADJUSTED"
    BY <1>3, <1>4, <2>1, <2>2 DEF Happened
  <2>3. CASE verb # "BALANCE_ADJUSTED"
    <3>1. rows[i].status # "PENDING"
      BY <1>4, <2>3 DEF Happened
    <3>2. rows'[i] = rows[i]
      BY <1>1, <2>1, <3>1
    <3> QED BY <1>4, <2>1, <2>3, <3>2 DEF Happened
  <2> QED BY <2>2, <2>3
<1>a. ASSUME NEW e \in audited PROVE Happened(e[1], e[2])'
  <2>1. e[1] \in {"BALANCE_ADJUSTED", "APPROVED", "REJECTED_AND_REFUNDED"}
    BY DEF TypeOK
  <2> QED BY <1>4, <2>1 DEF RecordsTrue
<1>5. CASE UNCHANGED audited
  BY <1>a, <1>5 DEF RecordsTrue
<1>6. ASSUME NEW verb, NEW i, Record(verb, i), Happened(verb, i)' PROVE RecordsTrue'
  <2>1. ASSUME NEW e \in audited' PROVE Happened(e[1], e[2])'
    <3>1. CASE e \in audited
      BY <1>a, <3>1
    <3>2. CASE e = <<verb, i>>
      <4>1. e[1] = verb /\ e[2] = i
        BY <3>2
      <4> QED BY <1>6, <4>1
    <3> QED BY <1>6, <3>1, <3>2 DEF Record
  <2> QED BY <2>1 DEF RecordsTrue
<1>7. CASE UNCHANGED vars \/ \E c \in Conns : Player(c)
  BY <1>5, <1>7 DEF vars, Player, BeginDebit, BeginClaim, Begin, CommitBet, CommitTip,
                    CommitWithdrawal, CommitClaim, Abort
<1>8. ASSUME NEW w \in 1..Len(rows), NEW st \in {"COMPLETED", "FAILED"}, IsPending(w)
      PROVE  LET t == [rows EXCEPT ![w].status = st]
             IN  t \in Seq(Row) /\ Len(t) = Len(rows) /\ t[w].type = "WITHDRAWAL" /\ t[w].status = st
  <2> DEFINE e == [rows[w] EXCEPT !.status = st]
             t == [rows EXCEPT ![w] = e]
  <2>1. e \in Row /\ e.status = st /\ e.type = "WITHDRAWAL"
    BY <1>8, RowAt DEF Row, Statuses, IsPending
  <2>2. [rows EXCEPT ![w].status = st] = t
    OBVIOUS
  <2> HIDE DEF e
  <2>3. t \in Seq(Row) /\ Len(t) = Len(rows) /\ t[w] = e
    BY <1>1, <2>1, ExceptSeq
  <2> QED BY <2>1, <2>2, <2>3
<1>9. ASSUME NEW w \in 1..Len(rows), NEW by, RejectWithdrawal(w, by) PROVE RecordsTrue'
  <2> DEFINE t == [rows EXCEPT ![w].status = "FAILED"]
  <2>1. t \in Seq(Row) /\ Len(t) = Len(rows) /\ t[w].type = "WITHDRAWAL" /\ t[w].status = "FAILED"
    BY <1>8, <1>9 DEF RejectWithdrawal
  <2>2. RefundRow(w) \in Row /\ rows' = Append(t, RefundRow(w))
    BY <1>9, RefundRowType DEF RejectWithdrawal
  <2> HIDE DEF t
  <2>3. rows'[w] = t[w]
    BY <2>1, <2>2, AppendAt
  <2>4. Happened("REJECTED_AND_REFUNDED", w)'
    BY <1>2, <2>1, <2>3 DEF Happened
  <2> QED BY <1>5, <1>6, <1>9, <2>4 DEF RejectWithdrawal
<1>10. CASE House
  BY <1>5, <1>9, <1>10 DEF House, ProcessWin, SettleAffiliateReward, AwardBonus, CreditCashback, SettleDeposit
<1>11. CASE Admin
  <2>1. ASSUME NEW u \in Users, NEW a \in Amounts, NEW ref \in Refs, NEW type \in {"DEPOSIT", "WITHDRAWAL"},
               rows' = Append(rows, Posted(u, type, a, <<"adj", ref>>)), Record("BALANCE_ADJUSTED", Len(rows) + 1)
        PROVE  RecordsTrue'
    <3> DEFINE r == Posted(u, type, a, <<"adj", ref>>)
    <3>1. r \in Row /\ r.key = <<"adj", ref>>
      BY PostedRow, AmountsAssumption DEF Types, Key
    <3>2. rows' = Append(rows, r)
      BY <2>1
    <3> HIDE DEF r
    <3>3. PICK n \in Nat : n = Len(rows) + 1
      BY <1>1
    <3>4. n \in 1..Len(rows') /\ rows'[n] = r
      BY <1>1, <3>1, <3>2, <3>3, AppendAt
    <3>5. Happened("BALANCE_ADJUSTED", n)'
      BY <3>1, <3>4 DEF Happened
    <3> QED BY <1>6, <2>1, <3>3, <3>5
  <2>2. ASSUME NEW u \in Users, NEW a \in Amounts, NEW ref \in Refs,
               AdjustCredit(u, a, ref) \/ AdjustDebit(u, a, ref)
        PROVE  RecordsTrue'
    BY <2>1, <2>2 DEF AdjustCredit, AdjustDebit, AdjustDebitRow, Credit
  <2>3. ASSUME NEW w \in 1..Len(rows), ApproveWithdrawal(w) PROVE RecordsTrue'
    <3>1. Len(rows') = Len(rows) /\ rows'[w].type = "WITHDRAWAL" /\ rows'[w].status = "COMPLETED"
      BY <1>8, <2>3 DEF ApproveWithdrawal
    <3>2. Happened("APPROVED", w)'
      BY <3>1 DEF Happened
    <3> QED BY <1>6, <2>3, <3>2 DEF ApproveWithdrawal
  <2>4. CASE \/ \E u \in Users, flag \in BOOLEAN : SetFrozen(u, flag)
             \/ \E u \in Users, pct \in RevShares : SetRevShare(u, pct)
    BY <1>5, <2>4 DEF SetFrozen, SetRevShare
  <2> QED BY <1>9, <1>11, <2>2, <2>3, <2>4 DEF Admin
<1> QED BY <1>7, <1>10, <1>11 DEF Next

\* Whatever an administrator moved or approved is in the audit log, and what the log says
\* was adjusted, approved or rejected was, and stays so.
THEOREM AdminIsAudited == Spec => []AdminVerbsAudited
<1>1. Init => AdminVerbsAudited
  BY DEF Init, AdminVerbsAudited, DeedsRecorded, RecordsTrue, Happened
<1>2. (TypeOK /\ OpenOK) /\ AdminVerbsAudited /\ [Next]_vars => AdminVerbsAudited'
  BY AccountedStep, RecordsStep DEF AdminVerbsAudited
<1> QED BY TypeCorrect, <1>1, <1>2, PTL DEF Spec

-----------------------------------------------------------------------------
(* Freezing *)

\* An adjustment is audited when its row is written, never ahead of it.
AuditBehind == \A i : <<"BALANCE_ADJUSTED", i>> \in audited => i \in 1..Len(rows)

LEMMA AuditBehindStep ==
  ASSUME TypeOK, OpenOK, AuditBehind, [Next]_vars
  PROVE  AuditBehind'
<1>1. rows \in Seq(Row) /\ Len(rows) \in Nat /\ Len(rows') \in Nat /\ Len(rows') >= Len(rows)
  BY RowsStep DEF TypeOK
<1>2. 1..Len(rows) \subseteq 1..Len(rows')
  BY <1>1
<1>3. ASSUME UNCHANGED audited \/ \E verb, w : verb # "BALANCE_ADJUSTED" /\ Record(verb, w)
      PROVE  AuditBehind'
  BY <1>2, <1>3 DEF AuditBehind, Record
<1>4. ASSUME NEW r \in Row, rows' = Append(rows, r), Record("BALANCE_ADJUSTED", Len(rows) + 1)
      PROVE  AuditBehind'
  <2>1. Len(rows') = Len(rows) + 1 /\ Len(rows) + 1 \in 1..Len(rows')
    BY <1>1, <1>4, AppendAt
  <2> QED BY <1>2, <1>4, <2>1 DEF AuditBehind, Record
<1>5. CASE UNCHANGED vars \/ (\E c \in Conns : Player(c)) \/ House
  BY <1>3, <1>5 DEF vars, Player, BeginDebit, BeginClaim, Begin, CommitBet, CommitTip,
                    CommitWithdrawal, CommitClaim, Abort, House, ProcessWin,
                    SettleAffiliateReward, AwardBonus, CreditCashback, SettleDeposit,
                    RejectWithdrawal
<1>6. CASE Admin
  <2>1. ASSUME NEW u \in Users, NEW a \in Amounts, NEW ref \in Refs,
               AdjustCredit(u, a, ref) \/ AdjustDebit(u, a, ref)
        PROVE  AuditBehind'
    <3>1. a \in Nat /\ <<"adj", ref>> \in Key
      BY AmountsAssumption DEF Key
    <3>2. /\ Posted(u, "DEPOSIT", a, <<"adj", ref>>) \in Row
          /\ Posted(u, "WITHDRAWAL", a, <<"adj", ref>>) \in Row
      BY <3>1, PostedRow DEF Types
    <3> QED BY <1>4, <2>1, <3>2 DEF AdjustCredit, Credit, AdjustDebit, AdjustDebitRow
  <2>2. CASE \E w \in 1..Len(rows) : ApproveWithdrawal(w) \/ RejectWithdrawal(w, "admin")
    BY <1>3, <2>2 DEF ApproveWithdrawal, RejectWithdrawal
  <2>3. CASE \/ \E u \in Users, flag \in BOOLEAN : SetFrozen(u, flag)
             \/ \E u \in Users, pct \in RevShares : SetRevShare(u, pct)
    BY <1>3, <2>3 DEF SetFrozen, SetRevShare
  <2> QED BY <1>6, <2>1, <2>2, <2>3 DEF Admin
<1> QED BY <1>5, <1>6 DEF Next

\* While u is frozen no transaction of u's passes the check, so none is running.
LEMMA QuietStep ==
  ASSUME TypeOK, [Next]_vars, NEW u \in Users, frozen[u], Quiet(u)
  PROVE  Quiet(u)'
<1>1. CASE UNCHANGED open
  BY <1>1 DEF Quiet
<1>2. ASSUME NEW c \in Conns, open' = [open EXCEPT ![c] = Idle]
      PROVE  Quiet(u)'
  BY <1>2 DEF Quiet, Idle, TypeOK
<1>3. ASSUME NEW c \in Conns, NEW op \in {"bet", "tip", "withdraw"}, NEW v \in Users,
             NEW to \in Users, NEW a \in Amounts, BeginDebit(c, op, v, to, a)
      PROVE  Quiet(u)'
  <2>1. v # u /\ open' = [open EXCEPT ![c] = [op |-> op, user |-> v, to |-> to, amount |-> a]]
    BY <1>3 DEF BeginDebit, MaySpend, Begin
  <2> QED BY <2>1 DEF Quiet, TypeOK
<1>4. ASSUME NEW c \in Conns, NEW v \in Users, BeginClaim(c, v)
      PROVE  Quiet(u)'
  BY <1>4 DEF BeginClaim, Begin, Quiet, TypeOK
<1>5. ASSUME NEW c \in Conns, Player(c)
      PROVE  Quiet(u)'
  <2>1. CASE CommitBet(c) \/ CommitTip(c) \/ CommitWithdrawal(c) \/ CommitClaim(c) \/ Abort(c)
    BY <1>2, <2>1 DEF CommitBet, CommitTip, CommitWithdrawal, CommitClaim, Abort
  <2> QED BY <1>3, <1>4, <1>5, <2>1 DEF Player
<1>6. CASE House \/ Admin
  <2>1. UNCHANGED open
    BY <1>6 DEF House, ProcessWin, SettleAffiliateReward, AwardBonus, CreditCashback,
                SettleDeposit, RejectWithdrawal, Credit, Admin, AdjustCredit, AdjustDebit,
                ApproveWithdrawal, SetFrozen, SetRevShare
  <2> QED BY <1>1, <2>1
<1> QED BY <1>1, <1>5, <1>6 DEF Next, vars

\* While no transaction of u's is running, only an audited adjustment takes from u.
LEMMA QuietKeeps ==
  ASSUME TypeOK, OpenOK, AuditBehind, [Next]_vars, NEW u \in Users, Quiet(u),
         balance'[u] < balance[u]
  PROVE  \E i \in NewRows(u) : <<"BALANCE_ADJUSTED", i>> \in audited' \ audited
<1>1. /\ balance \in [Users -> Int] /\ balance[u] \in Int /\ rows \in Seq(Row)
      /\ Len(rows) \in Nat
  BY LenProperties DEF TypeOK
<1>2. ASSUME UNCHANGED balance PROVE FALSE
  BY <1>1, <1>2
<1>3. ASSUME NEW v \in Users, NEW a \in Nat, balance' = [balance EXCEPT ![v] = @ + a]
      PROVE  FALSE
  BY <1>1, <1>3
<1>4. ASSUME NEW v \in Users, v # u, NEW a \in Nat, balance' = [balance EXCEPT ![v] = @ - a]
      PROVE  FALSE
  BY <1>1, <1>4
<1>5. ASSUME NEW c \in Conns, Player(c)
      PROVE  FALSE
  <2> DEFINE q == open[c]
  <2>1. q \in Request \cup {Idle}
    BY DEF TypeOK
  <2>2. q.op \in {"bet", "tip", "withdraw", "claim"} =>
          q \in Request /\ q.user \in Users /\ q.to \in Users /\ q.amount \in Nat
    BY <2>1 DEF Request, Idle
  <2>3. q.op \in {"bet", "tip", "withdraw"} => q.user # u
    BY DEF Quiet
  <2>4. CASE \/ \E op \in {"bet", "tip", "withdraw"}, v, to \in Users, a \in Amounts :
                  BeginDebit(c, op, v, to, a)
             \/ \E v \in Users : BeginClaim(c, v)
             \/ Abort(c)
    BY <1>2, <2>4 DEF BeginDebit, BeginClaim, Begin, Abort
  <2>5. CASE CommitBet(c) \/ CommitWithdrawal(c)
    <3>1. /\ q.op \in {"bet", "withdraw"}
          /\ balance' = [balance EXCEPT ![q.user] = @ - q.amount]
      BY <2>5 DEF CommitBet, CommitWithdrawal
    <3> HIDE DEF q
    <3> QED BY <1>4, <2>2, <2>3, <3>1
  <2>6. CASE CommitTip(c)
    <3>1. /\ q.op = "tip"
          /\ balance' = [balance EXCEPT ![q.user] = @ - q.amount, ![q.to] = @ + q.amount]
      BY <2>6 DEF CommitTip
    <3>2. q.user \in Users /\ q.to \in Users /\ q.amount \in Nat /\ q.user # u
      BY <2>2, <2>3, <3>1
    <3> HIDE DEF q
    <3>3. balance'[u] = IF q.to = u THEN balance[u] + q.amount ELSE balance[u]
      BY <1>1, <3>1, <3>2
    <3> QED BY <1>1, <3>2, <3>3
  <2>7. CASE CommitClaim(c)
    <3>1. q.op = "claim" /\ balance' = [balance EXCEPT ![q.user] = @ + q.amount]
      BY <2>7 DEF CommitClaim
    <3> HIDE DEF q
    <3> QED BY <1>3, <2>2, <3>1
  <2> QED BY <1>5, <2>4, <2>5, <2>6, <2>7 DEF Player
<1>6. ASSUME NEW v \in Users, NEW type, NEW a \in Nat, NEW key, Credit(v, type, a, key)
      PROVE  FALSE
  BY <1>3, <1>6 DEF Credit
<1>7. ASSUME NEW w \in 1..Len(rows), NEW by, RejectWithdrawal(w, by)
      PROVE  FALSE
  <2>1. rows[w].user \in Users /\ rows[w].amount \in Nat
    BY RowAt
  <2> QED BY <1>3, <1>7, <2>1 DEF RejectWithdrawal
<1>8. Amounts \subseteq Nat
  BY AmountsAssumption
<1>9. CASE House
  <2>1. ASSUME NEW b \in 1..Len(rows), NEW prize \in Amounts, ProcessWin(b, prize)
        PROVE  FALSE
    <3>1. rows[b].user \in Users
      BY RowAt
    <3> QED BY <1>6, <1>8, <2>1, <3>1 DEF ProcessWin
  <2>2. ASSUME NEW b \in 1..Len(rows), NEW prize \in Amounts \cup {0},
               SettleAffiliateReward(b, prize)
        PROVE  FALSE
    BY <1>2, <2>2 DEF SettleAffiliateReward
  <2> QED BY <1>6, <1>7, <1>8, <1>9, <2>1, <2>2 DEF House, AwardBonus, CreditCashback, SettleDeposit
<1>10. CASE Admin
  <2>1. ASSUME NEW v \in Users, NEW a \in Amounts, NEW ref \in Refs, AdjustDebit(v, a, ref)
        PROVE  \E i \in NewRows(u) : <<"BALANCE_ADJUSTED", i>> \in audited' \ audited
    <3> DEFINE r == Posted(v, "WITHDRAWAL", a, <<"adj", ref>>)
               n == Len(rows)
    <3>1. v = u
      BY <1>4, <1>8, <2>1 DEF AdjustDebit
    <3>2. <<"adj", ref>> \in Key
      BY DEF Key
    <3>3. r \in Row /\ r.user = u
      BY <1>8, <3>1, <3>2, PostedRow DEF Types
    <3>4. rows' = Append(rows, r) /\ <<"BALANCE_ADJUSTED", n + 1>> \in audited'
      BY <2>1 DEF AdjustDebit, AdjustDebitRow, Record
    <3> HIDE DEF r
    <3>5. Len(rows') = n + 1 /\ rows'[n + 1] = r
      BY <1>1, <3>3, <3>4, AppendAt
    <3>6. n + 1 \in NewRows(u)
      BY <1>1, <3>3, <3>5 DEF NewRows
    <3>7. n + 1 \notin 1..n
      BY <1>1
    <3>8. <<"BALANCE_ADJUSTED", n + 1>> \notin audited
      BY <3>7 DEF AuditBehind
    <3> QED BY <3>4, <3>6, <3>8
  <2>2. CASE \/ \E v \in Users, a \in Amounts, ref \in Refs : AdjustCredit(v, a, ref)
             \/ \E w \in 1..Len(rows) : RejectWithdrawal(w, "admin")
    BY <1>6, <1>7, <1>8, <2>2 DEF AdjustCredit
  <2>3. CASE \/ \E w \in 1..Len(rows) : ApproveWithdrawal(w)
             \/ \E v \in Users, flag \in BOOLEAN : SetFrozen(v, flag)
             \/ \E v \in Users, pct \in RevShares : SetRevShare(v, pct)
    BY <1>2, <2>3 DEF ApproveWithdrawal, SetFrozen, SetRevShare
  <2> QED BY <1>10, <2>1, <2>2, <2>3 DEF Admin
<1>11. CASE UNCHANGED vars
  BY <1>2, <1>11 DEF vars
<1> QED BY <1>5, <1>9, <1>10, <1>11 DEF Next

\* Once what was running has drained, a frozen account loses money to an audited
\* administrator's debit or not at all, whatever its player keeps trying.
THEOREM FreezeHolds == Spec => FreezeHoldsOnceDrained
<1>1. Init => AuditBehind
  BY DEF Init, AuditBehind
<1>2. (TypeOK /\ OpenOK) /\ AuditBehind /\ [Next]_vars => AuditBehind'
  BY AuditBehindStep
<1>3. Spec => []AuditBehind
  BY TypeCorrect, <1>1, <1>2, PTL DEF Spec
<1>4. (TypeOK /\ OpenOK) /\ AuditBehind /\ [Next]_vars =>
        [\A u \in Users :
           frozen[u] /\ Quiet(u) =>
             /\ frozen'[u] => Quiet(u)'
             /\ balance'[u] < balance[u] =>
                  \E i \in NewRows(u) : <<"BALANCE_ADJUSTED", i>> \in audited' \ audited]_vars
  BY QuietStep, QuietKeeps
<1> QED BY TypeCorrect, <1>3, <1>4, PTL DEF Spec, FreezeHoldsOnceDrained

-----------------------------------------------------------------------------
(* The ledger implements the bank *)

\* The holds a table shows: its pending withdrawals.
Pending(s, i) == s[i].type = "WITHDRAWAL" /\ s[i].status = "PENDING"
HoldAt(s, i) == [id |-> i, user |-> s[i].user, amount |-> s[i].amount]
HoldsIn(s) == {HoldAt(s, i) : i \in {j \in 1..Len(s) : Pending(s, j)}}

LEMMA HoldsOfRows == PendingHolds = HoldsIn(rows) /\ PendingHolds' = HoldsIn(rows')
  BY DEF PendingHolds, HoldsIn, HoldAt, Pending, IsPending

\* Appending a row adds its hold if it is a pending withdrawal, and no other.
LEMMA HoldsAppend ==
  ASSUME NEW s \in Seq(Row), NEW r \in Row
  PROVE  HoldsIn(Append(s, r)) =
           IF r.type = "WITHDRAWAL" /\ r.status = "PENDING"
           THEN HoldsIn(s) \cup {[id |-> Len(s) + 1, user |-> r.user, amount |-> r.amount]}
           ELSE HoldsIn(s)
<1> DEFINE n == Len(s)
           t == Append(s, r)
           h == [id |-> n + 1, user |-> r.user, amount |-> r.amount]
<1>1. /\ n \in Nat /\ Len(t) = n + 1 /\ t[n + 1] = r
      /\ \A i \in 1..n : t[i] = s[i]
  BY AppendAt
<1>2. \A i : i \in 1..(n + 1) <=> i \in 1..n \/ i = n + 1
  BY <1>1
<1> HIDE DEF t, n
<1>3. \A i \in 1..n : (Pending(t, i) <=> Pending(s, i)) /\ HoldAt(t, i) = HoldAt(s, i)
  BY <1>1 DEF Pending, HoldAt
<1>4. /\ Pending(t, n + 1) <=> r.type = "WITHDRAWAL" /\ r.status = "PENDING"
      /\ HoldAt(t, n + 1) = h
  BY <1>1 DEF Pending, HoldAt
<1> HIDE DEF h
<1>5. HoldsIn(t) = IF Pending(t, n + 1) THEN HoldsIn(s) \cup {h} ELSE HoldsIn(s)
  BY <1>1, <1>2, <1>3, <1>4 DEF HoldsIn, n
<1> QED BY <1>4, <1>5 DEF t, n, h

\* Settling a pending withdrawal ends its hold, and no other.
LEMMA HoldsSettle ==
  ASSUME TypeOK, NEW w \in 1..Len(rows), IsPending(w), NEW st \in {"COMPLETED", "FAILED"}
  PROVE  /\ [rows EXCEPT ![w].status = st] \in Seq(Row)
         /\ HoldsIn([rows EXCEPT ![w].status = st]) = HoldsIn(rows) \ {HoldAt(rows, w)}
         /\ HoldAt(rows, w) \in HoldsIn(rows)
<1> DEFINE e == [rows[w] EXCEPT !.status = st]
           t == [rows EXCEPT ![w].status = st]
<1>1. /\ e \in Row /\ e.status = st /\ e.user = rows[w].user /\ e.amount = rows[w].amount
      /\ e.type = rows[w].type /\ rows \in Seq(Row)
  BY RowAt DEF Row, Statuses, TypeOK
<1>2. t = [rows EXCEPT ![w] = e]
  OBVIOUS
<1> HIDE DEF e
<1>3. /\ t \in Seq(Row) /\ Len(t) = Len(rows)
      /\ \A v \in 1..Len(rows) : t[v] = IF v = w THEN e ELSE rows[v]
  BY <1>1, <1>2, ExceptSeq
<1> HIDE DEF t
<1>4. \A v \in 1..Len(rows) : Pending(t, v) <=> (v # w /\ Pending(rows, v))
  BY <1>1, <1>3 DEF Pending
<1>5. \A v \in 1..Len(rows) : HoldAt(t, v) = HoldAt(rows, v)
  BY <1>1, <1>3 DEF HoldAt
<1>6. \A v, x : HoldAt(rows, v) = HoldAt(rows, x) => v = x
  BY DEF HoldAt
<1>7. HoldsIn(t) = HoldsIn(rows) \ {HoldAt(rows, w)}
  BY <1>3, <1>4, <1>5, <1>6 DEF HoldsIn
<1>8. HoldAt(rows, w) \in HoldsIn(rows)
  BY DEF HoldsIn, Pending, IsPending
<1> QED BY <1>3, <1>7, <1>8 DEF t

\* One row is one step of the bank: money received or spent, earned or swept, or
\* a hold placed.
LEMMA BookedIsBank ==
  ASSUME TypeOK, NonNegative, NEW r \in Row, Bookable(r), Books(r)
  PROVE  Abstract!BankNext \/ UNCHANGED Abstract!bankVars
<1> DEFINE u == r.user
           a == r.amount
<1>1. /\ u \in Users /\ a \in Nat /\ r.type \in Types
      /\ balance \in [Users -> Int] /\ affiliateBalance \in [Users -> Int]
      /\ balance[u] \in Nat /\ affiliateBalance[u] \in Nat
  BY DEF Row, TypeOK, NonNegative
<1>2. Effect(r) \in Int /\ Earned(r) \in Int
  BY EffectType
<1>3. /\ balance' = [balance EXCEPT ![u] = @ + Effect(r)]
      /\ affiliateBalance' = [affiliateBalance EXCEPT ![u] = @ + Earned(r)]
  BY DEF Books
<1>4. PendingHolds' = IF r.type = "WITHDRAWAL" /\ r.status = "PENDING"
                      THEN PendingHolds \cup {[id |-> Len(rows) + 1, user |-> u, amount |-> a]}
                      ELSE PendingHolds
  BY HoldsOfRows, HoldsAppend DEF Books, TypeOK
<1>5. /\ balance'[u] = balance[u] + Effect(r)
      /\ affiliateBalance'[u] = affiliateBalance[u] + Earned(r)
  BY <1>1, <1>3
<1>10. /\ balance' = [balance EXCEPT ![u] = balance[u] + (balance'[u] - balance[u])]
       /\ affiliateBalance' =
            [affiliateBalance EXCEPT ![u] = affiliateBalance[u] + (affiliateBalance'[u] - affiliateBalance[u])]
  <2> DEFINE d == Effect(r)
             e == Earned(r)
  <2>1. /\ balance' = [balance EXCEPT ![u] = @ + d] /\ d \in Int
        /\ affiliateBalance' = [affiliateBalance EXCEPT ![u] = @ + e] /\ e \in Int
    BY <1>2, <1>3
  <2> HIDE DEF u, d, e
  <2>2. balance'[u] = balance[u] + d /\ affiliateBalance'[u] = affiliateBalance[u] + e
    BY <1>1, <2>1
  <2>3. balance'[u] - balance[u] = d /\ affiliateBalance'[u] - affiliateBalance[u] = e
    BY <1>1, <2>1, <2>2
  <2> QED BY <2>1, <2>3
<1>6. CASE r.type \in {"BET", "WITHDRAWAL"}
  <2>1. Effect(r) = -a /\ Earned(r) = 0
    BY <1>6, EffectType
  <2>2. balance[u] - a >= 0
    BY <1>1, <2>1 DEF Bookable
  <2>3. affiliateBalance' = affiliateBalance
    BY <1>1, <1>3, <2>1
  <2>4. CASE r.type = "WITHDRAWAL" /\ r.status = "PENDING"
    <3> DEFINE h == [id |-> Len(rows) + 1, user |-> u, amount |-> a]
    <3>1. \A other \in PendingHolds : other.id # Len(rows) + 1
      <4>1. Len(rows) \in Nat
        BY LenProperties DEF TypeOK
      <4>2. \A i \in 1..Len(rows) : i # Len(rows) + 1
        BY <4>1
      <4> QED BY <4>2, HoldsOfRows DEF HoldsIn, HoldAt
    <3>2. a \in 0..balance[u]
      BY <1>1, <2>2
    <3>3. balance' = [balance EXCEPT ![u] = balance[u] + (-a)]
      BY <1>3, <2>1
    <3>4. h.id = Len(rows) + 1 /\ h.user = u /\ h.amount = a
      OBVIOUS
    <3> HIDE DEF h, u, a
    <3>5. PendingHolds' = PendingHolds \cup {h}
      BY <1>4, <2>4 DEF h
    <3>6. Abstract!PlaceHold(h)
      BY <2>3, <3>1, <3>2, <3>3, <3>4, <3>5 DEF Abstract!PlaceHold, Abstract!Changes
    <3> QED BY <3>5, <3>6 DEF Abstract!BankNext
  <2>5. CASE ~(r.type = "WITHDRAWAL" /\ r.status = "PENDING")
    <3>1. balance'[u] \in 0..balance[u]
      BY <1>1, <1>5, <2>1, <2>2
    <3>2. balance' = [balance EXCEPT ![u] = balance[u] + (balance'[u] - balance[u])]
      BY <1>10
    <3>3. PendingHolds' = PendingHolds
      BY <1>4, <2>5
    <3> HIDE DEF u, a
    <3>4. Abstract!Spend(u)
      BY <2>3, <3>1, <3>2, <3>3 DEF Abstract!Spend, Abstract!Changes
    <3> QED BY <1>1, <3>4 DEF Abstract!BankNext
  <2> QED BY <2>4, <2>5
<1>7. CASE r.type \in {"WIN", "DEPOSIT", "BONUS_CASHBACK"}
  <2>1. Effect(r) = a /\ Earned(r) = 0
    BY <1>7, EffectType
  <2>2. affiliateBalance' = affiliateBalance /\ PendingHolds' = PendingHolds
    BY <1>1, <1>3, <1>4, <1>7, <2>1
  <2>3. CASE a = 0
    <3>1. balance' = balance
      BY <1>1, <1>3, <2>1, <2>3
    <3> QED BY <2>2, <3>1 DEF Abstract!bankVars
  <2>4. CASE a # 0
    <3>1. balance'[u] > balance[u]
      BY <1>1, <1>5, <2>1, <2>4
    <3>2. balance' = [balance EXCEPT ![u] = balance[u] + (balance'[u] - balance[u])]
      BY <1>10
    <3> HIDE DEF u, a
    <3>3. Abstract!Receive(u)
      BY <2>2, <3>1, <3>2 DEF Abstract!Receive, Abstract!Changes
    <3> QED BY <1>1, <3>3 DEF Abstract!BankNext
  <2> QED BY <2>3, <2>4
<1>8. CASE r.type = "AFFILIATE_CLAIM"
  <2>1. Effect(r) = a /\ Earned(r) = -a
    BY <1>8, EffectType
  <2>2. PendingHolds' = PendingHolds
    BY <1>4, <1>8
  <2>3. affiliateBalance'[u] \in 0..affiliateBalance[u]
    BY <1>1, <1>5, <2>1 DEF Bookable
  <2>4. affiliateBalance' =
          [affiliateBalance EXCEPT ![u] = affiliateBalance[u] + (affiliateBalance'[u] - affiliateBalance[u])]
    BY <1>10
  <2>5. a = affiliateBalance[u] - affiliateBalance'[u]
    BY <1>1, <1>5, <2>1
  <2>6. balance' = [balance EXCEPT ![u] = balance[u] + (affiliateBalance[u] - affiliateBalance'[u])]
    BY <1>3, <2>1, <2>5
  <2> HIDE DEF u, a
  <2>7. Abstract!Sweep(u)
    BY <2>2, <2>3, <2>4, <2>6 DEF Abstract!Sweep, Abstract!Changes
  <2> QED BY <1>1, <2>7 DEF Abstract!BankNext
<1>9. CASE r.type = "AFFILIATE_REWARD"
  <2>1. Effect(r) = 0 /\ Earned(r) = a
    BY <1>9, EffectType
  <2>2. balance' = balance /\ PendingHolds' = PendingHolds
    BY <1>1, <1>3, <1>4, <1>9, <2>1
  <2>3. CASE a = 0
    <3>1. affiliateBalance' = affiliateBalance
      BY <1>1, <1>3, <2>1, <2>3
    <3> QED BY <2>2, <3>1 DEF Abstract!bankVars
  <2>4. CASE a # 0
    <3>1. affiliateBalance'[u] > affiliateBalance[u]
      BY <1>1, <1>5, <2>1, <2>4
    <3>2. affiliateBalance' =
            [affiliateBalance EXCEPT ![u] = affiliateBalance[u] + (affiliateBalance'[u] - affiliateBalance[u])]
      BY <1>10
    <3> HIDE DEF u, a
    <3>3. Abstract!Earn(u)
      BY <2>2, <3>1, <3>2 DEF Abstract!Earn, Abstract!Changes
    <3> QED BY <1>1, <3>3 DEF Abstract!BankNext
  <2> QED BY <2>3, <2>4
<1> QED BY <1>1, <1>6, <1>7, <1>8, <1>9 DEF Types

\* A tip is a gift, and settling a withdrawal ends its hold.
LEMMA OthersAreBank ==
  ASSUME TypeOK, NonNegative,
         \/ Untouched
         \/ \E u, v \in Users, a \in Amounts : BooksTip(u, v, a)
         \/ \E w \in 1..Len(rows) : Approves(w) \/ Refunds(w)
  PROVE  Abstract!BankNext \/ UNCHANGED Abstract!bankVars
<1>1. balance \in [Users -> Int] /\ rows \in Seq(Row)
  BY DEF TypeOK
<1>2. CASE Untouched
  <2>1. PendingHolds' = PendingHolds
    BY <1>2 DEF Untouched, PendingHolds, IsPending
  <2> QED BY <1>2, <2>1 DEF Untouched, Abstract!bankVars
<1>3. ASSUME NEW u \in Users, NEW v \in Users, NEW a \in Amounts, BooksTip(u, v, a)
      PROVE  Abstract!BankNext
  <2> DEFINE r == Posted(u, "WITHDRAWAL", a, TipKey)
             s == Posted(v, "DEPOSIT", a, TipKey)
  <2>1. a \in Nat /\ u # v /\ balance[u] >= a /\ balance[u] \in Nat /\ balance[v] \in Int
    BY <1>1, <1>3, AmountsAssumption DEF BooksTip, DebitGuard, NonNegative
  <2>2. r \in Row /\ r.status = "COMPLETED" /\ s \in Row /\ s.status = "COMPLETED"
    <3>1. "WITHDRAWAL" \in Types /\ "DEPOSIT" \in Types /\ TipKey \in Key
      BY DEF Types, Key
    <3>2. r \in Row /\ r.status = "COMPLETED"
      BY <2>1, <3>1, PostedRow
    <3>3. s \in Row /\ s.status = "COMPLETED"
      BY <2>1, <3>1, PostedRow
    <3> QED BY <3>2, <3>3
  <2>3. rows' = Append(Append(rows, r), s)
    BY <1>3 DEF BooksTip
  <2> HIDE DEF r, s
  <2>4. PendingHolds' = PendingHolds
    <3>1. Append(rows, r) \in Seq(Row) /\ HoldsIn(Append(rows, r)) = HoldsIn(rows)
      BY <1>1, <2>2, AppendAt, HoldsAppend
    <3>2. HoldsIn(Append(Append(rows, r), s)) = HoldsIn(Append(rows, r))
      BY <2>2, <3>1, HoldsAppend
    <3> QED BY <2>3, <3>1, <3>2, HoldsOfRows
  <2>5. balance' = [balance EXCEPT ![u] = @ - a, ![v] = @ + a] /\ affiliateBalance' = affiliateBalance
    BY <1>3 DEF BooksTip
  <2>6. balance'[u] = balance[u] - a
    BY <1>1, <2>1, <2>5
  <2>7. balance'[u] \in 0..balance[u] /\ a = balance[u] - balance'[u]
    BY <2>1, <2>6
  <2>8. balance' = [balance EXCEPT ![u] = balance'[u], ![v] = @ + (balance[u] - balance'[u])]
    BY <2>5, <2>6, <2>7
  <2>9. Abstract!Give(u, v)
    BY <2>1, <2>4, <2>5, <2>7, <2>8 DEF Abstract!Give
  <2> QED BY <2>9 DEF Abstract!BankNext
<1>4. ASSUME NEW w \in 1..Len(rows), Approves(w)
      PROVE  Abstract!BankNext
  <2> DEFINE h == HoldAt(rows, w)
  <2>1. PendingHolds' = PendingHolds \ {h} /\ h \in PendingHolds
    BY <1>4, HoldsSettle, HoldsOfRows DEF Approves
  <2>2. Abstract!PayOut(h)
    BY <1>4, <2>1 DEF Approves, Abstract!PayOut
  <2> QED BY <2>1, <2>2 DEF Abstract!BankNext
<1>5. ASSUME NEW w \in 1..Len(rows), Refunds(w)
      PROVE  Abstract!BankNext
  <2> DEFINE h == HoldAt(rows, w)
             t == [rows EXCEPT ![w].status = "FAILED"]
  <2>1. IsPending(w) /\ rows' = Append(t, RefundRow(w))
    BY <1>5 DEF Refunds
  <2>2. t \in Seq(Row) /\ HoldsIn(t) = HoldsIn(rows) \ {h} /\ h \in HoldsIn(rows)
    BY <2>1, HoldsSettle
  <2> HIDE DEF t
  <2>3. HoldsIn(rows') = HoldsIn(t)
    BY <2>1, <2>2, HoldsAppend, RefundRowType
  <2>4. h.user = rows[w].user /\ h.amount = rows[w].amount
    BY DEF HoldAt
  <2> HIDE DEF h
  <2>5. PendingHolds' = PendingHolds \ {h} /\ h \in PendingHolds
    BY <2>2, <2>3, HoldsOfRows
  <2>6. Abstract!GiveBack(h)
    BY <1>5, <2>4, <2>5 DEF Refunds, Abstract!GiveBack, Abstract!Changes
  <2> QED BY <2>5, <2>6 DEF Abstract!BankNext
<1> QED BY <1>2, <1>3, <1>4, <1>5

\* The ledger, with its concurrent transactions, retried credits and administrator
\* verbs, implements the bank: every step is one step of the bank or none.
THEOREM LedgerImplementsBank == Spec => ImplementsBank
<1>1. Init => Abstract!BankInit
  BY DEF Init, Abstract!BankInit, PendingHolds
<1>2. (TypeOK /\ OpenOK) /\ NonNegative /\ [Next]_vars => [Abstract!BankNext]_(Abstract!bankVars)
  BY StepShape, BookedIsBank, OthersAreBank DEF Shape
<1> QED BY TypeCorrect, NeverOverdrawn, <1>1, <1>2, PTL DEF Spec, ImplementsBank, Abstract!BankSpec

-----------------------------------------------------------------------------
(* What moves through a gateway *)

(* The inductive invariant *)

\* The gateway will never send these.
Dead(w) == payout[w] \in {"none", "refused", "failed"}

\* Nothing was sent before the dispatch, and until it is over only the hold exists.
EarlyOK ==
  \A w \in Withdrawals : call[w] \in {"idle", "create", "dispatch"} =>
    payout[w] = "none" /\ ledger[w] \in {"none", "PENDING"}

\* A refusal is read where the gateway refused, or nothing reached it.
RefusalOK ==
  \A w \in Withdrawals : call[w] \in {"refused", "release"} =>
    payout[w] \in {"none", "refused"}

\* With a gateway nobody pays by hand, without one nobody else does; its answer was
\* true when it was written, and what it says of the end stays true.
GatewayOK ==
  \A w \in Withdrawals :
    /\ call[w] \in {"await", "refused", "release", "paid", "process", "fail"} => gateway # "MANUAL"
    /\ call[w] = "paid" => payout[w] = "sent"
    /\ call[w] = "fail" => payout[w] = "failed"
    /\ gateway = "MANUAL" => payout[w] \in {"none", "sent"}

\* The payouts that are known by an id, and those the ledger decided, are past createWithdrawal.
DoneOK ==
  /\ \A w \in known : call[w] = "done"
  /\ \A w \in Withdrawals : ledger[w] \in {"COMPLETED", "FAILED"} => call[w] = "done"

\* What the ledger decided is what becomes of the payout.
LedgerOK ==
  \A w \in Withdrawals :
    /\ ledger[w] = "FAILED" => Dead(w)
    /\ ledger[w] = "COMPLETED" => payout[w] = "sent"

\* A callback reports what the gateway did; a handler has one of a payout that is known.
Reports(m) ==
  /\ m.status = "fail" => payout[m.withdrawal] = "failed"
  /\ m.status = "paid" => payout[m.withdrawal] = "sent"
CallbacksOK ==
  /\ \A m \in callbacks : Reports(m)
  /\ \A h \in Hooks : hook[h] # NotHandling =>
       Reports(hook[h].of) /\ hook[h].of.withdrawal \in known /\ gateway = "CRYPTOMUS"
  /\ \A h \in Hooks : hook[h].pc = "reject" => hook[h].of.status = "fail"

\* The row repeats the ledger, the gateway or a refusal.
RowOK ==
  /\ \A w \in Withdrawals :
       /\ row[w] = "FAILED" => Dead(w) /\ gateway # "MANUAL" /\ call[w] \in {"release", "done"}
       /\ row[w] = "PAID" => payout[w] = "sent"
       /\ row[w] = "CONFIRMED" => ledger[w] = "COMPLETED"
       /\ row[w] = "CANCELLED" => ledger[w] = "FAILED"
  /\ \A w \in marking : ledger[w] \in {"COMPLETED", "FAILED"}

Honest ==
  EarlyOK /\ RefusalOK /\ GatewayOK /\ DoneOK /\ LedgerOK /\ CallbacksOK /\ RowOK
Inv == PayoutsTypeOK /\ Honest

-----------------------------------------------------------------------------
(* It holds at the start *)

LEMMA InvInit == ASSUME PayoutsAssumption, PayoutsInit PROVE Inv
<1>1. PayoutsTypeOK
  BY DEF PayoutsInit, PayoutsTypeOK, PayoutsAssumption, PayoutBoundsAssumption, LedgerStatuses, RowStatuses, Fates, Steps,
         Hook, NotHandling
<1>2. EarlyOK /\ RefusalOK /\ GatewayOK /\ DoneOK /\ LedgerOK
  BY DEF PayoutsInit, EarlyOK, RefusalOK, GatewayOK, DoneOK, LedgerOK
<1>3. CallbacksOK /\ RowOK
  BY DEF PayoutsInit, CallbacksOK, RowOK, NotHandling
<1> QED BY <1>1, <1>2, <1>3 DEF Inv, Honest

-----------------------------------------------------------------------------
(* The types *)

\* What the types say of one callback and of one handler.
Messages ==
  /\ \A word \in {"paid", "process", "fail"} :
       /\ Mapped(word) \in RowStatuses
       /\ Mapped(word) = "PAID" <=> word = "paid"
       /\ Mapped(word) = "FAILED" <=> word = "fail"
       /\ Mapped(word) \notin {"CONFIRMED", "CANCELLED"}
       /\ IsPayoutFailure(Mapped(word)) <=> word = "fail"
  /\ \A m \in callbacks : m.withdrawal \in Withdrawals /\ m.status \in {"paid", "process", "fail"}
  /\ \A h \in Hooks : hook[h].pc \in {"update", "reject"} <=> hook[h] # NotHandling
  /\ \A h \in Hooks : hook[h] # NotHandling =>
       /\ hook[h].of \in Callback /\ hook[h].old \in RowStatuses
       /\ hook[h].of.withdrawal \in Withdrawals
       /\ hook[h].of.status \in {"paid", "process", "fail"}

LEMMA MessagesOK == ASSUME PayoutsTypeOK PROVE Messages
<1>1. \A word \in {"paid", "process", "fail"} :
        /\ Mapped(word) \in RowStatuses
        /\ Mapped(word) = "PAID" <=> word = "paid"
        /\ Mapped(word) = "FAILED" <=> word = "fail"
        /\ Mapped(word) \notin {"CONFIRMED", "CANCELLED"}
        /\ IsPayoutFailure(Mapped(word)) <=> word = "fail"
  BY DEF Mapped, RowStatuses, IsPayoutFailure
<1>2. \A m \in callbacks : m.withdrawal \in Withdrawals /\ m.status \in {"paid", "process", "fail"}
  BY DEF PayoutsTypeOK, Callback, Words
<1>3. \A h \in Hooks : hook[h].pc \in {"update", "reject"} <=> hook[h] # NotHandling
  BY DEF PayoutsTypeOK, Hook, NotHandling
<1>4. \A h \in Hooks : hook[h] # NotHandling => hook[h].of \in Callback /\ hook[h].old \in RowStatuses
  BY DEF PayoutsTypeOK, Hook, NotHandling
<1>5. \A h \in Hooks : hook[h] # NotHandling =>
        hook[h].of.withdrawal \in Withdrawals /\ hook[h].of.status \in {"paid", "process", "fail"}
  BY <1>4 DEF Callback, Words
<1> QED BY <1>1, <1>2, <1>3, <1>4, <1>5 DEF Messages

\* A handler that is done, and one that goes on.
LEMMA HookTypes ==
  ASSUME PayoutsTypeOK, NEW h \in Hooks
  PROVE  /\ NotHandling \in Hook /\ [hook EXCEPT ![h] = NotHandling] \in [Hooks -> Hook]
         /\ hook[h] # NotHandling => [hook EXCEPT ![h].pc = "reject"] \in [Hooks -> Hook]
<1>1. NotHandling \in Hook /\ [hook EXCEPT ![h] = NotHandling] \in [Hooks -> Hook]
  BY DEF PayoutsTypeOK, Hook
<1>2. ASSUME hook[h] # NotHandling PROVE [hook EXCEPT ![h].pc = "reject"] \in [Hooks -> Hook]
  <2>1. hook[h] \in [pc : {"update", "reject"}, of : Callback, old : RowStatuses]
    BY <1>2 DEF PayoutsTypeOK, Hook
  <2>2. [hook[h] EXCEPT !.pc = "reject"] \in Hook
    BY <2>1 DEF Hook
  <2> QED BY <2>2 DEF PayoutsTypeOK
<1> QED BY <1>1, <1>2

LEMMA TypeStep == ASSUME PayoutsAssumption, PayoutsTypeOK, [PayoutsNext]_payoutVars PROVE PayoutsTypeOK'
<1>1. ASSUME NEW w \in Withdrawals, Reserve(w) \/ CreateRow(w) \/ Queue(w) \/ Save(w) \/ Review(w) \/ Refuse(w)
      PROVE  PayoutsTypeOK'
  <2>1. CASE Save(w)
    BY <2>1 DEF PayoutsTypeOK, Save, Step, Mapped, RowStatuses, Steps
  <2> QED BY <1>1, <2>1 DEF PayoutsTypeOK, Reserve, CreateRow, Queue, Review, Refuse, Step, LedgerStatuses,
                            RowStatuses, Steps
<1>2. ASSUME NEW w \in Withdrawals, Send(w) \/ Release(w) \/ ReleaseFails(w) PROVE PayoutsTypeOK'
  BY <1>2 DEF PayoutsTypeOK, Send, Release, ReleaseFails, Step, Rejected, LedgerStatuses, Fates, Steps,
              PayoutsAssumption, PayoutBoundsAssumption
<1>3. ASSUME NEW w \in Withdrawals, Answer(w) PROVE PayoutsTypeOK'
  <2>1. \A answer \in Answers(w) : TakenAs(answer) \in Steps
    BY DEF Answers, Told, TakenAs, Steps, Words
  <2> QED BY <1>3, <2>1 DEF Answer, Step, PayoutsTypeOK
<1>4. ASSUME NEW w \in Withdrawals, Approve(w) \/ Reject(w) PROVE PayoutsTypeOK'
  BY <1>4 DEF PayoutsTypeOK, Approve, Reject, Decide, LedgerStatuses, Fates
<1>5. ASSUME NEW w \in Withdrawals, Mark(w) PROVE PayoutsTypeOK'
  BY <1>5 DEF PayoutsTypeOK, Mark, Decision, RowStatuses
<1>6. ASSUME NEW w \in Withdrawals, GatewayDecides(w) \/ GatewayFinishes(w) PROVE PayoutsTypeOK'
  <2>1. \A status \in {"paid", "process", "fail"} : [withdrawal |-> w, status |-> status] \in Callback
    BY DEF Callback, Words
  <2>2. callbacks' \subseteq Callback
    BY <1>6, <2>1 DEF PayoutsTypeOK, GatewayDecides, GatewayFinishes
  <2> QED BY <1>6, <2>2 DEF PayoutsTypeOK, GatewayDecides, GatewayFinishes, Fates
<1>7. ASSUME NEW h \in Hooks, Receive(h) PROVE PayoutsTypeOK'
  <2>1. PICK m \in callbacks :
          \/ hook' = [hook EXCEPT ![h] = [pc |-> "update", of |-> m, old |-> row[m.withdrawal]]]
          \/ UNCHANGED hook
    BY <1>7 DEF Receive
  <2>2. row[m.withdrawal] \in RowStatuses
    BY MessagesOK DEF PayoutsTypeOK, Messages
  <2>3. hook' \in [Hooks -> Hook]
    <3>1. [pc |-> "update", of |-> m, old |-> row[m.withdrawal]] \in Hook
      BY <2>2 DEF PayoutsTypeOK, Hook
    <3> QED BY <2>1, <3>1 DEF PayoutsTypeOK
  <2> QED BY <1>7, <2>3 DEF PayoutsTypeOK, Receive
<1>8. ASSUME NEW h \in Hooks, UpdateRow(h) PROVE PayoutsTypeOK'
  <2>1. hook' \in [Hooks -> Hook]
    BY <1>8, HookTypes, MessagesOK DEF UpdateRow, Ack, Messages
  <2>2. row' \in [Withdrawals -> RowStatuses]
    BY <1>8, MessagesOK DEF UpdateRow, PayoutsTypeOK, Messages
  <2> QED BY <1>8, <2>1, <2>2 DEF PayoutsTypeOK, UpdateRow, Ack
<1>9. ASSUME NEW h \in Hooks, RejectHold(h) \/ RejectHoldFails(h) PROVE PayoutsTypeOK'
  <2>1. hook' \in [Hooks -> Hook] /\ callbacks' \subseteq Callback
    BY <1>9, HookTypes DEF RejectHold, RejectHoldFails, Ack, PayoutsTypeOK
  <2>2. ledger' \in [Withdrawals -> LedgerStatuses] /\ errors' \in 0..MaxErrors
    BY <1>9 DEF RejectHold, RejectHoldFails, Rejected, PayoutsTypeOK, LedgerStatuses, PayoutsAssumption,
                PayoutBoundsAssumption
  <2> QED BY <1>9, <2>1, <2>2 DEF PayoutsTypeOK, RejectHold, RejectHoldFails
<1>10. CASE Die
  <2>1. hook' \in [Hooks -> Hook]
    BY <1>10 DEF Die, Hook
  <2> QED BY <1>10, <2>1 DEF Die, PayoutsTypeOK, Steps, PayoutsAssumption, PayoutBoundsAssumption
<1>11. CASE UNCHANGED payoutVars
  BY <1>11 DEF payoutVars, PayoutsTypeOK
<1> QED BY <1>1, <1>2, <1>3, <1>4, <1>5, <1>6, <1>7, <1>8, <1>9, <1>10, <1>11 DEF PayoutsNext, Dispatch, Handle

-----------------------------------------------------------------------------
(* createWithdrawal *)

\* A call that goes on; the others stay.
LEMMA Moves ==
  ASSUME PayoutsTypeOK, NEW w \in Withdrawals, NEW from, NEW to, Step(w, from, to)
  PROVE  call[w] = from /\ call'[w] = to /\ \A v \in Withdrawals : v # w => call'[v] = call[v]
  BY DEF PayoutsTypeOK, Step

\* A step that leaves callbacks, handlers, payouts and known ids alone keeps their part.
LEMMA CallbacksKeep ==
  ASSUME CallbacksOK, UNCHANGED <<gateway, known, payout, callbacks, hook>>
  PROVE  CallbacksOK'
  BY DEF CallbacksOK, Reports

LEMMA ReserveKeeps == ASSUME Inv, NEW w \in Withdrawals, Reserve(w) PROVE Honest'
<1> USE DEF Inv, Honest
<1>1. /\ call[w] = "idle" /\ call'[w] = "create" /\ \A v \in Withdrawals : v # w => call'[v] = call[v]
      /\ ledger'[w] = "PENDING" /\ \A v \in Withdrawals : v # w => ledger'[v] = ledger[v]
      /\ UNCHANGED <<gateway, row, known, payout, callbacks, hook, marking>>
  BY Moves DEF Reserve, PayoutsTypeOK
<1>2. EarlyOK' /\ RefusalOK' /\ GatewayOK' /\ DoneOK' /\ LedgerOK'
  BY <1>1 DEF EarlyOK, RefusalOK, GatewayOK, DoneOK, LedgerOK, Dead, PayoutsTypeOK
<1>3. RowOK'
  BY <1>1 DEF RowOK, DoneOK, Dead, PayoutsTypeOK
<1> QED BY <1>1, <1>2, <1>3, CallbacksKeep

\* A step of createWithdrawal that writes the row, or nothing.
LEMMA WritesKeep ==
  ASSUME Inv, NEW w \in Withdrawals, NEW from, NEW to \in Steps, Step(w, from, to),
         UNCHANGED <<gateway, ledger, known, payout, callbacks, hook, marking>>,
         row' = row \/ row' = [row EXCEPT ![w] = "PENDING"]
           \/ row' = [row EXCEPT ![w] = "PENDING_ADMIN_REVIEW"]
           \/ (row' = [row EXCEPT ![w] = "FAILED"] /\ to = "release"),
         from # "idle", from # "done", from = "release" => to = "done",
         to \in {"create", "dispatch"} => from \in {"create", "dispatch"},
         to \in {"refused", "release"} => payout[w] \in {"none", "refused"},
         to \in {"await", "refused", "release", "paid", "process", "fail"} => gateway # "MANUAL",
         to = "paid" => payout[w] = "sent", to = "fail" => payout[w] = "failed",
         to # "idle"
  PROVE  Honest'
<1> USE DEF Inv, Honest
<1>1. call[w] = from /\ call'[w] = to /\ \A v \in Withdrawals : v # w => call'[v] = call[v]
  BY Moves
<1>2. /\ \A v \in Withdrawals : v # w => row'[v] = row[v]
      /\ row'[w] \in {row[w], "PENDING", "PENDING_ADMIN_REVIEW"} \/ (row'[w] = "FAILED" /\ to = "release")
  BY DEF PayoutsTypeOK
<1>3. w \notin known /\ ledger[w] \notin {"COMPLETED", "FAILED"}
  BY <1>1 DEF DoneOK
<1>4. EarlyOK' /\ RefusalOK' /\ GatewayOK' /\ DoneOK' /\ LedgerOK'
  BY <1>1, <1>3 DEF EarlyOK, RefusalOK, GatewayOK, DoneOK, LedgerOK, Dead, PayoutsTypeOK
<1>5. RowOK'
  BY <1>1, <1>2, <1>3 DEF RowOK, Dead, PayoutsTypeOK
<1> QED BY <1>4, <1>5, CallbacksKeep

LEMMA DispatchKeeps ==
  ASSUME CleanAnswers, Inv, NEW w \in Withdrawals, Dispatch(w) PROVE Honest'
<1> USE DEF Inv, Honest
<1>1. CASE CreateRow(w)
  BY <1>1, WritesKeep DEF CreateRow, Steps
<1>2. CASE Queue(w)
  BY <1>2, WritesKeep DEF Queue, Steps
<1>3. CASE Send(w)
  <2>1. /\ call[w] = "dispatch" /\ call'[w] = "await" /\ \A v \in Withdrawals : v # w => call'[v] = call[v]
        /\ \A v \in Withdrawals : v # w => payout'[v] = payout[v]
        /\ gateway # "MANUAL" /\ payout[w] = "none" /\ ledger[w] \in {"none", "PENDING"} /\ w \notin known
        /\ UNCHANGED <<gateway, ledger, row, known, callbacks, hook, marking>>
    BY <1>3, Moves DEF Send, PayoutsTypeOK, EarlyOK, DoneOK
  <2>2. EarlyOK' /\ RefusalOK' /\ GatewayOK' /\ DoneOK' /\ LedgerOK'
    BY <2>1 DEF EarlyOK, RefusalOK, GatewayOK, DoneOK, LedgerOK, Dead, PayoutsTypeOK
  <2>3. RowOK'
    BY <2>1 DEF RowOK, Dead, PayoutsTypeOK
  <2>4. CallbacksOK'
    BY <2>1, MessagesOK DEF CallbacksOK, Reports, Messages
  <2> QED BY <2>2, <2>3, <2>4
<1>4. CASE Answer(w)
  <2>1. PICK answer \in Answers(w) : Step(w, "await", TakenAs(answer))
    BY <1>4 DEF Answer
  <2>2. /\ TakenAs(answer) \in {"ambiguous", "refused", "paid", "process", "fail"}
        /\ TakenAs(answer) = "refused" => payout[w] \in {"none", "refused"}
        /\ TakenAs(answer) = "paid" => payout[w] = "sent"
        /\ TakenAs(answer) = "fail" => payout[w] = "failed"
    <3>1. answer \in {"silence"} \cup Told(w) \cup ({payout[w]} \cap {"refused"})
                       \cup (IF payout[w] = "none" THEN {"refused"} ELSE {})
      BY <2>1 DEF Answers
    <3>2. \/ answer = "process" \/ answer = "silence"
          \/ answer = "paid" /\ payout[w] = "sent"
          \/ answer = "fail" /\ payout[w] = "failed"
          \/ answer = "refused" /\ payout[w] \in {"none", "refused"}
      BY <3>1 DEF Told
    <3> QED BY <3>2 DEF TakenAs
  <2>3. gateway # "MANUAL"
    BY <2>1 DEF GatewayOK, Step
  <2>4. TakenAs(answer) \in Steps
    BY <2>2 DEF Steps, Words
  <2> QED BY <1>4, <2>1, <2>2, <2>3, <2>4, WritesKeep DEF Answer
<1>5. CASE Save(w)
  <2>1. PICK word \in Words : Step(w, word, "done") /\ row' = [row EXCEPT ![w] = Mapped(word)]
    BY <1>5 DEF Save
  <2>2. /\ call[w] = word /\ call'[w] = "done" /\ \A v \in Withdrawals : v # w => call'[v] = call[v]
        /\ row'[w] = Mapped(word) /\ \A v \in Withdrawals : v # w => row'[v] = row[v]
        /\ known' = known \cup {w} /\ word \in {"paid", "process", "fail"}
        /\ UNCHANGED <<gateway, ledger, payout, callbacks, hook, marking>>
    BY <1>5, <2>1, Moves DEF Save, PayoutsTypeOK, Words
  <2>3. /\ ledger[w] \notin {"COMPLETED", "FAILED"} /\ gateway # "MANUAL"
        /\ word = "paid" => payout[w] = "sent"
        /\ word = "fail" => payout[w] = "failed"
    BY <2>2 DEF DoneOK, GatewayOK
  <2>4. EarlyOK' /\ RefusalOK' /\ GatewayOK' /\ DoneOK' /\ LedgerOK'
    BY <2>2, <2>3 DEF EarlyOK, RefusalOK, GatewayOK, DoneOK, LedgerOK, Dead, PayoutsTypeOK
  <2>5. RowOK'
    <3>1. /\ row'[w] = "FAILED" => payout[w] = "failed"
          /\ row'[w] = "PAID" => payout[w] = "sent"
          /\ row'[w] \notin {"CONFIRMED", "CANCELLED"}
      BY <2>2, <2>3, MessagesOK DEF Messages
    <3> QED BY <2>2, <2>3, <3>1 DEF RowOK, Dead, PayoutsTypeOK
  <2>6. CallbacksOK'
    BY <2>2 DEF CallbacksOK, Reports
  <2> QED BY <2>4, <2>5, <2>6
<1>6. CASE Review(w)
  BY <1>6, WritesKeep DEF Review, Steps
<1>7. CASE Refuse(w)
  <2>1. payout[w] \in {"none", "refused"} /\ gateway # "MANUAL"
    BY <1>7 DEF Refuse, Step, RefusalOK, GatewayOK
  <2> QED BY <1>7, <2>1, WritesKeep DEF Refuse, Steps
<1>8. CASE Release(w)
  <2>1. /\ call[w] = "release" /\ call'[w] = "done" /\ \A v \in Withdrawals : v # w => call'[v] = call[v]
        /\ ledger'[w] \in {"FAILED", ledger[w]} /\ \A v \in Withdrawals : v # w => ledger'[v] = ledger[v]
        /\ ledger[w] \notin {"COMPLETED", "FAILED"} /\ Dead(w) /\ w \notin known
        /\ UNCHANGED <<gateway, row, known, payout, callbacks, hook, marking>>
    BY <1>8, Moves DEF Release, Rejected, PayoutsTypeOK, DoneOK, RefusalOK, Dead
  <2>2. EarlyOK' /\ RefusalOK' /\ GatewayOK' /\ DoneOK' /\ LedgerOK'
    BY <2>1 DEF EarlyOK, RefusalOK, GatewayOK, DoneOK, LedgerOK, Dead, PayoutsTypeOK
  <2>3. RowOK'
    BY <2>1 DEF RowOK, Dead, PayoutsTypeOK
  <2> QED BY <2>1, <2>2, <2>3, CallbacksKeep
<1>9. CASE ReleaseFails(w)
  BY <1>9, WritesKeep DEF ReleaseFails, Steps
<1> QED BY <1>1, <1>2, <1>3, <1>4, <1>5, <1>6, <1>7, <1>8, <1>9 DEF Dispatch

-----------------------------------------------------------------------------
(* The payout webhook *)

LEMMA ReceiveKeeps == ASSUME Inv, NEW h \in Hooks, Receive(h) PROVE Honest'
<1> USE DEF Inv, Honest
<1>1. UNCHANGED <<gateway, ledger, row, known, payout, call, marking>> /\ hook[h] = NotHandling
  BY DEF Receive
<1>2. CallbacksOK'
  <2>1. PICK m \in callbacks :
          \/ /\ gateway = "CRYPTOMUS" /\ m.withdrawal \in known
             /\ hook' = [hook EXCEPT ![h] = [pc |-> "update", of |-> m, old |-> row[m.withdrawal]]]
             /\ UNCHANGED callbacks
          \/ callbacks' = callbacks \ {m} /\ UNCHANGED hook
    BY DEF Receive
  <2>2. CASE UNCHANGED hook /\ callbacks' \subseteq callbacks
    BY <1>1, <2>2 DEF CallbacksOK, Reports
  <2>3. CASE /\ gateway = "CRYPTOMUS" /\ m.withdrawal \in known
             /\ hook' = [hook EXCEPT ![h] = [pc |-> "update", of |-> m, old |-> row[m.withdrawal]]]
             /\ UNCHANGED callbacks
    <3>1. /\ hook'[h].pc = "update" /\ hook'[h].of = m
          /\ \A g \in Hooks : g # h => hook'[g] = hook[g]
      BY <2>3 DEF PayoutsTypeOK
    <3> QED BY <1>1, <2>3, <3>1 DEF CallbacksOK, Reports
  <2> QED BY <2>1, <2>2, <2>3
<1>3. EarlyOK' /\ RefusalOK' /\ GatewayOK' /\ DoneOK' /\ LedgerOK' /\ RowOK'
  BY <1>1 DEF EarlyOK, RefusalOK, GatewayOK, DoneOK, LedgerOK, RowOK, Dead
<1> QED BY <1>2, <1>3

\* A handler that is done leaves the others and the callbacks that remain as they were.
LEMMA AckKeeps ==
  ASSUME PayoutsTypeOK, CallbacksOK, NEW h \in Hooks, Ack(h), UNCHANGED <<gateway, known, payout>>
  PROVE  CallbacksOK'
<1>1. /\ hook'[h] = NotHandling /\ NotHandling.pc = "idle" /\ \A g \in Hooks : g # h => hook'[g] = hook[g]
      /\ callbacks' \subseteq callbacks
  BY DEF Ack, PayoutsTypeOK, NotHandling
<1> QED BY <1>1 DEF CallbacksOK, Reports

LEMMA UpdateRowKeeps == ASSUME Inv, NEW h \in Hooks, UpdateRow(h) PROVE Honest'
<1> USE DEF Inv, Honest
<1> DEFINE w == hook[h].of.withdrawal
           status == hook[h].of.status
<1>1. /\ hook[h] # NotHandling /\ w \in Withdrawals /\ w \in known /\ call[w] = "done" /\ gateway = "CRYPTOMUS"
      /\ status \in {"paid", "process", "fail"} /\ Reports(hook[h].of)
  BY MessagesOK DEF UpdateRow, Messages, CallbacksOK, DoneOK
<1>2. /\ row'[w] = Mapped(status) /\ \A v \in Withdrawals : v # w => row'[v] = row[v]
      /\ UNCHANGED <<gateway, ledger, known, payout, call, marking>>
  BY <1>1 DEF UpdateRow, PayoutsTypeOK
<1>3. /\ row'[w] = "PAID" => payout[w] = "sent"
      /\ row'[w] = "FAILED" => Dead(w)
      /\ row'[w] \notin {"CONFIRMED", "CANCELLED"}
  BY <1>1, <1>2, MessagesOK DEF Messages, Reports, Dead
<1>4. RowOK'
  BY <1>1, <1>2, <1>3 DEF RowOK, Dead
<1>5. CallbacksOK'
  <2>1. CASE NewlyFailed(hook[h].old, Mapped(status))
    <3>1. status = "fail" /\ hook' = [hook EXCEPT ![h].pc = "reject"] /\ UNCHANGED callbacks
      BY <1>1, <2>1, MessagesOK DEF UpdateRow, NewlyFailed, Messages
    <3>2. /\ hook'[h].of = hook[h].of /\ \A g \in Hooks : g # h => hook'[g] = hook[g]
          /\ hook'[h] # NotHandling => hook[h] # NotHandling
      BY <1>1, <3>1 DEF PayoutsTypeOK, Hook
    <3> QED BY <1>2, <3>1, <3>2 DEF CallbacksOK, Reports
  <2>2. CASE Ack(h)
    BY <1>2, <2>2, AckKeeps
  <2> QED BY <2>1, <2>2 DEF UpdateRow
<1>6. EarlyOK' /\ RefusalOK' /\ GatewayOK' /\ DoneOK' /\ LedgerOK'
  BY <1>2 DEF EarlyOK, RefusalOK, GatewayOK, DoneOK, LedgerOK, Dead, PayoutsTypeOK
<1> QED BY <1>4, <1>5, <1>6

LEMMA RejectHoldKeeps == ASSUME Inv, NEW h \in Hooks, RejectHold(h) \/ RejectHoldFails(h) PROVE Honest'
<1> USE DEF Inv, Honest
<1> DEFINE w == hook[h].of.withdrawal
<1>1. /\ w \in Withdrawals /\ w \in known /\ call[w] = "done" /\ Dead(w)
  BY MessagesOK DEF RejectHold, RejectHoldFails, Messages, CallbacksOK, DoneOK, Reports, Dead
<1>2. /\ ledger'[w] = ledger[w] \/ (ledger[w] = "PENDING" /\ ledger'[w] = "FAILED")
      /\ \A v \in Withdrawals : v # w => ledger'[v] = ledger[v]
      /\ UNCHANGED <<gateway, row, known, payout, call, marking>> /\ Ack(h)
  BY <1>1 DEF RejectHold, RejectHoldFails, Rejected, PayoutsTypeOK
<1>3. EarlyOK' /\ RefusalOK' /\ GatewayOK' /\ DoneOK' /\ LedgerOK'
  BY <1>1, <1>2 DEF EarlyOK, RefusalOK, GatewayOK, DoneOK, LedgerOK, Dead, PayoutsTypeOK
<1>4. RowOK'
  BY <1>1, <1>2 DEF RowOK, Dead, PayoutsTypeOK
<1> QED BY <1>2, <1>3, <1>4, AckKeeps

-----------------------------------------------------------------------------
(* The operator, the gateway, and the death of the process *)

LEMMA DecideKeeps == ASSUME Inv, NEW w \in Withdrawals, Approve(w) \/ Reject(w) PROVE Honest'
<1> USE DEF Inv, Honest
<1>1. /\ ledger[w] = "PENDING" /\ call[w] = "done"
      /\ \A v \in Withdrawals : v # w => ledger'[v] = ledger[v] /\ payout'[v] = payout[v]
      /\ marking' \subseteq marking \cup {w}
      /\ UNCHANGED <<gateway, row, known, call, callbacks, hook>>
  BY DEF Approve, Reject, Decide, PayoutsTypeOK
<1>2. \/ ledger'[w] = "COMPLETED" /\ payout'[w] = "sent" /\ (payout[w] = "sent" \/ gateway = "MANUAL")
      \/ ledger'[w] = "FAILED" /\ Dead(w) /\ payout'[w] = payout[w]
  BY DEF Approve, Reject, Decide, PayoutsTypeOK, Dead
<1>3. EarlyOK' /\ RefusalOK' /\ GatewayOK' /\ DoneOK' /\ LedgerOK'
  BY <1>1, <1>2 DEF EarlyOK, RefusalOK, GatewayOK, DoneOK, LedgerOK, Dead, PayoutsTypeOK
<1>4. RowOK'
  BY <1>1, <1>2 DEF RowOK, Dead, PayoutsTypeOK
<1>5. CallbacksOK'
  <2>1. CASE UNCHANGED payout
    BY <1>1, <2>1, CallbacksKeep
  <2>2. CASE gateway = "MANUAL" /\ payout'[w] = "sent"
    <3>1. \A h \in Hooks : hook[h] = NotHandling
      BY <2>2 DEF CallbacksOK
    <3>2. \A m \in callbacks : m.withdrawal \in Withdrawals /\ m.status # "fail"
      BY <2>2, MessagesOK DEF CallbacksOK, Messages, Reports, GatewayOK
    <3>3. \A m \in callbacks : Reports(m)'
      BY <1>1, <2>2, <3>2 DEF CallbacksOK, Reports
    <3> QED BY <1>1, <3>1, <3>3 DEF CallbacksOK, NotHandling
  <2>3. UNCHANGED payout \/ (gateway = "MANUAL" /\ payout'[w] = "sent")
    BY DEF Approve, Reject, PayoutsTypeOK
  <2> QED BY <2>1, <2>2, <2>3
<1> QED BY <1>3, <1>4, <1>5

LEMMA MarkKeeps == ASSUME Inv, NEW w \in Withdrawals, Mark(w) PROVE Honest'
<1> USE DEF Inv, Honest
<1>1. /\ UNCHANGED <<gateway, ledger, known, payout, call, callbacks, hook>>
      /\ marking' \subseteq marking /\ \A v \in Withdrawals : v # w => row'[v] = row[v]
      /\ row'[w] = Decision(w) /\ ledger[w] \in {"COMPLETED", "FAILED"}
  BY DEF Mark, PayoutsTypeOK, RowOK
<1>2. RowOK'
  BY <1>1 DEF RowOK, Dead, Decision
<1>3. EarlyOK' /\ RefusalOK' /\ GatewayOK' /\ DoneOK' /\ LedgerOK'
  BY <1>1 DEF EarlyOK, RefusalOK, GatewayOK, DoneOK, LedgerOK, Dead, PayoutsTypeOK
<1> QED BY <1>1, <1>2, <1>3, CallbacksKeep

LEMMA GatewayKeeps ==
  ASSUME Inv, NEW w \in Withdrawals, GatewayDecides(w) \/ GatewayFinishes(w) PROVE Honest'
<1> USE DEF Inv, Honest
<1>1. /\ UNCHANGED <<gateway, ledger, row, known, call, hook, marking>>
      /\ payout[w] \in {"undecided", "accepted"}
      /\ \A v \in Withdrawals : v # w => payout'[v] = payout[v]
      /\ payout'[w] \in {"accepted", "refused", "sent", "failed"}
  BY DEF GatewayDecides, GatewayFinishes, PayoutsTypeOK
<1>2. ~Dead(w) /\ payout[w] # "sent" /\ payout[w] \notin {"none", "refused"}
  BY <1>1 DEF Dead
<1>3. EarlyOK' /\ RefusalOK' /\ GatewayOK' /\ DoneOK' /\ LedgerOK'
  BY <1>1, <1>2 DEF EarlyOK, RefusalOK, GatewayOK, DoneOK, LedgerOK, Dead, PayoutsTypeOK
<1>4. RowOK'
  BY <1>1, <1>2 DEF RowOK, Dead
<1>5. CallbacksOK'
  <2>1. \A m : m.withdrawal \in Withdrawals /\ Reports(m) => Reports(m)'
    BY <1>1, <1>2 DEF Reports
  <2>2. \A m \in callbacks' : Reports(m)'
    <3>1. \A m \in callbacks : Reports(m)'
      BY <2>1, MessagesOK DEF CallbacksOK, Messages
    <3>2. \A m \in callbacks' \ callbacks : Reports(m)'
      BY DEF GatewayDecides, GatewayFinishes, Reports, PayoutsTypeOK
    <3> QED BY <3>1, <3>2
  <2>3. \A h \in Hooks : hook[h] # NotHandling => Reports(hook[h].of)'
    BY <1>1, <2>1, MessagesOK DEF CallbacksOK, Messages
  <2> QED BY <1>1, <2>2, <2>3 DEF CallbacksOK
<1> QED BY <1>3, <1>4, <1>5

LEMMA DieKeeps == ASSUME Inv, Die PROVE Honest'
<1> USE DEF Inv, Honest
<1>1. /\ \A w \in Withdrawals : call'[w] = IF call[w] = "idle" THEN "idle" ELSE "done"
      /\ \A h \in Hooks : hook'[h] = NotHandling
      /\ NotHandling.pc = "idle" /\ marking' = {} /\ known \subseteq Withdrawals
      /\ UNCHANGED <<gateway, ledger, row, known, payout, callbacks>>
  BY DEF Die, NotHandling, PayoutsTypeOK
<1>2. EarlyOK' /\ RefusalOK' /\ GatewayOK' /\ DoneOK' /\ LedgerOK'
  BY <1>1 DEF EarlyOK, RefusalOK, GatewayOK, DoneOK, LedgerOK, Dead, PayoutsTypeOK
<1>3. RowOK' /\ CallbacksOK'
  BY <1>1 DEF RowOK, CallbacksOK, Reports, Dead
<1> QED BY <1>2, <1>3

LEMMA InvStep == ASSUME PayoutsAssumption, CleanAnswers, Inv, [PayoutsNext]_payoutVars PROVE Inv'
<1>1. PayoutsTypeOK'
  BY TypeStep DEF Inv
<1>2. Honest'
  <2>1. CASE UNCHANGED payoutVars
    BY <2>1 DEF payoutVars, Inv, Honest, EarlyOK, RefusalOK, GatewayOK, DoneOK, LedgerOK, CallbacksOK, RowOK,
                Reports, Dead
  <2>2. CASE PayoutsNext
    BY <2>2, ReserveKeeps, DispatchKeeps, DecideKeeps, MarkKeeps, GatewayKeeps, ReceiveKeeps, UpdateRowKeeps,
       RejectHoldKeeps, DieKeeps DEF PayoutsNext, Handle
  <2> QED BY <2>1, <2>2
<1> QED BY <1>1, <1>2 DEF Inv

-----------------------------------------------------------------------------
(* The theorems *)

LEMMA Invariant == ASSUME PayoutsAssumption, CleanAnswers PROVE PayoutsSpec => []Inv
<1>1. PayoutsInit => Inv
  BY InvInit
<1>2. Inv /\ [PayoutsNext]_payoutVars => Inv'
  BY InvStep
<1> QED BY <1>1, <1>2, PTL DEF PayoutsSpec

\* The ledger, the row, the gateway and every call and handler between them keep their
\* types, whatever the answers look like.
THEOREM PayoutsTypeCorrect == ASSUME PayoutsAssumption PROVE PayoutsSpec => []PayoutsTypeOK
<1>1. PayoutsInit => PayoutsTypeOK
  BY InvInit DEF Inv
<1>2. PayoutsTypeOK /\ [PayoutsNext]_payoutVars => PayoutsTypeOK'
  BY TypeStep
<1> QED BY <1>1, <1>2, PTL DEF PayoutsSpec

\* "They kept the balance AND received the transfer" never happens while the gateway's
\* answers can be read: a hold is released only behind a payout that was never sent,
\* was refused or failed, through retries, late callbacks, operators and crashes.
THEOREM PayoutsNotPaidTwice ==
  ASSUME PayoutsAssumption, CleanAnswers PROVE PayoutsSpec => []NotPaidTwice
<1>1. Inv => NotPaidTwice
  BY DEF Inv, Honest, LedgerOK, NotPaidTwice, Dead
<1> QED BY Invariant, <1>1, PTL

\* The Withdrawal row, which the webhook, the dispatch and the operator all write, never
\* says failed of a payout that is going out, nor paid of one that was not sent.
THEOREM PayoutRowNeverLies ==
  ASSUME PayoutsAssumption, CleanAnswers PROVE PayoutsSpec => []RowNeverLies
<1>1. Inv => RowNeverLies
  BY DEF Inv, Honest, LedgerOK, RowOK, RowNeverLies, Dead
<1> QED BY Invariant, <1>1, PTL

-----------------------------------------------------------------------------
(* Invoices *)

DepositHandler ==
  [pc: {"free", "read", "update", "settle"}, i: Invoices \cup {"none"}, raw: Deposit!Raw,
   hash: Hashes \cup {Deposit!NoHash}]
DepositCall == [i: Invoices, raw: Deposit!Raw, hash: Hashes \cup {Deposit!NoHash}]
PaymentRow == [exists: BOOLEAN, status: Deposit!Statuses, credited: BOOLEAN]

\* A handler that will settle has a callback of a paid invoice; the row is credited with the
\* one entry of the ledger.
DepositInv ==
  /\ opening \in [Invoices -> {"no", "asked", "done", "lost"}]
  /\ gate \in [Invoices -> [status: Deposit!Raw \cup {"none"}, hash: Hashes \cup {Deposit!NoHash}]]
  /\ past \subseteq DepositCall /\ calls \subseteq past
  /\ payment \in [Invoices -> PaymentRow]
  /\ handler \in [Handlers -> DepositHandler]
  /\ \A h \in Handlers :
       /\ handler[h].pc # "free" => handler[h].i \in Invoices
       /\ handler[h].pc = "settle" => handler[h].raw = "paid"
  /\ \A c \in deposits : c.by = "paid"
  /\ failures \in 0..MaxFailures
  /\ Deposit!CreditedOnce

LEMMA DepositRows ==
  /\ Deposit!NoRow \in PaymentRow /\ Deposit!NoRow.credited = FALSE
  /\ Deposit!Free \in DepositHandler /\ Deposit!Free.pc = "free"
  /\ \A raw \in Deposit!Raw : Deposit!Mapped(raw) \in Deposit!Statuses
  /\ \A raw \in Deposit!Raw : Deposit!IsSettled(Deposit!Mapped(raw)) => raw = "paid"
<1>1. Deposit!NoRow \in PaymentRow /\ Deposit!NoRow.credited = FALSE
  BY DEF Deposit!NoRow, PaymentRow, Deposit!Statuses
<1>2. Deposit!Free \in DepositHandler /\ Deposit!Free.pc = "free"
  BY DEF Deposit!Free, DepositHandler, Deposit!Raw, Deposit!NoHash
<1>3. \A raw \in Deposit!Raw : Deposit!Mapped(raw) \in Deposit!Statuses
  BY DEF Deposit!Raw, Deposit!Mapped, Deposit!Statuses
<1>4. \A raw \in Deposit!Raw : Deposit!IsSettled(Deposit!Mapped(raw)) => raw = "paid"
  BY DEF Deposit!Raw, Deposit!Mapped, Deposit!IsSettled
<1> QED BY <1>1, <1>2, <1>3, <1>4

LEMMA DepositInit == ASSUME Deposit!DepositsAssumption, Deposit!Init PROVE DepositInv
<1>1. /\ opening \in [Invoices -> {"no", "asked", "done", "lost"}]
      /\ gate \in [Invoices -> [status: Deposit!Raw \cup {"none"}, hash: Hashes \cup {Deposit!NoHash}]]
  BY DEF Deposit!Init
<1>2. past \subseteq DepositCall /\ calls \subseteq past /\ deposits = {}
  BY DEF Deposit!Init
<1>3. payment \in [Invoices -> PaymentRow] /\ \A i \in Invoices : payment[i].credited = FALSE
  BY DepositRows DEF Deposit!Init
<1>4. handler \in [Handlers -> DepositHandler] /\ \A h \in Handlers : handler[h].pc = "free"
  BY DepositRows DEF Deposit!Init
<1>5. failures \in 0..MaxFailures
  BY DEF Deposit!Init, Deposit!DepositsAssumption
<1>6. Deposit!CreditedOnce
  BY <1>2, <1>3 DEF Deposit!CreditedOnce
<1> QED BY <1>1, <1>2, <1>3, <1>4, <1>5, <1>6 DEF DepositInv

\* createDeposit and the gateway credit nothing.
LEMMA InvoiceKeeps ==
  ASSUME Deposit!DepositsAssumption, DepositInv, NEW i \in Invoices,
         Deposit!Open(i) \/ Deposit!CreateRow(i) \/ Deposit!CreateRowFails(i) \/ Deposit!Moves(i)
  PROVE  DepositInv'
<1>1. UNCHANGED <<deposits, handler>>
  BY DEF Deposit!Open, Deposit!CreateRow, Deposit!CreateRowFails, Deposit!Moves
<1>2. opening' \in [Invoices -> {"no", "asked", "done", "lost"}] /\ failures' \in 0..MaxFailures
  BY DEF DepositInv, Deposit!DepositsAssumption, Deposit!Open, Deposit!CreateRow, Deposit!CreateRowFails,
         Deposit!Moves
<1>3. /\ payment' \in [Invoices -> PaymentRow]
      /\ \A j \in Invoices : payment'[j].credited = payment[j].credited
  <2>1. CASE payment' = payment
    BY <2>1 DEF DepositInv
  <2>2. CASE Deposit!CreateRow(i)
    <3>1. PICK n : n = [payment[i] EXCEPT !.exists = TRUE]
      OBVIOUS
    <3>2. n \in PaymentRow /\ n.credited = payment[i].credited
      BY <3>1 DEF DepositInv, PaymentRow
    <3>3. payment' = [payment EXCEPT ![i] = n] /\ payment \in [Invoices -> PaymentRow]
      BY <2>2, <3>1 DEF Deposit!CreateRow, DepositInv
    <3>4. payment'[i] = n /\ \A j \in Invoices \ {i} : payment'[j] = payment[j]
      BY <3>3
    <3>5. ASSUME NEW j \in Invoices PROVE payment'[j].credited = payment[j].credited
      <4>1. CASE j = i
        BY <3>2, <3>4, <4>1
      <4>2. CASE j # i
        BY <3>4, <4>2
      <4> QED BY <4>1, <4>2
    <3>6. payment' \in [Invoices -> PaymentRow]
      BY <3>2, <3>3
    <3> QED BY <3>5, <3>6
  <2> QED BY <2>1, <2>2 DEF Deposit!Open, Deposit!CreateRowFails, Deposit!Moves
<1>4. /\ gate' \in [Invoices -> [status: Deposit!Raw \cup {"none"}, hash: Hashes \cup {Deposit!NoHash}]]
      /\ past' \subseteq DepositCall /\ calls' \subseteq past'
  <2>1. CASE Deposit!Open(i) \/ Deposit!CreateRow(i) \/ Deposit!CreateRowFails(i)
    BY <2>1 DEF DepositInv, Deposit!Open, Deposit!CreateRow, Deposit!CreateRowFails, Deposit!Raw
  <2>2. CASE Deposit!Moves(i)
    <3>1. PICK raw \in Deposit!Later(gate[i].status), x \in Deposit!HashesOf(i) :
            \E call_ \in {[i |-> i, raw |-> raw, hash |-> IF raw = "paid" THEN x ELSE Deposit!NoHash]} :
              /\ gate' = [gate EXCEPT ![i] = [status |-> raw, hash |-> call_.hash]]
              /\ calls' = calls \cup {call_} /\ past' = past \cup {call_}
      BY <2>2 DEF Deposit!Moves
    <3>0. PICK call_ :
            /\ call_ = [i |-> i, raw |-> raw, hash |-> IF raw = "paid" THEN x ELSE Deposit!NoHash]
            /\ gate' = [gate EXCEPT ![i] = [status |-> raw, hash |-> call_.hash]]
            /\ calls' = calls \cup {call_} /\ past' = past \cup {call_}
      BY <3>1
    <3>2. raw \in Deposit!Raw /\ x \in Hashes \cup {Deposit!NoHash}
      BY DEF Deposit!Later, Deposit!Raw, Deposit!HashesOf
    <3>3. call_ \in DepositCall /\ [status |-> raw, hash |-> call_.hash] \in
            [status: Deposit!Raw \cup {"none"}, hash: Hashes \cup {Deposit!NoHash}]
      BY <3>0, <3>2 DEF DepositCall
    <3> QED BY <3>0, <3>3 DEF DepositInv
  <2> QED BY <2>1, <2>2
<1>5. Deposit!CreditedOnce'
  BY <1>1, <1>3 DEF DepositInv, Deposit!CreditedOnce
<1> QED BY <1>1, <1>2, <1>3, <1>4, <1>5 DEF DepositInv

\* A handler answers: 200 takes the callback away, 500 leaves it.
LEMMA Answered ==
  ASSUME DepositInv, NEW h \in Handlers, Deposit!Answer200(h) \/ Deposit!Answer500(h)
  PROVE  /\ calls' \subseteq calls
         /\ handler' \in [Handlers -> DepositHandler]
         /\ handler'[h].pc = "free"
         /\ \A g \in Handlers \ {h} : handler'[g] = handler[g]
BY DepositRows DEF DepositInv, Deposit!Answer200, Deposit!Answer500

LEMMA ReceiptKeeps ==
  ASSUME Deposit!DepositsAssumption, DepositInv, NEW h \in Handlers,
         \/ \E c \in past : Deposit!Receive(h, c)
         \/ Deposit!ReadRow(h) \/ Deposit!Fails(h)
  PROVE  DepositInv'
<1>1. UNCHANGED <<opening, gate, past, payment, deposits>> /\ failures' \in 0..MaxFailures
  BY DEF DepositInv, Deposit!DepositsAssumption, Deposit!Receive, Deposit!ReadRow, Deposit!Fails
<1>2. /\ calls' \subseteq calls /\ handler' \in [Handlers -> DepositHandler]
      /\ \A g \in Handlers \ {h} : handler'[g] = handler[g]
      /\ handler'[h].pc # "free" => handler'[h].i \in Invoices
      /\ handler'[h].pc = "settle" => handler'[h].raw = "paid"
  <2>1. CASE \E c \in past : Deposit!Receive(h, c)
    <3>1. PICK c \in past : Deposit!Receive(h, c)
      BY <2>1
    <3>2. PICK n : n = [pc |-> "read", i |-> c.i, raw |-> c.raw, hash |-> c.hash]
      OBVIOUS
    <3>3. c \in DepositCall
      BY DEF DepositInv
    <3>4. n \in DepositHandler /\ n.pc = "read" /\ n.i \in Invoices
      BY <3>2, <3>3 DEF DepositCall, DepositHandler
    <3>5. handler' = [handler EXCEPT ![h] = n] /\ calls' = calls
      BY <3>1, <3>2 DEF Deposit!Receive
    <3> QED BY <3>4, <3>5 DEF DepositInv
  <2>2. CASE Deposit!ReadRow(h) /\ ~payment[handler[h].i].exists
    BY <2>2, Answered DEF Deposit!ReadRow
  <2>3. CASE Deposit!ReadRow(h) /\ payment[handler[h].i].exists
    <3>1. PICK n : n = [handler[h] EXCEPT !.pc =
              IF ~Deposit!IsSettled(Deposit!Mapped(handler[h].raw)) \/ payment[handler[h].i].credited
                THEN "update" ELSE "settle"]
      OBVIOUS
    <3>2. handler' = [handler EXCEPT ![h] = n] /\ calls' = calls /\ handler[h].pc = "read"
      BY <2>3, <3>1 DEF Deposit!ReadRow
    <3>3. handler[h] \in DepositHandler /\ handler[h].i \in Invoices
      BY <3>2 DEF DepositInv
    <3>4. n \in DepositHandler /\ n.i \in Invoices /\ n.raw = handler[h].raw
      BY <3>1, <3>3 DEF DepositHandler
    <3>5. n.pc = "settle" => n.raw = "paid"
      BY <3>1, <3>3, DepositRows DEF DepositHandler
    <3> QED BY <3>2, <3>4, <3>5 DEF DepositInv
  <2>4. CASE Deposit!Fails(h)
    BY <2>4, Answered DEF Deposit!Fails
  <2> QED BY <2>1, <2>2, <2>3, <2>4
<1>3. Deposit!CreditedOnce'
  BY <1>1 DEF DepositInv, Deposit!CreditedOnce
<1> QED BY <1>1, <1>2, <1>3 DEF DepositInv

LEMMA StatusKeeps ==
  ASSUME Deposit!DepositsAssumption, DepositInv, NEW h \in Handlers, Deposit!UpdateRow(h)
  PROVE  DepositInv'
<1>1. UNCHANGED <<opening, gate, past, deposits, failures>> /\ Deposit!Answer200(h) /\ handler[h].pc = "update"
  BY DEF Deposit!UpdateRow
<1>2. handler[h] \in DepositHandler /\ handler[h].i \in Invoices
  BY <1>1 DEF DepositInv
<1>3. Deposit!Mapped(handler[h].raw) \in Deposit!Statuses
  BY <1>2, DepositRows DEF DepositHandler
<1>4. /\ payment' \in [Invoices -> PaymentRow]
      /\ \A i \in Invoices : payment'[i].credited = payment[i].credited
  <2>1. PICK i, st, n : /\ i = handler[h].i /\ st = Deposit!Mapped(handler[h].raw)
                        /\ n = [payment[i] EXCEPT !.status = st]
    OBVIOUS
  <2>2. payment[i] \in PaymentRow /\ i \in Invoices /\ st \in Deposit!Statuses
    BY <1>2, <1>3, <2>1 DEF DepositInv
  <2>3. n \in PaymentRow /\ n.credited = payment[i].credited
    BY <2>1, <2>2 DEF PaymentRow
  <2>4. payment' = [payment EXCEPT ![i] = n]
    BY <2>1 DEF Deposit!UpdateRow
  <2>5. payment \in [Invoices -> PaymentRow]
    BY DEF DepositInv
  <2>6. payment' \in [Invoices -> PaymentRow]
    BY <2>2, <2>3, <2>4, <2>5
  <2>7. payment'[i] = n /\ \A j \in Invoices \ {i} : payment'[j] = payment[j]
    BY <2>2, <2>4, <2>5
  <2>8. ASSUME NEW j \in Invoices PROVE payment'[j].credited = payment[j].credited
    <3>1. CASE j = i
      BY <2>3, <2>7, <3>1
    <3>2. CASE j # i
      BY <2>7, <3>2
    <3> QED BY <3>1, <3>2
  <2> QED BY <2>6, <2>8
<1>5. Deposit!CreditedOnce'
  BY <1>1, <1>4 DEF DepositInv, Deposit!CreditedOnce
<1> QED BY <1>1, <1>4, <1>5, Answered DEF DepositInv

\* The transaction, committed with or without its answer, or rolled back.
LEMMA SettleKeeps ==
  ASSUME Deposit!DepositsAssumption, DepositInv, NEW h \in Handlers,
         Deposit!Settle(h) \/ Deposit!DiesAfterCommit(h)
  PROVE  DepositInv'
<1>1. /\ UNCHANGED <<opening, gate, past>> /\ handler[h].pc = "settle" /\ failures' \in 0..MaxFailures
      /\ Deposit!Answer200(h) \/ Deposit!Answer500(h)
  BY DEF Deposit!Settle, Deposit!DiesAfterCommit, DepositInv, Deposit!DepositsAssumption
<1>2. handler[h] \in DepositHandler /\ handler[h].i \in Invoices /\ handler[h].raw = "paid"
  BY <1>1 DEF DepositInv
<1>3. CASE UNCHANGED <<payment, deposits>>
  <2>1. Deposit!CreditedOnce'
    BY <1>3 DEF DepositInv, Deposit!CreditedOnce
  <2> QED BY <1>1, <1>3, <2>1, Answered DEF DepositInv
<1>4. CASE ~UNCHANGED <<payment, deposits>>
  <2>1. PICK i, entry : i = handler[h].i /\ entry = [i |-> i, key |-> Deposit!Key(h), by |-> handler[h].raw]
    OBVIOUS
  <2>2. /\ payment' = [payment EXCEPT ![i].status = Deposit!Mapped(handler[h].raw), ![i].credited = TRUE]
        /\ deposits' = deposits \cup {entry}
        /\ ~payment[i].credited /\ ~\E c \in deposits : c.key = entry.key
    BY <1>4, <2>1 DEF Deposit!Settle, Deposit!DiesAfterCommit, Deposit!MayClaim
  <2>3. Deposit!Mapped(handler[h].raw) \in Deposit!Statuses
    BY <1>2, DepositRows DEF DepositHandler
  <2>4. /\ payment' \in [Invoices -> PaymentRow] /\ payment'[i].credited
        /\ \A j \in Invoices \ {i} : payment'[j] = payment[j]
    BY <1>2, <2>1, <2>2, <2>3 DEF DepositInv, PaymentRow
  <2>5. entry.i = i /\ entry.by = "paid" /\ i \in Invoices
    BY <1>2, <2>1
  \* The invoice was not credited, so no entry is of it.
  <2>6. \A c \in deposits : c.i # i /\ c.by = "paid"
    BY <2>2, <2>5 DEF DepositInv, Deposit!CreditedOnce
  <2>7. Deposit!CreditedOnce'
    <3>1. \A c, d \in deposits' : (c.i = d.i => c = d) /\ (c.key = d.key => c = d)
      BY <2>2, <2>5, <2>6 DEF DepositInv, Deposit!CreditedOnce
    <3>2. ASSUME NEW j \in Invoices
          PROVE  payment'[j].credited <=> \E c \in deposits' : c.i = j /\ c.by = "paid"
      <4>1. CASE j = i
        BY <2>2, <2>4, <2>5, <4>1
      <4>2. CASE j # i
        BY <2>2, <2>4, <2>5, <4>2 DEF DepositInv, Deposit!CreditedOnce
      <4> QED BY <4>1, <4>2
    <3> QED BY <3>1, <3>2 DEF Deposit!CreditedOnce
  <2> QED BY <1>1, <2>2, <2>4, <2>5, <2>6, <2>7, Answered DEF DepositInv
<1> QED BY <1>3, <1>4

LEMMA DepositStep ==
  ASSUME Deposit!DepositsAssumption, DepositInv, [Deposit!Next]_(Deposit!vars) PROVE DepositInv'
<1>1. CASE UNCHANGED Deposit!vars
  BY <1>1 DEF Deposit!vars, DepositInv, Deposit!CreditedOnce
<1>2. CASE Deposit!Next
  BY <1>2, InvoiceKeeps, ReceiptKeeps, StatusKeeps, SettleKeeps DEF Deposit!Next, Deposit!Handle
<1> QED BY <1>1, <1>2

LEMMA DepositInvariant == ASSUME Deposit!DepositsAssumption PROVE Deposit!Spec => []DepositInv
<1>1. Deposit!Init => DepositInv
  BY DepositInit
<1>2. DepositInv /\ [Deposit!Next]_(Deposit!vars) => DepositInv'
  BY DepositStep
<1> QED BY <1>1, <1>2, PTL DEF Deposit!Spec

\* The invoices, the calls under way and their handlers keep their types.
THEOREM DepositsTypeCorrect == ASSUME Deposit!DepositsAssumption PROVE Deposit!Spec => []Deposit!TypeOK
<1>1. ASSUME DepositInv PROVE Deposit!TypeOK
  <2>1. \A i \in Invoices :
          /\ gate[i].status \in Deposit!Raw \cup {"none"} /\ gate[i].hash \in Hashes \cup {Deposit!NoHash}
          /\ payment[i].exists \in BOOLEAN /\ payment[i].credited \in BOOLEAN
          /\ payment[i].status \in Deposit!Statuses
    BY <1>1 DEF DepositInv, PaymentRow
  <2>2. \A h \in Handlers : handler[h].pc \in {"free", "read", "update", "settle"}
    BY <1>1 DEF DepositInv, DepositHandler
  <2> QED BY <1>1, <2>1, <2>2 DEF DepositInv, Deposit!TypeOK
<1> QED BY <1>1, DepositInvariant, PTL

\* Under readable answers no payment goes out twice and no invoice is credited twice.
THEOREM GatewaysMoveOnce ==
  ASSUME PayoutsAssumption, CleanAnswers, Deposit!DepositsAssumption
  PROVE  PayoutsSpec /\ Deposit!Spec => []MovedOnce
<1>1. DepositInv => Deposit!CreditedOnce
  BY DEF DepositInv
<1>2. NotPaidTwice /\ Deposit!CreditedOnce => MovedOnce
  BY DEF MovedOnce
<1> QED BY <1>1, <1>2, PayoutsNotPaidTwice, DepositInvariant, PTL

-----------------------------------------------------------------------------
(* The bets of Crash *)

(* The inductive invariant *)

\* A call past its debit holds a bet that was placed.
HoldsABet(c) == At(c, "seed") \/ At(c, "credit") \/ At(c, "record")
CallOK == \A c \in Calls : HoldsABet(c) => handling[c].bet \in 1..placed

\* One bet is being placed at a time, under the flag, with no curve up.
PlacingOK ==
  \A c \in Calls : Placing(c) =>
    /\ betsInFlight
    /\ ~Running
    /\ \A d \in Calls : Placing(d) => c = d

\* A bet whose seed is being looked up is unsettled and not in the store.
SeedOK == \A c \in Calls : At(c, "seed") => ~settled[handling[c].bet] /\ crashBet # handling[c].bet

\* What is not placed is not settled, nor in the store.
FreshOK == crashBet <= placed /\ \A b \in Bets : settled[b] => b <= placed

\* An unsettled bet has left no trace.
UnsettledOK ==
  \A b \in Bets : ~settled[b] => cashedOutAt[b] = 0 /\ won[b] = 0 /\ b \notin lost

\* A bet about to be credited was taken in time, and the bust missed it.
Won(b) == settled[b] /\ b \notin lost /\ cashedOutAt[b] # 0 /\ cashedOutAt[b] < crashPoint[b]
CreditOK == \A c \in Calls : At(c, "credit") => Won(handling[c].bet)

\* So was every bet that has been paid.
PaidOK == \A b \in Bets : won[b] # 0 => won[b] = cashedOutAt[b] /\ Won(b)

\* The bet on the table is the one the curve is running for.
TableOK == Running /\ OnTheTable => round.bet = crashBet

Control == CallOK /\ PlacingOK /\ SeedOK /\ FreshOK /\ TableOK
Money == UnsettledOK /\ CreditOK /\ PaidOK
CrashInv == CrashTypeOK /\ Control /\ Money

-----------------------------------------------------------------------------
(* It holds at the start and every step keeps it *)

LEMMA CrashInvInit == CrashInit => CrashInv
<1> SUFFICES ASSUME CrashInit PROVE CrashInv
  OBVIOUS
<1>1. CrashTypeOK
  <2>1. placed \in 0..MaxBets /\ restarts \in 0..MaxRestarts /\ crashBet \in 0..MaxBets
    BY CrashBoundsAssumption DEF CrashInit, NoBet
  <2>2. /\ crashPoint \in [Bets -> Points]
        /\ cashedOutAt \in [Bets -> 0..Top]
        /\ won \in [Bets -> 0..Top]
    BY TopAssumption DEF CrashInit, Points
  <2>3. round \in Round /\ handling \in [Calls -> Call]
    BY CrashBoundsAssumption DEF CrashInit, Round, Call, NoFrame, NoBet
  <2> QED BY <2>1, <2>2, <2>3 DEF CrashInit, CrashTypeOK
<1>2. Control
  BY CrashBoundsAssumption
  DEF CrashInit, Control, CallOK, PlacingOK, SeedOK, FreshOK, TableOK, HoldsABet, Placing, At,
      NoFrame, Running, NoBet
<1>3. Money
  BY DEF CrashInit, Money, UnsettledOK, CreditOK, PaidOK, At, NoFrame
<1> QED BY <1>1, <1>2, <1>3 DEF CrashInv

\* Every step keeps the types.
LEMMA CrashTypeStep == CrashTypeOK /\ CallOK /\ [CrashNext]_crashVars => CrashTypeOK'
<1> SUFFICES ASSUME CrashTypeOK, CallOK, [CrashNext]_crashVars PROVE CrashTypeOK'
  OBVIOUS
<1> USE CrashBoundsAssumption, TopAssumption
<1>a. NoFrame \in Call
  BY DEF NoFrame, Call, NoBet
<1>b. /\ placed \in 0..MaxBets
      /\ \A c \in Calls, pc \in {"idle", "debit", "seed", "credit", "record"}, b \in 0..MaxBets :
           [handling EXCEPT ![c] = [pc |-> pc, bet |-> b]] \in [Calls -> Call]
      /\ \A c \in Calls : handling[c].bet \in 0..MaxBets
  BY DEF CrashTypeOK, Call
<1>1. ASSUME NEW c \in Calls, Bet(c) PROVE CrashTypeOK'
  BY <1>1, <1>b DEF Bet, CrashTypeOK, Goto, bets, history, NoBet
<1>2. ASSUME NEW c \in Calls, Debit(c) PROVE CrashTypeOK'
  BY <1>2, <1>b DEF Debit, Debited, CrashTypeOK, Goto, memory, history
<1>3. ASSUME NEW c \in Calls, Launch(c) PROVE CrashTypeOK'
  <2>1. handling[c].bet \in Bets
    BY <1>3, <1>b DEF Launch, CallOK, HoldsABet, At, Bets
  <2>2. round' \in Round /\ crashBet' \in 0..MaxBets
    BY <1>3, <2>1 DEF Launch, Round, Points, Bets
  <2>3. handling' \in [Calls -> Call]
    BY <1>3, <1>b DEF Launch, Return, NoFrame, NoBet
  <2> QED BY <1>3, <2>2, <2>3 DEF Launch, CrashTypeOK, history
<1>4. ASSUME NEW c \in Calls, BetFails(c) PROVE CrashTypeOK'
  BY <1>4, <1>a DEF BetFails, CrashTypeOK, Return, bets, history
<1>5. CASE Elapse
  <2>1. round \in [bet : Bets, elapsed : Points, current : Points]
    BY <1>5 DEF Elapse, Running, CrashTypeOK, Round
  <2>2. round' \in Round
    BY <1>5, <2>1 DEF Elapse, Round, Points
  <2> QED BY <1>5, <2>2 DEF Elapse, CrashTypeOK, bets, history
<1>6. CASE Tick
  <2>1. round \in [bet : Bets, elapsed : Points, current : Points]
    BY <1>6 DEF Tick, Running, CrashTypeOK, Round
  <2>2. round' \in Round
    BY <1>6, <2>1 DEF Tick, Round
  <2> QED BY <1>6, <2>2 DEF Tick, CrashTypeOK, bets, history
<1>7. CASE Bust
  <2>1. round' \in Round
    BY <1>7 DEF Bust, End, Round
  <2>2. CASE OnTheTable
    <3>1. crashBet \in Bets
      BY <2>2 DEF OnTheTable, CrashTypeOK, Bets, NoBet
    <3>2. settled' = [settled EXCEPT ![crashBet] = TRUE]
      BY <1>7, <2>2 DEF Bust
    <3>3. settled' \in [Bets -> BOOLEAN]
      BY <3>2, Zenon DEF CrashTypeOK
    <3>4. lost' \subseteq Bets /\ busting' \subseteq Bets
      BY <1>7, <2>2, <3>1 DEF Bust, CrashTypeOK
    <3>5. crashBet' \in 0..MaxBets
      BY <1>7, <2>2 DEF Bust, CrashTypeOK, NoBet
    <3> QED BY <1>7, <2>1, <3>3, <3>4, <3>5 DEF Bust, CrashTypeOK, bets
  <2>3. CASE ~OnTheTable
    BY <1>7, <2>1, <2>3 DEF Bust, CrashTypeOK, bets
  <2> QED BY <2>2, <2>3
<1>8. ASSUME NEW b \in Bets, RecordBust(b) PROVE CrashTypeOK'
  BY <1>8 DEF RecordBust, CrashTypeOK, bets, memory
<1>9. ASSUME NEW c \in Calls, Cashout(c) PROVE CrashTypeOK'
  <2>1. round \in [bet : Bets, elapsed : Points, current : Points]
    BY <1>9 DEF Cashout, Running, CrashTypeOK, Round
  <2>2. cashedOutAt' \in [Bets -> 0..Top]
    <3>1. round.elapsed \in 0..Top
      BY <2>1 DEF Points
    <3> QED BY <1>9, <3>1 DEF Cashout, CrashTypeOK
  <2>4. round' \in Round
    BY <1>9 DEF Cashout, End, Round
  <2>3. handling' \in [Calls -> Call]
    BY <1>9, <1>b DEF Cashout, Goto, CrashTypeOK
  <2> QED BY <1>9, <2>2, <2>3, <2>4 DEF Cashout, CrashTypeOK, bets, history
<1>10. ASSUME NEW c \in Calls, CreditCashout(c) PROVE CrashTypeOK'
  <2>1. handling[c].bet \in Bets
    BY <1>10, <1>b DEF CreditCashout, CallOK, HoldsABet, At, Bets
  <2>2. won' \in [Bets -> 0..Top] /\ crashBet' \in 0..MaxBets
    BY <1>10, <2>1 DEF CreditCashout, CrashTypeOK, NoBet
  <2>3. handling' \in [Calls -> Call]
    BY <1>10, <1>b DEF CreditCashout, Goto
  <2> QED BY <1>10, <2>2, <2>3 DEF CreditCashout, CrashTypeOK, bets
<1>11. ASSUME NEW c \in Calls, CreditFails(c) PROVE CrashTypeOK'
  BY <1>11, <1>b DEF CreditFails, CrashTypeOK, Return, NoFrame, NoBet, bets, memory, history
<1>12. ASSUME NEW c \in Calls, RecordCashout(c) PROVE CrashTypeOK'
  BY <1>12, <1>b DEF RecordCashout, CrashTypeOK, Return, NoFrame, NoBet, bets, memory
<1>13. CASE Restart
  <2>1. round' \in Round /\ handling' \in [Calls -> Call]
    BY <1>13, <1>a DEF Restart, Round
  <2>2. restarts' \in 0..MaxRestarts /\ crashBet' \in 0..MaxBets
    BY <1>13 DEF Restart, CrashTypeOK, NoBet
  <2> QED BY <1>13, <2>1, <2>2 DEF Restart, CrashTypeOK, bets, history
<1>14. CASE UNCHANGED crashVars
  BY <1>14 DEF crashVars, CrashTypeOK, bets, memory, history
<1> QED BY <1>1, <1>2, <1>3, <1>4, <1>5, <1>6, <1>7, <1>8, <1>9, <1>10, <1>11, <1>12,
           <1>13, <1>14 DEF CrashNext, Frame, Continue

-----------------------------------------------------------------------------
\* Every step keeps the calls, the flag and the store in order.
LEMMA ControlStep == CrashTypeOK /\ Control /\ [CrashNext]_crashVars => Control'
<1> SUFFICES ASSUME CrashTypeOK, Control, [CrashNext]_crashVars PROVE Control'
  OBVIOUS
<1> USE DEF NoBet
<1>b. /\ placed \in Nat
      /\ crashBet \in Nat
      /\ \A c \in Calls : handling[c].bet \in Nat
      /\ \A c \in Calls : HoldsABet(c) => handling[c].bet \in Bets
  BY CrashBoundsAssumption DEF CrashTypeOK, Call, Control, CallOK, Bets
<1>1. ASSUME NEW c \in Calls, Bet(c) PROVE Control'
  <2>1. handling' = [handling EXCEPT ![c] = [pc |-> "debit", bet |-> NoBet]]
    BY <1>1 DEF Bet, Goto
  <2>2. CallOK'
    BY <1>1, <2>1 DEF Bet, bets, Control, CallOK, HoldsABet, At, CrashTypeOK
  <2>3. PlacingOK'
    BY <1>1, <2>1 DEF Bet, MayBet, Control, PlacingOK, Placing, At, CrashTypeOK, Running
  <2>4. SeedOK'
    BY <1>1, <2>1 DEF Bet, Control, SeedOK, At, CrashTypeOK
  <2>5. FreshOK' /\ TableOK'
    BY <1>1 DEF Bet, bets, Control, FreshOK, TableOK, OnTheTable, Running
  <2> QED BY <2>2, <2>3, <2>4, <2>5 DEF Control
<1>2. ASSUME NEW c \in Calls, Debit(c) PROVE Control'
  <2>1. /\ placed' = placed + 1
        /\ handling' = [handling EXCEPT ![c] = [pc |-> "seed", bet |-> placed + 1]]
    BY <1>2 DEF Debit, Debited, Goto
  <2>2. CallOK'
    BY <2>1, <1>b DEF Control, CallOK, HoldsABet, At, CrashTypeOK
  <2>3. PlacingOK'
    BY <1>2, <2>1 DEF Debit, memory, Control, PlacingOK, Placing, At, CrashTypeOK, Running
  <2>4. SeedOK'
    <3>0. placed + 1 \in Bets
      BY <1>2, <1>b, CrashBoundsAssumption DEF Debit, Bets
    <3>1. ~settled[placed + 1] /\ crashBet # placed + 1
      BY <3>0, <1>b DEF Control, FreshOK
    <3>2. ASSUME NEW d \in Calls, At(d, "seed")' PROVE d = c
      BY <1>2, <2>1, <3>2 DEF Debit, Control, PlacingOK, Placing, At, CrashTypeOK
    <3> QED BY <1>2, <2>1, <3>1, <3>2 DEF Debit, memory, SeedOK, At, CrashTypeOK
  <2>5. FreshOK' /\ TableOK'
    BY <1>2, <2>1, <1>b DEF Debit, memory, Control, FreshOK, TableOK, OnTheTable, Running, Bets
  <2> QED BY <2>2, <2>3, <2>4, <2>5 DEF Control
<1>3. ASSUME NEW c \in Calls, Launch(c) PROVE Control'
  <2> DEFINE b == handling[c].bet
  <2>1. /\ handling' = [handling EXCEPT ![c] = NoFrame]
        /\ crashBet' = b
        /\ round' = [bet |-> b, elapsed |-> 1, current |-> 1]
        /\ UNCHANGED <<placed, settled>>
    BY <1>3 DEF Launch, Return
  <2>2. CallOK'
    BY <2>1 DEF Control, CallOK, HoldsABet, At, NoFrame, CrashTypeOK
  <2>3. ASSUME NEW d \in Calls, Placing(d)' PROVE FALSE
    BY <1>3, <2>1, <2>3 DEF Launch, Control, PlacingOK, Placing, At, NoFrame, CrashTypeOK
  <2>4. PlacingOK' /\ SeedOK'
    BY <2>3 DEF PlacingOK, SeedOK, Placing
  <2>5. b \in 1..placed
    BY <1>3 DEF Launch, Control, CallOK, HoldsABet
  <2>6. FreshOK' /\ TableOK'
    BY <2>1, <2>5, <1>b DEF Control, FreshOK, TableOK
  <2> QED BY <2>2, <2>4, <2>6 DEF Control
<1>4. ASSUME NEW c \in Calls, BetFails(c) PROVE Control'
  <2>1. handling' = [handling EXCEPT ![c] = NoFrame]
    BY <1>4 DEF BetFails, Return
  <2>2. CallOK'
    BY <1>4, <2>1 DEF BetFails, bets, Control, CallOK, HoldsABet, At, NoFrame, CrashTypeOK
  <2>3. ASSUME NEW d \in Calls, Placing(d)' PROVE FALSE
    BY <1>4, <2>1, <2>3 DEF BetFails, Control, PlacingOK, Placing, At, NoFrame, CrashTypeOK
  <2>4. PlacingOK' /\ SeedOK'
    BY <2>3 DEF PlacingOK, SeedOK, Placing
  <2>5. FreshOK' /\ TableOK'
    BY <1>4 DEF BetFails, bets, Control, FreshOK, TableOK, OnTheTable, Running
  <2> QED BY <2>2, <2>4, <2>5 DEF Control
<1>5. CASE Elapse
  <2>1. Running /\ round'.bet = round.bet
    BY <1>5 DEF Elapse, Running, CrashTypeOK, Round, NoRound
  <2>2. PlacingOK'
    BY <1>5, <2>1 DEF Elapse, Control, PlacingOK, Placing, At
  <2> QED BY <1>5, <2>1, <2>2 DEF Elapse, bets, Control, CallOK, HoldsABet, At, SeedOK,
             FreshOK, TableOK, OnTheTable
<1>6. CASE Tick
  <2>1. Running /\ round'.bet = round.bet
    BY <1>6 DEF Tick, Running, CrashTypeOK, Round, NoRound
  <2>2. PlacingOK'
    BY <1>6, <2>1 DEF Tick, Control, PlacingOK, Placing, At
  <2> QED BY <1>6, <2>1, <2>2 DEF Tick, bets, Control, CallOK, HoldsABet, At, SeedOK,
             FreshOK, TableOK, OnTheTable
<1>7. CASE Bust
  <2>1. Running /\ ~Running' /\ UNCHANGED <<placed, handling>>
    BY <1>7 DEF Bust, End, Running, bets
  <2>2. CallOK'
    BY <2>1 DEF Control, CallOK, HoldsABet, At
  <2>3. ASSUME NEW c \in Calls, Placing(c) PROVE FALSE
    BY <2>1, <2>3 DEF Control, PlacingOK
  <2>4. PlacingOK' /\ SeedOK'
    BY <2>1, <2>3 DEF PlacingOK, SeedOK, Placing, At
  <2>5. FreshOK'
    <3>1. CASE OnTheTable
      <4>1. crashBet' = NoBet /\ settled' = [settled EXCEPT ![crashBet] = TRUE]
        BY <1>7, <3>1 DEF Bust
      <4> QED BY <2>1, <4>1, <1>b DEF Control, FreshOK, CrashTypeOK
    <3>2. CASE ~OnTheTable
      BY <1>7, <2>1, <3>2 DEF Bust, Control, FreshOK
    <3> QED BY <3>1, <3>2
  <2>6. TableOK'
    BY <2>1 DEF TableOK
  <2> QED BY <2>2, <2>4, <2>5, <2>6 DEF Control
<1>8. ASSUME NEW b \in Bets, RecordBust(b) PROVE Control'
  BY <1>8 DEF RecordBust, bets, memory, Control, CallOK, HoldsABet, At, PlacingOK, Placing,
     SeedOK, FreshOK, TableOK, OnTheTable, Running
<1>9. ASSUME NEW c \in Calls, Cashout(c) PROVE Control'
  <2>1. /\ Running /\ ~Running' /\ OnTheTable
        /\ handling' = [handling EXCEPT ![c] = [pc |-> "credit", bet |-> crashBet]]
        /\ settled' = [settled EXCEPT ![crashBet] = TRUE]
        /\ UNCHANGED <<placed, crashBet>>
    BY <1>9 DEF Cashout, End, Running, bets, Goto
  <2>2. CallOK'
    BY <2>1, <1>b DEF Control, CallOK, FreshOK, HoldsABet, At, CrashTypeOK, OnTheTable
  <2>3. ASSUME NEW d \in Calls, Placing(d) PROVE FALSE
    BY <2>1, <2>3 DEF Control, PlacingOK
  <2>4. PlacingOK' /\ SeedOK'
    BY <2>1, <2>3 DEF PlacingOK, SeedOK, Placing, At, CrashTypeOK
  <2>5. FreshOK' /\ TableOK'
    BY <2>1, <1>b DEF Control, FreshOK, TableOK, CrashTypeOK
  <2> QED BY <2>2, <2>4, <2>5 DEF Control
<1>10. ASSUME NEW c \in Calls, CreditCashout(c) PROVE Control'
  <2>1. /\ At(c, "credit") /\ crashBet' = NoBet
        /\ handling' = [handling EXCEPT ![c] = [pc |-> "record", bet |-> handling[c].bet]]
        /\ UNCHANGED <<placed, settled, round, betsInFlight>>
    BY <1>10 DEF CreditCashout, Goto, bets
  <2>2. CallOK'
    BY <2>1 DEF Control, CallOK, HoldsABet, At, CrashTypeOK
  <2>3. PlacingOK'
    BY <2>1 DEF Control, PlacingOK, Placing, At, CrashTypeOK, Running
  <2>4. SeedOK'
    BY <2>1, <1>b DEF Control, SeedOK, HoldsABet, At, CrashTypeOK, Bets
  <2>5. FreshOK' /\ TableOK'
    BY <2>1, <1>b DEF Control, FreshOK, TableOK, OnTheTable
  <2> QED BY <2>2, <2>3, <2>4, <2>5 DEF Control
<1>11. ASSUME NEW c \in Calls, CreditFails(c) \/ RecordCashout(c) PROVE Control'
  <2>1. /\ handling' = [handling EXCEPT ![c] = NoFrame]
        /\ UNCHANGED <<placed, settled, crashBet, round, betsInFlight>>
    BY <1>11 DEF CreditFails, RecordCashout, Return, bets, memory
  <2>2. CallOK'
    BY <2>1 DEF Control, CallOK, HoldsABet, At, NoFrame, CrashTypeOK
  <2>3. PlacingOK'
    BY <2>1 DEF Control, PlacingOK, Placing, At, NoFrame, CrashTypeOK, Running
  <2>4. SeedOK'
    BY <2>1 DEF Control, SeedOK, At, NoFrame, CrashTypeOK
  <2>5. FreshOK' /\ TableOK'
    BY <2>1 DEF Control, FreshOK, TableOK, OnTheTable, Running
  <2> QED BY <2>2, <2>3, <2>4, <2>5 DEF Control
<1>12. CASE Restart
  <2>1. handling' = [c \in Calls |-> NoFrame] /\ crashBet' = NoBet /\ UNCHANGED <<placed, settled>>
    BY <1>12 DEF Restart, bets
  <2>2. CallOK' /\ PlacingOK' /\ SeedOK'
    BY <2>1 DEF CallOK, HoldsABet, PlacingOK, Placing, SeedOK, At, NoFrame
  <2>3. FreshOK' /\ TableOK'
    BY <2>1, <1>b DEF Control, FreshOK, TableOK, OnTheTable
  <2> QED BY <2>2, <2>3 DEF Control
<1>13. CASE UNCHANGED crashVars
  BY <1>13 DEF crashVars, bets, memory, Control, CallOK, HoldsABet, At, PlacingOK, Placing,
     SeedOK, FreshOK, TableOK, OnTheTable, Running
<1> QED BY <1>1, <1>2, <1>3, <1>4, <1>5, <1>6, <1>7, <1>8, <1>9, <1>10, <1>11, <1>12,
           <1>13 DEF CrashNext, Frame, Continue

-----------------------------------------------------------------------------
\* Every step keeps the books: a bet is decided by the call or the bust that
\* settled it, and by nobody else.
LEMMA MoneyStep == CrashTypeOK /\ Control /\ Money /\ [CrashNext]_crashVars => Money'
<1> SUFFICES ASSUME CrashTypeOK, Control, Money, [CrashNext]_crashVars PROVE Money'
  OBVIOUS
<1> USE DEF NoBet
<1>b. /\ \A c \in Calls : HoldsABet(c) => handling[c].bet \in Bets
      /\ OnTheTable => crashBet \in Bets
  BY CrashBoundsAssumption DEF CrashTypeOK, Control, CallOK, Bets, OnTheTable
<1>1. ASSUME NEW c \in Calls, Bet(c) \/ BetFails(c) \/ CreditFails(c) PROVE Money'
  <2>1. /\ handling'[c].pc # "credit"
        /\ \A d \in Calls : d # c => handling'[d] = handling[d]
        /\ UNCHANGED <<crashPoint, cashedOutAt, settled, won, lost>>
    BY <1>1 DEF Bet, BetFails, CreditFails, Goto, Return, NoFrame, CrashTypeOK, bets, memory, history
  <2>2. CreditOK'
    BY <2>1 DEF Money, CreditOK, Won, At
  <2> QED BY <2>1, <2>2 DEF Money, UnsettledOK, PaidOK, Won
<1>2. ASSUME NEW c \in Calls, Debit(c) PROVE Money'
  <2>1. /\ handling'[c].pc # "credit"
        /\ \A d \in Calls : d # c => handling'[d] = handling[d]
        /\ UNCHANGED <<crashPoint, cashedOutAt, settled, won, lost>>
    BY <1>2 DEF Debit, Goto, CrashTypeOK, memory, history
  <2>2. CreditOK'
    BY <2>1 DEF Money, CreditOK, Won, At
  <2> QED BY <2>1, <2>2 DEF Money, UnsettledOK, PaidOK, Won
<1>3. ASSUME NEW c \in Calls, Launch(c) PROVE Money'
  <2> DEFINE b == handling[c].bet
  <2>1. b \in Bets /\ ~settled[b]
    BY <1>3, <1>b DEF Launch, Control, SeedOK, HoldsABet, At
  <2>2. /\ handling'[c].pc # "credit"
        /\ \A d \in Calls : d # c => handling'[d] = handling[d]
        /\ \A a \in Bets : a # b => crashPoint'[a] = crashPoint[a]
        /\ UNCHANGED <<cashedOutAt, settled, won, lost>>
    BY <1>3 DEF Launch, Return, NoFrame, CrashTypeOK, history
  <2>3. \A a \in Bets : Won(a) => a # b /\ Won(a)'
    BY <2>1, <2>2 DEF Won
  <2>4. CreditOK'
    BY <2>2, <2>3, <1>b DEF Money, CreditOK, HoldsABet, At
  <2>5. PaidOK' /\ UnsettledOK'
    BY <2>2, <2>3 DEF Money, PaidOK, UnsettledOK
  <2> QED BY <2>4, <2>5 DEF Money
<1>4. CASE Elapse \/ Tick \/ Restart
  <2>1. UNCHANGED <<crashPoint, cashedOutAt, settled, won, lost>>
    BY <1>4 DEF Elapse, Tick, Restart, bets, history
  <2>2. CreditOK'
    BY <1>4, <2>1 DEF Elapse, Tick, Restart, Money, CreditOK, Won, At, NoFrame
  <2> QED BY <2>1, <2>2 DEF Money, UnsettledOK, PaidOK, Won
<1>5. CASE Bust
  <2>1. CASE OnTheTable
    <3>1. /\ crashBet \in Bets /\ ~settled[crashBet]
          /\ settled' = [settled EXCEPT ![crashBet] = TRUE]
          /\ lost' = lost \cup {crashBet}
          /\ UNCHANGED <<crashPoint, cashedOutAt, won, handling>>
      BY <1>5, <2>1, <1>b DEF Bust, OnTheTable, bets
    <3>2. \A a \in Bets : Won(a) => a # crashBet /\ Won(a)'
      BY <3>1 DEF Won, CrashTypeOK
    <3>3. CreditOK'
      BY <3>1, <3>2, <1>b DEF Money, CreditOK, HoldsABet, At
    <3>4. PaidOK'
      BY <3>1, <3>2 DEF Money, PaidOK
    <3>5. UnsettledOK'
      BY <3>1 DEF Money, UnsettledOK, CrashTypeOK
    <3> QED BY <3>3, <3>4, <3>5 DEF Money
  <2>2. CASE ~OnTheTable
    <3>1. UNCHANGED <<crashPoint, cashedOutAt, settled, won, lost, handling>>
      BY <1>5, <2>2 DEF Bust, bets
    <3> QED BY <3>1 DEF Money, CreditOK, UnsettledOK, PaidOK, Won, At
  <2> QED BY <2>1, <2>2
<1>6. ASSUME NEW b \in Bets, RecordBust(b) PROVE Money'
  BY <1>6 DEF RecordBust, bets, memory, Money, CreditOK, UnsettledOK, PaidOK, Won, At
<1>7. ASSUME NEW c \in Calls, Cashout(c) PROVE Money'
  <2>1. /\ crashBet \in Bets /\ ~settled[crashBet]
        /\ settled' = [settled EXCEPT ![crashBet] = TRUE]
        /\ cashedOutAt' = [cashedOutAt EXCEPT ![crashBet] = round.elapsed]
        /\ handling' = [handling EXCEPT ![c] = [pc |-> "credit", bet |-> crashBet]]
        /\ UNCHANGED <<crashPoint, won, lost, crashBet>>
    BY <1>7, <1>b DEF Cashout, OnTheTable, Goto, bets, history
  <2>2. round \in [bet : Bets, elapsed : Points, current : Points] /\ round.bet = crashBet
    BY <1>7 DEF Cashout, Running, CrashTypeOK, Round, Control, TableOK
  <2>3. Won(crashBet)'
    <3>1. round.elapsed \in 1..Top /\ crashPoint[crashBet] \in 1..Top
      BY <2>1, <2>2 DEF Points, CrashTypeOK
    <3>2. round.elapsed < crashPoint[crashBet]
      BY <1>7, <2>2, <3>1, TopAssumption DEF Cashout, Crashed
    <3>3. crashBet \notin lost
      BY <2>1 DEF Money, UnsettledOK
    <3>4. settled'[crashBet] /\ cashedOutAt'[crashBet] = round.elapsed
      BY <2>1 DEF CrashTypeOK
    <3> QED BY <2>1, <3>1, <3>2, <3>3, <3>4 DEF Won
  <2>4. \A a \in Bets : Won(a) => a # crashBet /\ Won(a)'
    BY <2>1 DEF Won, CrashTypeOK
  <2>5. CreditOK'
    BY <2>1, <2>3, <2>4, <1>b DEF Money, CreditOK, HoldsABet, At, CrashTypeOK
  <2>6. PaidOK'
    BY <2>1, <2>4 DEF Money, PaidOK, CrashTypeOK, Won
  <2>7. UnsettledOK'
    BY <2>1 DEF Money, UnsettledOK, CrashTypeOK
  <2> QED BY <2>5, <2>6, <2>7 DEF Money
<1>8. ASSUME NEW c \in Calls, CreditCashout(c) PROVE Money'
  <2> DEFINE b == handling[c].bet
  <2>1. /\ b \in Bets /\ Won(b)
        /\ won' = [won EXCEPT ![b] = IF @ = 0 THEN cashedOutAt[b] ELSE @]
        /\ handling' = [handling EXCEPT ![c] = [pc |-> "record", bet |-> b]]
        /\ UNCHANGED <<crashPoint, cashedOutAt, settled, lost>>
    BY <1>8, <1>b DEF CreditCashout, Goto, bets, Money, CreditOK, HoldsABet, At
  <2>2. CreditOK'
    BY <2>1 DEF Money, CreditOK, Won, At, CrashTypeOK
  <2>3. PaidOK'
    BY <2>1 DEF Money, PaidOK, Won, CrashTypeOK
  <2>4. UnsettledOK'
    BY <2>1 DEF Money, UnsettledOK, Won, CrashTypeOK
  <2> QED BY <2>2, <2>3, <2>4 DEF Money
<1>9. ASSUME NEW c \in Calls, RecordCashout(c) PROVE Money'
  <2>1. /\ handling' = [handling EXCEPT ![c] = NoFrame]
        /\ UNCHANGED <<crashPoint, cashedOutAt, settled, won, lost>>
    BY <1>9 DEF RecordCashout, Return, bets, memory
  <2>2. CreditOK'
    BY <2>1 DEF Money, CreditOK, Won, At, NoFrame, CrashTypeOK
  <2> QED BY <2>1, <2>2 DEF Money, UnsettledOK, PaidOK, Won
<1>10. CASE UNCHANGED crashVars
  BY <1>10 DEF crashVars, bets, memory, history, Money, CreditOK, UnsettledOK, PaidOK, Won, At
<1> QED BY <1>1, <1>2, <1>3, <1>4, <1>5, <1>6, <1>7, <1>8, <1>9, <1>10
        DEF CrashNext, Frame, Continue

-----------------------------------------------------------------------------
(* The theorems *)

LEMMA Invariance == CrashSpec => []CrashInv
<1>1. CrashInv /\ [CrashNext]_crashVars => CrashInv'
  BY CrashTypeStep, ControlStep, MoneyStep DEF CrashInv, Control
<1> QED BY CrashInvInit, <1>1, PTL DEF CrashSpec

\* Every variable of Crash keeps its type.
THEOREM CrashTypeCorrect == CrashSpec => []CrashTypeOK
<1>1. CrashInv => CrashTypeOK
  BY DEF CrashInv
<1> QED BY Invariance, <1>1, PTL

\* The in-flight flag does its work: from its check until the curve runs, a bet
\* is alone (crashBetsInFlight in handleCrashBet).
THEOREM BetsComeOneByOne == CrashSpec => []OneBetInFlight
<1>1. CrashInv => OneBetInFlight
  BY DEF CrashInv, Control, PlacingOK, OneBetInFlight
<1> QED BY Invariance, <1>1, PTL

\* A paid bet was priced at the instant it was taken, before its crash point.
THEOREM CashoutsInTime == CrashSpec => []PaidBelowCrashPoint
<1>1. CrashInv => PaidBelowCrashPoint
  BY DEF CrashInv, Money, PaidOK, Won, PaidBelowCrashPoint
<1> QED BY Invariance, <1>1, PTL

\* Cash out and bust never both decide a bet, and no bet is decided twice: every
\* step of Crash is one of the abstract wager, or none.
THEOREM CrashImplementsWager == CrashSpec => ImplementsWager
<1> DEFINE outcome == [b \in Bets |-> Outcome(b)]
<1>1. CrashInit => AbstractWager!WagerInit
  BY CrashBoundsAssumption DEF CrashInit, AbstractWager!WagerInit, Outcome, Bets
<1>2. CrashInv /\ [CrashNext]_crashVars => [AbstractWager!WagerNext]_outcome
  <2> SUFFICES ASSUME CrashInv, [CrashNext]_crashVars PROVE AbstractWager!WagerNext \/ UNCHANGED outcome
    OBVIOUS
  <2> USE DEF NoBet
  <2>1. ASSUME NEW c \in Calls, Debit(c) PROVE AbstractWager!WagerNext
    <3>1. /\ placed \in Nat /\ placed + 1 \in Bets /\ placed' = placed + 1
          /\ UNCHANGED <<won, lost>>
      BY <2>1, CrashBoundsAssumption DEF Debit, Debited, history, CrashInv, CrashTypeOK, Bets
    <3>2. outcome[placed + 1] = "unplaced"
      BY <3>1 DEF Outcome
    <3>3. won[placed + 1] = 0 /\ placed + 1 \notin lost
      BY <3>1 DEF CrashInv, Control, FreshOK, Money, UnsettledOK
    <3>4. outcome' = [outcome EXCEPT ![placed + 1] = "open"]
      <4>1. \A a \in Bets : a # placed + 1 => (a > placed <=> a > placed')
        BY <3>1 DEF Bets
      <4>2. ~(placed + 1 > placed') /\ won'[placed + 1] = 0 /\ placed + 1 \notin lost'
        BY <3>1, <3>3
      <4> QED BY <3>1, <4>1, <4>2, Zenon DEF Outcome
    <3> QED BY <3>1, <3>2, <3>4 DEF AbstractWager!WagerNext, AbstractWager!Stake, AbstractWager!Move
  <2>2. CASE Bust
    <3>1. CASE OnTheTable
      <4>1. /\ crashBet \in Bets /\ crashBet <= placed /\ ~settled[crashBet]
            /\ lost' = lost \cup {crashBet}
            /\ UNCHANGED <<placed, won>>
        BY <2>2, <3>1 DEF Bust, OnTheTable, bets, CrashInv, CrashTypeOK, Control, FreshOK, Bets
      <4>2. won[crashBet] = 0 /\ crashBet \notin lost /\ ~(crashBet > placed)
        BY <4>1 DEF CrashInv, Money, UnsettledOK, CrashTypeOK, Bets
      <4>3. outcome[crashBet] = "open"
        BY <4>1, <4>2 DEF Outcome
      <4>4. outcome' = [outcome EXCEPT ![crashBet] = "lost"]
        BY <4>1, <4>2 DEF Outcome
      <4> QED BY <4>1, <4>3, <4>4 DEF AbstractWager!WagerNext, AbstractWager!Lose, AbstractWager!Move
    <3>2. CASE ~OnTheTable
      BY <2>2, <3>2 DEF Bust, bets, Outcome
    <3> QED BY <3>1, <3>2
  <2>3. ASSUME NEW c \in Calls, CreditCashout(c) PROVE AbstractWager!WagerNext \/ UNCHANGED outcome
    <3> DEFINE b == handling[c].bet
    <3>1. /\ b \in 1..placed /\ b \in Bets /\ Won(b)
          /\ won' = [won EXCEPT ![b] = IF @ = 0 THEN cashedOutAt[b] ELSE @]
          /\ UNCHANGED <<placed, lost>>
      BY <2>3, CrashBoundsAssumption
      DEF CreditCashout, bets, CrashInv, CrashTypeOK, Control, CallOK, HoldsABet, Money, CreditOK, Bets
    <3>2. CASE won[b] = 0
      <4>1. won'[b] # 0 /\ \A a \in Bets : a # b => won'[a] = won[a]
        BY <3>1, <3>2 DEF Won, CrashInv, CrashTypeOK
      <4>2. ~(b > placed) /\ b \notin lost
        BY <3>1 DEF Won, CrashInv, CrashTypeOK
      <4>3. outcome[b] = "open"
        BY <3>1, <3>2, <4>2 DEF Outcome
      <4>4. outcome' = [outcome EXCEPT ![b] = "won"]
        BY <3>1, <4>1, <4>2 DEF Outcome
      <4> QED BY <3>1, <4>3, <4>4 DEF AbstractWager!WagerNext, AbstractWager!Win, AbstractWager!Move
    <3>3. CASE won[b] # 0
      <4>1. UNCHANGED won
        BY <3>1, <3>3 DEF CrashInv, CrashTypeOK
      <4> QED BY <3>1, <4>1 DEF Outcome
    <3> QED BY <3>2, <3>3
  <2>4. ASSUME UNCHANGED <<placed, won, lost>> PROVE UNCHANGED outcome
    BY <2>4 DEF Outcome
  <2>5. ASSUME NEW c \in Calls,
               \/ Bet(c) \/ Launch(c) \/ BetFails(c) \/ Cashout(c)
               \/ CreditFails(c) \/ RecordCashout(c)
        PROVE UNCHANGED <<placed, won, lost>>
    BY <2>5 DEF Bet, Launch, BetFails, Cashout, CreditFails, RecordCashout, bets, history
  <2>6. CASE Elapse \/ Tick \/ Restart \/ UNCHANGED crashVars
    BY <2>6, <2>4 DEF Elapse, Tick, Restart, crashVars, bets, history
  <2>7. ASSUME NEW b \in Bets, RecordBust(b) PROVE UNCHANGED <<placed, won, lost>>
    BY <2>7 DEF RecordBust, bets
  <2> QED BY <2>1, <2>2, <2>3, <2>4, <2>5, <2>6, <2>7 DEF CrashNext, Frame, Continue
<1> QED BY Invariance, <1>1, <1>2, PTL DEF CrashSpec, ImplementsWager, AbstractWager!WagerSpec
=============================================================================
