-------------------------------- MODULE Bank --------------------------------
(***************************************************************************)
(* What the ledger promises, without rows, keys or transactions: spendable *)
(* funds, affiliate earnings, and holds for withdrawals.  Funds and        *)
(* earnings are natural numbers, so nothing is ever overdrawn; a player's  *)
(* move never creates money; a hold is taken from funds in full and ends   *)
(* once, by being paid out or by going back to its owner in full.          *)
(***************************************************************************)
EXTENDS Integers

CONSTANTS Users

VARIABLES
  funds,   \* what a player may spend
  earned,  \* affiliate earnings not swept yet
  holds    \* withdrawals under way: [id, user, amount]

bankVars == <<funds, earned, holds>>

Hold == [id: Nat, user: Users, amount: Nat]

BankTypeOK ==
  /\ funds \in [Users -> Nat]
  /\ earned \in [Users -> Nat]
  /\ holds \subseteq Hold

BankInit ==
  /\ funds = [u \in Users |-> 0]
  /\ earned = [u \in Users |-> 0]
  /\ holds = {}

\* Only u's entry of f changes, by d.
Changes(f, g, u, d) == g = [f EXCEPT ![u] = f[u] + d]

\* The house pays a player: a win, a bonus, a confirmed deposit, a correction.
Receive(u) ==
  /\ funds'[u] > funds[u]
  /\ Changes(funds, funds', u, funds'[u] - funds[u])
  /\ UNCHANGED <<earned, holds>>

\* A stake, or an administrator's debit.
Spend(u) ==
  /\ funds'[u] \in 0..funds[u]
  /\ Changes(funds, funds', u, funds'[u] - funds[u])
  /\ UNCHANGED <<earned, holds>>

\* A tip: what v gains is what u loses.
Give(u, v) ==
  /\ u # v
  /\ funds'[u] \in 0..funds[u]
  /\ funds' = [funds EXCEPT ![u] = funds'[u], ![v] = @ + (funds[u] - funds'[u])]
  /\ UNCHANGED <<earned, holds>>

Earn(u) ==
  /\ earned'[u] > earned[u]
  /\ Changes(earned, earned', u, earned'[u] - earned[u])
  /\ UNCHANGED <<funds, holds>>

Sweep(u) ==
  /\ earned'[u] \in 0..earned[u]
  /\ Changes(earned, earned', u, earned'[u] - earned[u])
  /\ Changes(funds, funds', u, earned[u] - earned'[u])
  /\ UNCHANGED holds

PlaceHold(h) ==
  /\ \A other \in holds : other.id # h.id
  /\ h.amount \in 0..funds[h.user]
  /\ Changes(funds, funds', h.user, -h.amount)
  /\ holds' = holds \cup {h}
  /\ UNCHANGED earned

PayOut(h) ==
  /\ holds' = holds \ {h}
  /\ UNCHANGED <<funds, earned>>

GiveBack(h) ==
  /\ holds' = holds \ {h}
  /\ Changes(funds, funds', h.user, h.amount)
  /\ UNCHANGED earned

BankNext ==
  \/ \E u \in Users : Receive(u) \/ Spend(u) \/ Earn(u) \/ Sweep(u)
  \/ \E u, v \in Users : Give(u, v)
  \/ \E h \in holds' : PlaceHold(h)
  \/ \E h \in holds : PayOut(h) \/ GiveBack(h)

BankSpec == BankInit /\ [][BankNext]_bankVars
=============================================================================
