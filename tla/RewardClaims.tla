---------------------------- MODULE RewardClaims ----------------------------
(***************************************************************************)
(* What was given away, and against what: the credits, the days a player   *)
(* checked in, the rakeback claimed and what play was worth.  Rewards says *)
(* how they come about, this module what they promise.                     *)
(***************************************************************************)
EXTENDS Integers, FiniteSets

CONSTANTS
  Players,
  TicksPerDay,   \* resolution of the clock; the wheel's cooldown is as long
  PromoUses      \* maxRedemptions of the promo code

VARIABLES
  paid,    \* the credits in commit order: kind, player, time of the handler, rung, amount
  days,    \* history: <<player, day>> of every claimed check-in
  swept,   \* the sum of the player's RakebackClaim rows
  peak     \* history: the most a player was ever entitled to

Day(t) == t \div TicksPerDay

\* However many handlers run, wherever midnight falls and whichever credit fails:
\* a player spins at most once per cooldown, checks in at most once per day, gets
\* one cashback per day and a code once, and a code pays no more than its uses.
PaidOncePerTurn ==
  /\ \A i, j \in DOMAIN paid :
       LET c == paid[i]
           d == paid[j]
       IN i # j /\ c.kind = d.kind /\ c.p = d.p =>
            /\ c.kind = "wheel" => c.at - d.at >= TicksPerDay \/ d.at - c.at >= TicksPerDay
            /\ c.kind = "checkin" => Day(c.at) # Day(d.at)
            /\ c.kind = "cashback" => c.day # d.day
            /\ c.kind # "promo"
  /\ Cardinality({i \in DOMAIN paid : paid[i].kind = "promo"}) <= PromoUses

\* A rung of the check-in ladder is only paid to a player whose earlier rungs were
\* claimed on the days right before: a slow handler or a midnight never adds a day.
LadderIsEarned ==
  \A i \in DOMAIN paid : paid[i].kind = "checkin" =>
    \A k \in 1..(paid[i].rung - 1) : <<paid[i].p, Day(paid[i].at) - k>> \in days

\* The wheel, the check-in, the codes and the cashback pay what was earned, and once.
EarnedOnce == PaidOncePerTurn /\ LadderIsEarned

\* The rakeback credited to a player, unit by unit.
Rakeback(p) ==
  UNION {{i} \X (1..paid[i].amount) :
           i \in {j \in DOMAIN paid : paid[j].kind = "rakeback" /\ paid[j].p = p}}

\* The rakeback claims of a player never add up to more than its play was ever worth,
\* and what is credited never to more than the claims.
RakebackIsEarned ==
  \A p \in Players : swept[p] <= peak[p] /\ Cardinality(Rakeback(p)) <= swept[p]
=============================================================================
